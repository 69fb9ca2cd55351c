---------------------- MODULE DiskCacheBackendProofs ----------------------
(***************************************************************************)
(* DiskCacheBackend for any number of threads, processes, keys, rows and   *)
(* reboots: types, the contents and the number of the rows, lifetimes, the *)
(* lock, what takes rows away and in which order, and, for a lone client,  *)
(* the contract of a cache backend.                                        *)
(***************************************************************************)
EXTENDS DiskCacheBackend, FiniteSetTheorems, TLAPS

\* What is counted is finite.
CountsFinite ==
    /\ IsFiniteSet(DOMAIN rows)
    /\ \A c \in Clients : call[c].op = "listed" => IsFiniteSet(call[c].keys)

Typed == TypeOK /\ CountsFinite

-----------------------------------------------------------------------------
(* The methods, one lemma for the actions of each *)

\* The clock that a process reads is a natural number.
LEMMA ClockType == TypeOK => Clock \in Nat
BY DEF TypeOK, Clock

\* A deadline is a natural number or None.
LEMMA ExpiresAtType ==
    ASSUME setup \in Setups, NEW now \in Nat
    PROVE  ExpiresAt(now) \in Nat \cup {None}
BY DiskAssumption DEF ValidConfig, ExpiresAt

LEMMA InitTyped == Init => Typed
BY DiskAssumption, FS_EmptySet
DEF Init, Typed, TypeOK, CountsFinite, Idle, NoRow

\* A method that goes on to a step of its type leaves the calls typed.
LEMMA ContinueTyped ==
    ASSUME Typed, NEW c \in setup.users, NEW next \in InProgress \cup Answers \cup {Idle},
           Continue(c, next), next.op = "listed" => IsFiniteSet(next.keys)
    PROVE  /\ call' \in [Clients -> InProgress \cup Answers \cup {Idle}]
           /\ \A d \in Clients : call'[d].op = "listed" => IsFiniteSet(call'[d].keys)
<1>1. c \in Clients
    BY DiskAssumption DEF Typed, TypeOK
<1>2. QED
    BY <1>1 DEF Typed, TypeOK, CountsFinite, Continue

LEMMA InvokeTyped ==
    ASSUME Typed, NEW c \in setup.users, Invoke(c)
    PROVE  Typed'
<1>1. PICK r \in Requests(Clock) : Continue(c, r)
    BY DEF Invoke
<1>2. r \in InProgress /\ r.op # "listed"
    BY ClockType DEF Typed, Requests, InProgress
<1>3. QED
    BY <1>1, <1>2, ContinueTyped
    DEF Invoke, Typed, TypeOK, CountsFinite, file, clock, history

\* The typed fields of a method in progress.
LEMMA MethodType ==
    ASSUME Typed, NEW c \in setup.users
    PROVE  /\ c \in Clients
           /\ call[c].op \in {"get", "set", "found", "maintain", "integrity"} => call[c].now \in Nat
           /\ call[c].op \in {"get", "set", "found"} => call[c].key \in Keys
           /\ call[c].op = "set" => call[c].content \in Contents
           /\ call[c].op = "found" => call[c].row \in RowType \cup {NoRow}
           /\ call[c].op \in {"inspect", "aggregate"} =>
                call[c].limit \in Limits /\ call[c].limit \in Nat
           /\ call[c].op = "listed" => call[c].limit \in Nat /\ call[c].keys \subseteq Keys
<1>1. c \in Clients
    BY DiskAssumption DEF Typed, TypeOK
<1>2. call[c] \in InProgress \cup Answers \cup {Idle} /\ Limits \subseteq Nat
    BY <1>1, DiskAssumption DEF Typed, TypeOK, ValidConfig
<1>3. ASSUME call[c].op \in {"get", "set", "found", "maintain", "integrity",
                            "inspect", "aggregate", "listed"}
      PROVE  \/ call[c] \in [op : {"get"}, key : Keys, now : Nat]
             \/ call[c] \in [op : {"found"}, key : Keys, now : Nat, row : RowType \cup {NoRow}]
             \/ call[c] \in [op : {"set"}, key : Keys, content : Contents, now : Nat]
             \/ call[c] \in [op : {"maintain", "integrity"}, now : Nat]
             \/ call[c] \in [op : {"inspect", "aggregate"}, limit : Limits]
             \/ call[c] \in [op : {"listed"}, limit : Limits, keys : SUBSET Keys]
    BY <1>2, <1>3 DEF InProgress, Answers, Idle
<1>4. QED
    BY <1>1, <1>2, <1>3

LEMMA GetTyped ==
    ASSUME Typed, NEW c \in setup.users, Get(c)
    PROVE  Typed'
<1> DEFINE k == call[c].key
<1>1. ASSUME Select(c) PROVE Typed'
    <2> DEFINE row == IF k \in DOMAIN rows THEN rows[k] ELSE NoRow
               next == [op |-> "found", key |-> k, now |-> call[c].now, row |-> row]
    <2>1. row \in RowType \cup {NoRow}
        BY DEF Typed, TypeOK
    <2>2. k \in Keys /\ call[c].now \in Nat /\ Continue(c, next)
        BY <1>1, MethodType DEF Select, RowAt
    <2>3. next \in InProgress /\ next.op # "listed"
        BY <2>1, <2>2 DEF InProgress
    <2>4. QED
        BY <1>1, <2>2, <2>3, ContinueTyped
        DEF Select, Typed, TypeOK, CountsFinite, file, clock, history
<1>2. ASSUME AnswerAbsent(c) \/ RaiseCorrupt(c) PROVE Typed'
    <2>1. PICK next \in {[op |-> "miss"], Idle} : Continue(c, next)
        BY <1>2 DEF AnswerAbsent, RaiseCorrupt
    <2>2. next \in Answers \cup {Idle} /\ next.op # "listed"
        BY DEF Answers, Idle
    <2>3. QED
        BY <1>2, <2>1, <2>2, ContinueTyped
        DEF AnswerAbsent, RaiseCorrupt, Typed, TypeOK, CountsFinite, file, clock, history
<1>3. ASSUME AnswerDrop(c) PROVE Typed'
    <2> DEFINE next == [op |-> "miss"]
    <2>1. next \in Answers /\ next.op # "listed"
        BY DEF Answers
    <2>2. Continue(c, next)
        BY <1>3 DEF AnswerDrop
    <2>3. /\ DOMAIN rows' = DOMAIN rows \ {k}
          /\ \A j \in DOMAIN rows' : rows'[j] = rows[j]
        BY <1>3 DEF AnswerDrop, Keep
    <2>4. IsFiniteSet(DOMAIN rows')
        BY <2>3, FS_Subset DEF Typed, CountsFinite
    <2>5. latest' \in [Keys -> Contents \cup {None}]
        BY <1>3 DEF AnswerDrop, Keep, Typed, TypeOK
    <2>6. QED
        BY <1>3, <2>1, <2>2, <2>3, <2>4, <2>5, ContinueTyped
        DEF AnswerDrop, Typed, TypeOK, CountsFinite, clock
<1>4. ASSUME AnswerHit(c) PROVE Typed'
    <2> DEFINE next == [op |-> "hit", content |-> call[c].row.content]
               deadline == IF "refresh" \in setup.options THEN ExpiresAt(call[c].now)
                           ELSE call[c].row.expires_at
    <2>1. /\ call[c].now \in Nat /\ k \in Keys
          /\ call[c].row \in RowType /\ call[c].row.content # Corrupt
          /\ Continue(c, next)
          /\ rows' = Updated(c, deadline)
        BY <1>4, MethodType DEF AnswerHit, Serve, Servable
    <2>2. next \in Answers /\ next.op # "listed"
        BY <2>1 DEF RowType, Answers
    <2>3. deadline \in Nat \cup {None}
        BY <2>1, ExpiresAtType DEF RowType, Typed, TypeOK
    <2>4. DOMAIN rows' = DOMAIN rows /\ \A j \in DOMAIN rows' : rows'[j] \in RowType
        <3> SUFFICES ASSUME NEW j \in DOMAIN rows PROVE rows'[j] \in RowType
            BY <2>1 DEF Updated
        <3>1. rows[j] \in RowType
            BY DEF Typed, TypeOK
        <3>2. CASE j # k
            BY <2>1, <3>1, <3>2 DEF Updated
        <3>3. CASE j = k
            <4>1. rows'[j] = [rows[j] EXCEPT !.last_accessed = call[c].now,
                                             !.expires_at = deadline]
                BY <2>1, <3>3 DEF Updated
            <4>2. QED
                BY <4>1, <3>1, <2>1, <2>3 DEF RowType
        <3>4. QED
            BY <3>2, <3>3
    <2>5. used' \in [Keys -> 0..time]
        BY <1>4, <2>1 DEF AnswerHit, Serve, Typed, TypeOK
    <2>6. QED
        BY <1>4, <2>1, <2>2, <2>4, <2>5, ContinueTyped
        DEF AnswerHit, Serve, Typed, TypeOK, CountsFinite, clock
<1>5. QED
    BY <1>1, <1>2, <1>3, <1>4 DEF Get

\* What a store leaves: the new row and those of the others that are not evicted.
LEMMA StoreRows ==
    ASSUME Typed, NEW c \in setup.users, Store(c)
    PROVE  \E out \in Evictions(With(call[c].key, NewRow(c)), call[c].key) :
             /\ DOMAIN rows' = (DOMAIN rows \cup {call[c].key}) \ out
             /\ \A j \in DOMAIN rows' :
                  rows'[j] = IF j = call[c].key THEN NewRow(c) ELSE rows[j]
             /\ \A j \in Keys \ out :
                  latest'[j] = IF j = call[c].key THEN call[c].content ELSE latest[j]
BY DEF Store, StoreWith, With

\* Every row a store leaves is the new one or an old one.
LEMMA StoreLeaves ==
    ASSUME Typed, NEW c \in setup.users, Store(c)
    PROVE  \A j \in DOMAIN rows' :
             /\ j \in DOMAIN rows \/ j = call[c].key
             /\ rows'[j] = IF j = call[c].key THEN NewRow(c) ELSE rows[j]
             /\ j \in Keys =>
                  latest'[j] = IF j = call[c].key THEN call[c].content ELSE latest[j]
<1>1. PICK out :
        /\ DOMAIN rows' = (DOMAIN rows \cup {call[c].key}) \ out
        /\ \A j \in DOMAIN rows' :
             rows'[j] = IF j = call[c].key THEN NewRow(c) ELSE rows[j]
        /\ \A j \in Keys \ out :
             latest'[j] = IF j = call[c].key THEN call[c].content ELSE latest[j]
    BY StoreRows
<1>2. QED
    BY <1>1

LEMMA StoreTyped ==
    ASSUME Typed, NEW c \in setup.users, Store(c)
    PROVE  Typed'
<1> DEFINE k == call[c].key
           next == [op |-> "done"]
<1>1. /\ k \in Keys /\ call[c].now \in Nat /\ call[c].content \in Contents
      /\ TypeOf(c) \in Types
    BY MethodType, DiskAssumption DEF Store, StoreWith, TypeOf, BackendOf, Typed, TypeOK
<1>2. NewRow(c) \in RowType
    BY <1>1, ExpiresAtType DEF NewRow, RowType, Typed, TypeOK
<1>3. PICK out :
        /\ DOMAIN rows' = (DOMAIN rows \cup {k}) \ out
        /\ \A j \in DOMAIN rows' : rows'[j] = IF j = k THEN NewRow(c) ELSE rows[j]
    BY StoreRows
<1>4. IsFiniteSet(DOMAIN rows')
    BY <1>3, FS_AddElement, FS_Subset DEF Typed, CountsFinite
<1>5. DOMAIN rows' \subseteq Keys /\ \A j \in DOMAIN rows' : rows'[j] \in RowType
    BY <1>1, <1>2, <1>3 DEF Typed, TypeOK
<1>6. next \in Answers /\ next.op # "listed" /\ Continue(c, next)
    BY DEF Answers, Store, StoreWith
<1>7. /\ latest' \in [Keys -> Contents \cup {None}]
      /\ stored' \in [Keys -> 0..time] /\ used' \in [Keys -> 0..time]
    BY <1>1 DEF Store, StoreWith, Typed, TypeOK
<1>8. QED
    BY <1>4, <1>5, <1>6, <1>7, ContinueTyped
    DEF Store, StoreWith, Typed, TypeOK, CountsFinite, clock

\* Rows that are only dropped keep their types.
LEMMA KeepTyped ==
    ASSUME Typed, NEW left \in SUBSET DOMAIN rows, Keep(left)
    PROVE  /\ IsFiniteSet(left)
           /\ DOMAIN rows' = left
           /\ \A j \in left : rows'[j] = rows[j]
           /\ DOMAIN rows' \subseteq Keys /\ \A j \in DOMAIN rows' : rows'[j] \in RowType
           /\ latest' \in [Keys -> Contents \cup {None}]
<1>1. IsFiniteSet(left)
    BY FS_Subset DEF Typed, CountsFinite
<1>2. QED
    BY <1>1 DEF Keep, Typed, TypeOK

LEMMA UpkeepTyped ==
    ASSUME Typed, NEW c \in setup.users, Upkeep(c)
    PROVE  Typed'
<1>1. ASSUME Clear(c) PROVE Typed'
    <2> DEFINE next == [op |-> "done"]
    <2>1. next \in Answers /\ next.op # "listed" /\ Continue(c, next)
        BY <1>1 DEF Answers, Clear
    <2>2. QED
        BY <1>1, <2>1, ContinueTyped, KeepTyped
        DEF Clear, Typed, TypeOK, CountsFinite, clock
<1>2. ASSUME Info(c) PROVE Typed'
    <2> DEFINE left == {k \in DOMAIN rows : ~Expired(rows[k], Clock)}
               next == [op |-> "report", hits |-> hits, misses |-> misses,
                        currsize |-> Cardinality(left)]
    <2>1. left \in SUBSET DOMAIN rows /\ Keep(left) /\ Continue(c, next)
        BY <1>2 DEF Info
    <2>2. Cardinality(left) \in Nat
        BY <2>1, KeepTyped, FS_CardinalityType
    <2>3. next \in Answers /\ next.op # "listed"
        BY <2>2 DEF Answers, Typed, TypeOK
    <2> HIDE DEF left, next
    <2>4. QED
        BY <1>2, <2>1, <2>3, ContinueTyped, KeepTyped
        DEF Info, Typed, TypeOK, CountsFinite, clock
<1>3. ASSUME Maintain(c) PROVE Typed'
    <2> DEFINE left == {k \in DOMAIN rows : Servable(rows[k], call[c].now, TypeOf(c))}
    <2>1. left \in SUBSET DOMAIN rows /\ Keep(left)
        BY <1>3 DEF Maintain, MaintainWith
    <2>2. PICK op \in {"vacuum", "tidied"} : Continue(c, [op |-> op])
        BY <1>3 DEF Maintain, MaintainWith
    <2>3. [op |-> op] \in InProgress \cup Answers /\ [op |-> op].op # "listed"
        BY DEF InProgress, Answers
    <2> HIDE DEF left
    <2>4. QED
        BY <1>3, <2>1, <2>2, <2>3, ContinueTyped, KeepTyped
        DEF Maintain, MaintainWith, Typed, TypeOK, CountsFinite, clock
<1>4. ASSUME Vacuum(c) PROVE Typed'
    <2> DEFINE next == [op |-> "tidied"]
    <2>1. next \in Answers /\ next.op # "listed" /\ Continue(c, next)
        BY <1>4 DEF Answers, Vacuum
    <2>2. QED
        BY <1>4, <2>1, ContinueTyped
        DEF Vacuum, Typed, TypeOK, CountsFinite, file, clock, history
<1>5. ASSUME NEW op, NEW pages \in SUBSET SUBSET DOMAIN rows, Listing(c, op, pages),
             op \in {"inspect", "aggregate"}
      PROVE Typed'
    <2>1. PICK listed \in pages :
            Continue(c, [op |-> "listed", limit |-> call[c].limit, keys |-> listed])
        BY <1>5 DEF Listing
    <2> DEFINE next == [op |-> "listed", limit |-> call[c].limit, keys |-> listed]
    <2>2. call[c].limit \in Limits
        BY <1>5, MethodType DEF Listing
    <2>3. next \in InProgress
        BY <2>2 DEF InProgress, Typed, TypeOK
    <2>4. IsFiniteSet(next.keys)
        BY FS_Subset DEF Typed, CountsFinite
    <2>5. QED
        BY <1>5, <2>1, <2>3, <2>4, ContinueTyped
        DEF Listing, Typed, TypeOK, CountsFinite, file, clock, history
<1>6. ASSUME Count(c) PROVE Typed'
    <2> DEFINE truncated == Cardinality(call[c].keys) > call[c].limit
               total == Cardinality(DOMAIN rows)
               entries == IF truncated THEN call[c].limit ELSE Cardinality(call[c].keys)
               next == [op |-> "inspection", total |-> total, entries |-> entries,
                        truncated |-> truncated]
    <2>1. total \in Nat /\ entries \in Nat
        BY <1>6, MethodType, FS_CardinalityType DEF Count, Typed, CountsFinite
    <2>2. truncated \in BOOLEAN /\ Continue(c, next)
        BY <1>6 DEF Count
    <2> HIDE DEF truncated, total, entries
    <2>3. next \in Answers /\ next.op # "listed"
        BY <2>1, <2>2, Zenon DEF Answers
    <2> HIDE DEF next
    <2>4. QED
        BY <1>6, <2>2, <2>3, ContinueTyped
        DEF Count, Typed, TypeOK, CountsFinite, file, clock, history
<1>7. ASSUME InspectIntegrity(c) PROVE Typed'
    <2> DEFINE expired == {k \in DOMAIN rows : Expired(rows[k], call[c].now)}
               mismatched == {k \in DOMAIN rows : rows[k].type # TypeOf(c)}
               corrupt == {k \in DOMAIN rows \ mismatched : rows[k].content = Corrupt}
               next == [op |-> "integrity_report", total |-> Cardinality(DOMAIN rows),
                        expired |-> Cardinality(expired), corrupt |-> Cardinality(corrupt),
                        mismatched |-> Cardinality(mismatched)]
    <2>1. \A S \in SUBSET DOMAIN rows : Cardinality(S) \in Nat
        BY FS_Subset, FS_CardinalityType DEF Typed, CountsFinite
    <2>2. /\ expired \in SUBSET DOMAIN rows /\ mismatched \in SUBSET DOMAIN rows
          /\ corrupt \in SUBSET DOMAIN rows
        OBVIOUS
    <2>3. Continue(c, next)
        BY <1>7 DEF InspectIntegrity
    <2> HIDE DEF expired, mismatched, corrupt
    <2>4. next \in Answers /\ next.op # "listed"
        BY <2>1, <2>2 DEF Answers
    <2> HIDE DEF next
    <2>5. QED
        BY <1>7, <2>3, <2>4, ContinueTyped
        DEF InspectIntegrity, Typed, TypeOK, CountsFinite, file, clock, history
<1>8. QED
    BY <1>1, <1>2, <1>3, <1>4, <1>5, <1>6, <1>7 DEF Upkeep, List, Sample

LEMMA EndTyped ==
    ASSUME Typed, NEW c \in setup.users, Return(c) \/ Fail(c)
    PROVE  Typed'
<1>1. Continue(c, Idle) /\ Idle.op # "listed"
    BY DEF Return, Fail, Idle
<1>2. QED
    BY <1>1, ContinueTyped
    DEF Return, Fail, Typed, TypeOK, CountsFinite, file, clock, history

-----------------------------------------------------------------------------
(* The surroundings *)

LEMMA KillTyped ==
    ASSUME Typed, NEW clients, Kill(clients)
    PROVE  /\ call' \in [Clients -> InProgress \cup Answers \cup {Idle}]
           /\ \A d \in Clients : call'[d].op = "listed" => IsFiniteSet(call'[d].keys)
BY DEF Kill, Typed, TypeOK, CountsFinite, Idle

LEMMA SurroundingsTyped ==
    ASSUME Typed,
           \/ \E b \in Backends : Open(b) \/ Close(b) \/ Crash(b)
           \/ \E k \in Keys : Rot(k)
           \/ Reboot \/ Tick
    PROVE  Typed'
<1>1. ASSUME NEW b \in Backends, Open(b) \/ Close(b) PROVE Typed'
    BY <1>1 DEF Open, Close, Typed, TypeOK, CountsFinite, file, clock, history
<1>2. ASSUME NEW b \in Backends, Crash(b) PROVE Typed'
    BY <1>2, KillTyped DEF Crash, Typed, TypeOK, CountsFinite, file, clock, history
<1>3. ASSUME NEW k \in Keys, Rot(k) PROVE Typed'
    <2>1. \A j \in DOMAIN rows' : rows'[j] \in RowType
        BY <1>3 DEF Rot, RowType, Typed, TypeOK
    <2>2. QED
        BY <1>3, <2>1 DEF Rot, Typed, TypeOK, CountsFinite, clock, history
<1>4. ASSUME Reboot PROVE Typed'
    BY <1>4, KillTyped DEF Reboot, Typed, TypeOK, CountsFinite, file, history
<1>5. ASSUME Tick PROVE Typed'
    BY <1>5 DEF Tick, Typed, TypeOK, CountsFinite, file, history
<1>6. QED
    BY <1>1, <1>2, <1>3, <1>4, <1>5

LEMMA NextTyped == Typed /\ [Next]_vars => Typed'
<1> SUFFICES ASSUME Typed, [Next]_vars PROVE Typed'
    OBVIOUS
<1>1. CASE UNCHANGED vars
    BY <1>1 DEF vars, file, clock, history, Typed, TypeOK, CountsFinite
<1>2. CASE Next
    BY <1>2, InvokeTyped, GetTyped, StoreTyped, UpkeepTyped, EndTyped, SurroundingsTyped
    DEF Next
<1>3. QED
    BY <1>1, <1>2

LEMMA SpecTyped == Spec => []Typed
BY InitTyped, NextTyped, PTL DEF Spec

\* Rows, statistics and the local variables of every method keep their types.
THEOREM DiskTypeCorrect == Spec => []TypeOK
<1>1. Typed => TypeOK
    BY DEF Typed
<1>2. QED
    BY SpecTyped, <1>1, PTL

-----------------------------------------------------------------------------
(* The rows *)

SameStamps(a, b) ==
    /\ a.type = b.type /\ a.expires_at = b.expires_at
    /\ a.last_accessed = b.last_accessed /\ a.created_at = b.created_at

\* Only a store and a hit write a row; every other step drops some, or spoils one.
LEMMA RowsStep ==
    ASSUME Typed, [Next]_vars
    PROVE  \/ \E c \in setup.users : Store(c) \/ AnswerHit(c)
           \/ /\ DOMAIN rows' \subseteq DOMAIN rows
              /\ \A k \in DOMAIN rows' :
                   /\ SameStamps(rows'[k], rows[k])
                   /\ rows'[k].content \in {rows[k].content, Corrupt}
                   /\ latest'[k] = latest[k]
              /\ stored' = stored /\ used' = used
<1> USE DEF SameStamps
<1> DEFINE Shrinks ==
        /\ DOMAIN rows' \subseteq DOMAIN rows
        /\ \A k \in DOMAIN rows' :
             /\ SameStamps(rows'[k], rows[k])
             /\ rows'[k].content \in {rows[k].content, Corrupt}
             /\ latest'[k] = latest[k]
        /\ stored' = stored /\ used' = used
<1>1. CASE UNCHANGED vars
    BY <1>1 DEF vars, file, history
<1>2. ASSUME NEW c \in setup.users, Invoke(c) \/ Return(c) \/ Fail(c) PROVE Shrinks
    BY <1>2 DEF Invoke, Return, Fail, file, history
<1>3. ASSUME NEW c \in setup.users, Select(c) \/ AnswerAbsent(c) \/ RaiseCorrupt(c) PROVE Shrinks
    BY <1>3 DEF Select, AnswerAbsent, RaiseCorrupt, file, history
<1>4. ASSUME NEW c \in setup.users, AnswerDrop(c) PROVE Shrinks
    BY <1>4 DEF AnswerDrop, Keep, Typed, TypeOK
<1>5. ASSUME NEW c \in setup.users, Clear(c) PROVE Shrinks
    BY <1>5 DEF Clear, Keep, Typed, TypeOK
<1>6. ASSUME NEW c \in setup.users, Info(c) PROVE Shrinks
    BY <1>6 DEF Info, Keep, Typed, TypeOK
<1>7. ASSUME NEW c \in setup.users, Maintain(c) PROVE Shrinks
    BY <1>7 DEF Maintain, MaintainWith, Keep, Typed, TypeOK
<1>8. ASSUME NEW c \in setup.users, Vacuum(c) \/ List(c) \/ Sample(c) \/ Count(c)
                                        \/ InspectIntegrity(c)
      PROVE Shrinks
    BY <1>8 DEF Vacuum, List, Sample, Listing, Count, InspectIntegrity, file, history
<1>9. ASSUME NEW b \in Backends, Open(b) \/ Close(b) \/ Crash(b) PROVE Shrinks
    BY <1>9 DEF Open, Close, Crash, file, history
<1>10. ASSUME NEW k \in Keys, Rot(k) PROVE Shrinks
    <2>1. rows' = [rows EXCEPT ![k].content = Corrupt] /\ k \in DOMAIN rows
        BY <1>10 DEF Rot
    <2>2. \A j \in DOMAIN rows' : SameStamps(rows'[j], rows[j])
                                  /\ rows'[j].content \in {rows[j].content, Corrupt}
        BY <2>1 DEF Typed, TypeOK, RowType
    <2>3. QED
        BY <1>10, <2>1, <2>2 DEF Rot, history
<1>11. CASE Reboot \/ Tick
    BY <1>11 DEF Reboot, Tick, file, history
<1>12. QED
    BY <1>1, <1>2, <1>3, <1>4, <1>5, <1>6, <1>7, <1>8, <1>9, <1>10, <1>11
    DEF Next, Get, Upkeep

\* A hit writes a deadline and no content.
LEMMA HitRows ==
    ASSUME Typed, NEW c \in setup.users, AnswerHit(c)
    PROVE  LET k == call[c].key
               deadline == IF "refresh" \in setup.options THEN ExpiresAt(call[c].now)
                           ELSE call[c].row.expires_at
           IN  /\ DOMAIN rows' = DOMAIN rows
               /\ \A j \in DOMAIN rows :
                    /\ rows'[j].content = rows[j].content
                    /\ rows'[j].expires_at = IF j = k THEN deadline ELSE rows[j].expires_at
                    /\ rows'[j].last_accessed =
                         IF j = k THEN call[c].now ELSE rows[j].last_accessed
                    /\ rows'[j].created_at = rows[j].created_at
               /\ k \in DOMAIN rows => used' = [used EXCEPT ![k] = time]
               /\ k \notin DOMAIN rows => used' = used
               /\ latest' = latest /\ stored' = stored
               /\ call[c].op = "found" /\ call[c].row # NoRow
               /\ UNCHANGED <<setup, time, bootedAt>>
<1> DEFINE k == call[c].key
           deadline == IF "refresh" \in setup.options THEN ExpiresAt(call[c].now)
                       ELSE call[c].row.expires_at
<1>1. rows' = Updated(c, deadline)
    BY DEF AnswerHit, Serve
<1>2. ASSUME NEW j \in DOMAIN rows
      PROVE  /\ rows'[j].content = rows[j].content
             /\ rows'[j].expires_at = IF j = k THEN deadline ELSE rows[j].expires_at
             /\ rows'[j].last_accessed = IF j = k THEN call[c].now ELSE rows[j].last_accessed
             /\ rows'[j].created_at = rows[j].created_at
    <2> HIDE DEF deadline
    <2>1. rows[j] \in RowType
        BY DEF Typed, TypeOK
    <2>2. rows'[j] = IF j # k THEN rows[j]
                     ELSE [rows[j] EXCEPT !.last_accessed = call[c].now, !.expires_at = deadline]
        BY <1>1 DEF Updated
    <2>3. QED
        BY <2>1, <2>2 DEF RowType
<1>3. DOMAIN rows' = DOMAIN rows
    BY <1>1 DEF Updated
<1>4. QED
    BY <1>1, <1>2, <1>3 DEF AnswerHit, Serve, Updated, clock

LEMMA NoGhostsStep == Typed /\ NoGhosts /\ [Next]_vars => NoGhosts'
<1> SUFFICES ASSUME Typed, NoGhosts, [Next]_vars PROVE NoGhosts'
    OBVIOUS
<1>1. ASSUME NEW c \in setup.users, Store(c) PROVE NoGhosts'
    <2>1. call[c].content \in Contents /\ call[c].key \in Keys /\ None \notin Contents
        BY <1>1, MethodType, DiskAssumption DEF Store, StoreWith
    <2>2. ASSUME NEW j \in DOMAIN rows'
          PROVE  latest'[j] # None /\ rows'[j].content \in {latest'[j], Corrupt}
        <3>1. /\ j \in Keys
              /\ rows'[j] = IF j = call[c].key THEN NewRow(c) ELSE rows[j]
              /\ latest'[j] = IF j = call[c].key THEN call[c].content ELSE latest[j]
              /\ j \in DOMAIN rows \/ j = call[c].key
            BY <1>1, <2>1, StoreLeaves DEF Typed, TypeOK
        <3>2. CASE j = call[c].key
            BY <2>1, <3>1, <3>2 DEF NewRow
        <3>3. CASE j # call[c].key
            BY <3>1, <3>3 DEF NoGhosts
        <3>4. QED
            BY <3>2, <3>3
    <2>3. QED
        BY <2>2 DEF NoGhosts
<1>2. ASSUME NEW c \in setup.users, AnswerHit(c) PROVE NoGhosts'
    BY <1>2, HitRows DEF NoGhosts
<1>3. QED
    BY <1>1, <1>2, RowsStep DEF NoGhosts

\* Every row was stored since its key was last deleted, and holds what was stored
\* then, whatever stores, clears, evictions and maintenance of other processes come
\* between two statements of a lookup.
THEOREM DiskNoGhosts == Spec => []NoGhosts
<1>1. Init => NoGhosts
    BY DEF Init, NoGhosts
<1>2. QED
    BY SpecTyped, <1>1, NoGhostsStep, PTL DEF Spec

\* The eviction makes room for what was inserted.
LEMMA EvictionsFit ==
    ASSUME NEW table, NEW k, NEW out \in Evictions(table, k), IsFiniteSet(DOMAIN table),
           MaxSize # None
    PROVE  Cardinality(DOMAIN table \ out) <= MaxSize
<1>1. Cardinality(DOMAIN table) \in Nat /\ MaxSize \in Nat
    BY FS_CardinalityType, DiskAssumption DEF ValidConfig
<1>2. out \subseteq DOMAIN table /\ IsFiniteSet(out)
    BY FS_Subset DEF Evictions
<1>3. Cardinality(DOMAIN table \ out) = Cardinality(DOMAIN table) - Cardinality(out)
    <2>1. Cardinality(DOMAIN table \ out)
            = Cardinality(DOMAIN table) - Cardinality(DOMAIN table \cap out)
        BY FS_Difference, <1>2
    <2>2. DOMAIN table \cap out = out
        BY <1>2
    <2>3. QED
        BY <2>1, <2>2
<1>4. Cardinality(out) = IF Cardinality(DOMAIN table) <= MaxSize THEN 0
                         ELSE Cardinality(DOMAIN table) - MaxSize
    BY DEF Evictions
<1>5. QED
    BY <1>1, <1>3, <1>4

LEMMA SizeBoundedStep == Typed /\ SizeBounded /\ [Next]_vars => SizeBounded'
<1> SUFFICES ASSUME Typed, SizeBounded, [Next]_vars, MaxSize # None
             PROVE  Cardinality(DOMAIN rows') <= MaxSize
    BY DEF SizeBounded
<1>1. ASSUME NEW c \in setup.users, Store(c) PROVE Cardinality(DOMAIN rows') <= MaxSize
    <2> DEFINE table == With(call[c].key, NewRow(c))
    <2>1. PICK out \in Evictions(table, call[c].key) :
            DOMAIN rows' = (DOMAIN rows \cup {call[c].key}) \ out
        BY <1>1, StoreRows
    <2>2. DOMAIN table = DOMAIN rows \cup {call[c].key}
        BY DEF With
    <2>3. IsFiniteSet(DOMAIN table)
        BY <2>2, FS_AddElement DEF Typed, CountsFinite
    <2> HIDE DEF table
    <2>4. Cardinality(DOMAIN table \ out) <= MaxSize
        BY <2>3, EvictionsFit
    <2>5. QED
        BY <2>1, <2>2, <2>4
<1>2. ASSUME DOMAIN rows' \subseteq DOMAIN rows PROVE Cardinality(DOMAIN rows') <= MaxSize
    <2>1. Cardinality(DOMAIN rows') <= Cardinality(DOMAIN rows) /\ IsFiniteSet(DOMAIN rows')
        BY <1>2, FS_Subset DEF Typed, CountsFinite
    <2>2. /\ Cardinality(DOMAIN rows) \in Nat /\ Cardinality(DOMAIN rows') \in Nat
          /\ MaxSize \in Nat
        BY <2>1, FS_CardinalityType, DiskAssumption DEF ValidConfig, Typed, CountsFinite
    <2>3. QED
        BY <2>1, <2>2 DEF SizeBounded
<1>3. QED
    BY <1>1, <1>2, RowsStep, HitRows

\* The file has at most maxsize rows between any two transactions.
THEOREM DiskSizeBounded == Spec => []SizeBounded
<1>1. Init => SizeBounded
    BY FS_EmptySet, DiskAssumption DEF Init, SizeBounded, ValidConfig, None
<1>2. QED
    BY SpecTyped, <1>1, SizeBoundedStep, PTL DEF Spec

-----------------------------------------------------------------------------
(* Lifetimes *)

\* Machines with a ttl do not reboot.
NoRebootWithTTL == \A s \in Setups : s.ttl # None => "reboot" \notin s.options

\* When a lifetime that ends with the deadline of a row began.
Began(k) == IF "refresh" \in setup.options THEN used[k] ELSE stored[k]

\* The methods that have read the clock, as in Stamped.
Timed == {"get", "found", "set", "maintain", "integrity"}

\* No clock is ahead of the time, and what a lookup has read does not stay longer
\* than the row may.
DeadlinesKept ==
    setup.ttl # None =>
        /\ bootedAt = 0
        /\ \A c \in Clients : call[c].op \in Timed => call[c].now <= time
        /\ \A c \in Clients : call[c].op = "found" /\ call[c].row # NoRow =>
             /\ call[c].row.expires_at # None
             /\ "refresh" \notin setup.options =>
                  call[c].row.expires_at <= stored[call[c].key] + setup.ttl

Lifetimes == DeadlinesKept /\ NeverOverstays

LEMMA SetupStays == [Next]_vars => setup' = setup
BY DEF Next, Get, Upkeep, Invoke, Select, AnswerAbsent, AnswerDrop, RaiseCorrupt, AnswerHit, Serve,
       Store, StoreWith, Clear, Info, Maintain, MaintainWith, Vacuum, List, Sample, Listing, Count,
       InspectIntegrity, Return, Fail, Open, Close, Crash, Rot, Reboot, Tick, vars

\* Time goes on, and only a reboot sets the clock.
LEMMA TimeStep ==
    ASSUME [Next]_vars
    PROVE  (UNCHANGED clock) \/ Tick \/ Reboot
BY DEF Next, Get, Upkeep, Invoke, Select, AnswerAbsent, AnswerDrop, RaiseCorrupt, AnswerHit, Serve,
       Store, StoreWith, Clear, Info, Maintain, MaintainWith, Vacuum, List, Sample, Listing, Count,
       InspectIntegrity, Return, Fail, Open, Close, Crash, Rot, vars

\* A row of a key whose lifetime began no earlier keeps its deadline.
LEMMA OverstaysStep ==
    ASSUME NoRebootWithTTL, Typed, Lifetimes, [Next]_vars, setup.ttl # None
    PROVE  /\ setup' = setup /\ bootedAt' = 0 /\ time <= time'
           /\ setup.ttl \in Nat
           /\ \A k \in Keys : stored[k] <= stored'[k]
           /\ \A k \in DOMAIN rows' :
                /\ rows'[k].expires_at # None
                /\ rows'[k].expires_at <= Began(k)' + setup.ttl
<1>1. setup' = setup /\ bootedAt' = 0 /\ time <= time' /\ bootedAt = 0 /\ setup.ttl \in Nat
    <2>1. bootedAt = 0 /\ time \in Nat /\ setup.ttl \in Nat /\ "reboot" \notin setup.options
        BY DiskAssumption
        DEF NoRebootWithTTL, Lifetimes, DeadlinesKept, Typed, TypeOK, ValidConfig
    <2>2. QED
        BY <2>1, SetupStays, TimeStep DEF clock, Tick, Reboot
<1>2. ASSUME NEW k \in DOMAIN rows
      PROVE  /\ k \in Keys /\ rows[k].expires_at # None /\ rows[k].expires_at \in Nat
             /\ rows[k].expires_at <= Began(k) + setup.ttl
    BY <1>1, <1>2 DEF Lifetimes, NeverOverstays, Typed, TypeOK, RowType, Began
<1>3. ASSUME NEW c \in setup.users, Store(c)
      PROVE  /\ \A k \in Keys : stored[k] <= stored'[k]
             /\ \A k \in DOMAIN rows' :
                  /\ rows'[k].expires_at # None
                  /\ rows'[k].expires_at <= Began(k)' + setup.ttl
    <2> DEFINE key == call[c].key
    <2>1. /\ \A k \in DOMAIN rows' :
               /\ k \in DOMAIN rows \/ k = key
               /\ rows'[k] = IF k = key THEN NewRow(c) ELSE rows[k]
          /\ key \in Keys
        <3>1. key \in Keys
            BY <1>3, MethodType DEF Store, StoreWith
        <3>2. QED
            BY <1>3, <3>1, StoreLeaves
    <2>2. call[c].now \in Nat /\ call[c].now <= time
        BY <1>3, MethodType DEF Store, StoreWith, Lifetimes, DeadlinesKept, Timed
    <2>3. NewRow(c).expires_at = call[c].now + setup.ttl
        BY DEF NewRow, ExpiresAt
    <2>4. /\ stored' = [stored EXCEPT ![key] = time]
          /\ used' = [used EXCEPT ![key] = time]
        BY <1>3 DEF Store, StoreWith
    <2>5. time \in Nat /\ stored \in [Keys -> 0..time] /\ used \in [Keys -> 0..time]
        BY DEF Typed, TypeOK
    <2>6. \A k \in Keys : stored[k] <= stored'[k]
        BY <2>4, <2>5
    <2>7. ASSUME NEW k \in DOMAIN rows'
          PROVE  /\ rows'[k].expires_at # None
                 /\ rows'[k].expires_at <= Began(k)' + setup.ttl
        <3>1. CASE k = key
            <4>1. Began(k)' = time
                BY <3>1, <2>1, <2>4, <2>5, <1>1 DEF Began
            <4>2. QED
                BY <3>1, <4>1, <2>1, <2>2, <2>3, <2>5, <1>1 DEF None
        <3>2. CASE k # key
            <4>1. Began(k)' = Began(k)
                BY <3>2, <2>1, <2>4, <2>5, <1>1, <1>2 DEF Began
            <4>2. QED
                BY <3>2, <4>1, <2>1, <1>2
        <3>3. QED
            BY <3>1, <3>2
    <2>8. QED
        BY <2>6, <2>7
<1>4. ASSUME NEW c \in setup.users, AnswerHit(c)
      PROVE  /\ \A k \in Keys : stored[k] <= stored'[k]
             /\ \A k \in DOMAIN rows' :
                  /\ rows'[k].expires_at # None
                  /\ rows'[k].expires_at <= Began(k)' + setup.ttl
    <2> DEFINE key == call[c].key
               deadline == IF "refresh" \in setup.options THEN ExpiresAt(call[c].now)
                           ELSE call[c].row.expires_at
    <2>1. /\ DOMAIN rows' = DOMAIN rows
          /\ \A j \in DOMAIN rows :
               rows'[j].expires_at = IF j = key THEN deadline ELSE rows[j].expires_at
          /\ key \in DOMAIN rows => used' = [used EXCEPT ![key] = time]
          /\ key \notin DOMAIN rows => used' = used
          /\ stored' = stored
          /\ call[c].op = "found" /\ call[c].row # NoRow
        BY <1>4, HitRows
    <2>2. /\ call[c].now \in Nat /\ call[c].now <= time
          /\ call[c].row \in RowType /\ call[c].row.expires_at # None
          /\ "refresh" \notin setup.options =>
                  call[c].row.expires_at <= stored[key] + setup.ttl
        BY <2>1, MethodType DEF Lifetimes, DeadlinesKept, Timed
    <2>3. time \in Nat /\ stored \in [Keys -> 0..time] /\ used \in [Keys -> 0..time]
        BY DEF Typed, TypeOK
    <2>4. ASSUME NEW k \in DOMAIN rows
          PROVE  /\ rows'[k].expires_at # None
                 /\ rows'[k].expires_at <= Began(k)' + setup.ttl
        <3>1. CASE k = key /\ "refresh" \in setup.options
            <4>1. Began(k)' = time /\ deadline = call[c].now + setup.ttl
                BY <3>1, <2>1, <2>3, <1>1, <1>2 DEF Began, ExpiresAt
            <4>2. QED
                BY <3>1, <4>1, <2>1, <2>2, <2>3, <1>1 DEF None
        <3>2. CASE k = key /\ "refresh" \notin setup.options
            BY <3>2, <2>1, <2>2, <1>1 DEF Began
        <3>3. CASE k # key
            <4>1. Began(k)' = Began(k)
                BY <3>3, <2>1, <2>3, <1>1, <1>2 DEF Began
            <4>2. QED
                BY <3>3, <4>1, <2>1, <1>2
        <3>4. QED
            BY <3>1, <3>2, <3>3
    <2>5. QED
        BY <2>1, <2>3, <2>4
<1>5. ASSUME /\ DOMAIN rows' \subseteq DOMAIN rows
             /\ \A k \in DOMAIN rows' : rows'[k].expires_at = rows[k].expires_at
             /\ stored' = stored /\ used' = used
      PROVE  /\ \A k \in Keys : stored[k] <= stored'[k]
             /\ \A k \in DOMAIN rows' :
                  /\ rows'[k].expires_at # None
                  /\ rows'[k].expires_at <= Began(k)' + setup.ttl
    <2>1. \A k : Began(k)' = Began(k)
        BY <1>5, <1>1 DEF Began
    <2>2. \A k \in Keys : stored[k] \in Nat
        BY DEF Typed, TypeOK
    <2>3. QED
        BY <1>5, <1>2, <2>1, <2>2
<1>6. QED
    BY <1>1, <1>3, <1>4, <1>5, RowsStep DEF SameStamps

\* Every method goes on with the time it read, and a lookup with the row.
LEMMA ReadingsStep ==
    ASSUME Typed, [Next]_vars, NEW c \in Clients
    PROVE  /\ call'[c].op \in Timed =>
                \/ /\ call[c].op \in Timed
                   /\ call'[c].now = call[c].now
                \/ call'[c].now = Clock
           /\ call'[c].op = "found" =>
                \/ call'[c] = call[c]
                \/ LET k == call'[c].key
                   IN call'[c].row = IF k \in DOMAIN rows THEN rows[k] ELSE NoRow
<1> USE DEF Timed
<1> DEFINE Goal ==
       /\ call'[c].op \in Timed =>
                \/ /\ call[c].op \in Timed
                   /\ call'[c].now = call[c].now
                \/ call'[c].now = Clock
       /\ call'[c].op = "found" =>
            \/ call'[c] = call[c]
            \/ LET k == call'[c].key
               IN call'[c].row = IF k \in DOMAIN rows THEN rows[k] ELSE NoRow
<1>1. ASSUME call'[c] = call[c] \/ call'[c].op \notin Timed PROVE Goal
    BY <1>1
<1>2. ASSUME NEW d \in setup.users, NEW next, Continue(d, next),
             next.op \notin Timed
      PROVE Goal
    BY <1>1, <1>2 DEF Continue, Typed, TypeOK
<1>3. ASSUME NEW d \in setup.users, Invoke(d) PROVE Goal
    <2>1. PICK r \in Requests(Clock) : Continue(d, r)
        BY <1>3 DEF Invoke
    <2>2. r.op # "found" /\ (r.op \in Timed => r.now = Clock)
        BY DEF Requests
    <2>3. CASE d = c
        BY <2>1, <2>2, <2>3 DEF Continue, Typed, TypeOK
    <2>4. CASE d # c
        BY <1>1, <2>1, <2>4 DEF Continue, Typed, TypeOK
    <2>5. QED
        BY <2>3, <2>4
<1>4. ASSUME NEW d \in setup.users, Select(d) PROVE Goal
    <2>1. CASE d = c
        BY <1>4, <2>1 DEF Select, RowAt, Continue, Typed, TypeOK
    <2>2. CASE d # c
        BY <1>1, <1>4, <2>2 DEF Select, Continue, Typed, TypeOK
    <2>3. QED
        BY <2>1, <2>2
<1>5. ASSUME NEW d \in setup.users, Get(d), ~Select(d) PROVE Goal
    <2>1. Continue(d, [op |-> "miss"]) \/ Continue(d, Idle)
          \/ Continue(d, [op |-> "hit", content |-> call[d].row.content])
        BY <1>5 DEF Get, AnswerAbsent, AnswerDrop, RaiseCorrupt, AnswerHit, Serve
    <2>2. QED
        BY <2>1, <1>2 DEF Idle
<1>6. ASSUME NEW d \in setup.users, Store(d) \/ Clear(d) \/ Return(d) \/ Fail(d) \/ Vacuum(d)
      PROVE  Goal
    <2>1. PICK next \in {[op |-> "done"], Idle, [op |-> "tidied"]} : Continue(d, next)
        BY <1>6 DEF Store, StoreWith, Clear, Return, Fail, Vacuum
    <2>2. next.op \notin Timed
        BY DEF Idle
    <2>3. QED
        BY <2>1, <2>2, <1>2
<1>7. ASSUME NEW d \in setup.users, Info(d) PROVE Goal
    BY <1>7, <1>2 DEF Info
<1>8. ASSUME NEW d \in setup.users, Maintain(d) PROVE Goal
    BY <1>8, <1>2 DEF Maintain, MaintainWith
<1>9. ASSUME NEW d \in setup.users, List(d) \/ Sample(d) \/ InspectIntegrity(d) PROVE Goal
    BY <1>9, <1>2 DEF List, Sample, Listing, InspectIntegrity
<1>10. ASSUME NEW d \in setup.users, Count(d) PROVE Goal
    BY <1>10, <1>2 DEF Count
<1>11. ASSUME NEW clients, Kill(clients) PROVE Goal
    BY <1>11, <1>1 DEF Kill, Idle
<1>12. ASSUME call' = call PROVE Goal
    BY <1>12, <1>1
<1>13. QED
    BY <1>3, <1>4, <1>5, <1>6, <1>7, <1>8, <1>9, <1>10, <1>11, <1>12
    DEF Next, Upkeep, Open, Close, Crash, Reboot, Rot, Tick, vars

LEMMA LifetimesStep ==
    ASSUME NoRebootWithTTL
    PROVE  Typed /\ Lifetimes /\ [Next]_vars => Lifetimes'
<1> SUFFICES ASSUME Typed, Lifetimes, [Next]_vars PROVE Lifetimes'
    OBVIOUS
<1>1. setup' = setup /\ Typed'
    BY NextTyped, SetupStays
<1>2. SUFFICES ASSUME setup.ttl # None PROVE Lifetimes'
    BY <1>1 DEF Lifetimes, DeadlinesKept, NeverOverstays
<1>3. /\ bootedAt = 0 /\ bootedAt' = 0 /\ time <= time' /\ setup.ttl \in Nat
      /\ \A k \in Keys : stored[k] <= stored'[k]
      /\ \A k \in DOMAIN rows' :
           /\ rows'[k].expires_at # None
           /\ rows'[k].expires_at <= Began(k)' + setup.ttl
    BY <1>2, OverstaysStep DEF Lifetimes, DeadlinesKept
<1>4. Clock = time /\ time \in Nat /\ time' \in Nat
    BY <1>1, <1>3 DEF Clock, Typed, TypeOK
<1>5. ASSUME NEW c \in Clients, call'[c].op \in Timed
      PROVE  call'[c].now <= time'
    <2>1. call'[c].now <= time /\ call'[c].now \in Nat
        <3>1. CASE call'[c].now = Clock
            BY <3>1, <1>4
        <3>2. CASE call[c].op \in Timed /\ call'[c].now = call[c].now
            <4>1. call'[c] \in InProgress \cup Answers \cup {Idle}
                BY <1>1 DEF Typed, TypeOK
            <4>2. call'[c].now \in Nat
                BY <4>1, <1>5 DEF Timed, InProgress, Answers, Idle
            <4>3. QED
                BY <3>2, <4>2, <1>2 DEF Lifetimes, DeadlinesKept
        <3>3. QED
            BY <3>1, <3>2, <1>5, ReadingsStep
    <2>2. QED
        BY <2>1, <1>3, <1>4
<1>6. ASSUME NEW c \in Clients, call'[c].op = "found", call'[c].row # NoRow
      PROVE  /\ call'[c].row.expires_at # None
             /\ "refresh" \notin setup.options =>
                  call'[c].row.expires_at <= stored'[call'[c].key] + setup.ttl
    <2> DEFINE k == call'[c].key
    <2>1. call'[c] \in [op : {"found"}, key : Keys, now : Nat, row : RowType \cup {NoRow}]
        BY <1>1, <1>6 DEF Typed, TypeOK, InProgress, Answers, Idle
    <2>2. /\ k \in Keys /\ call'[c].row \in RowType
          /\ call'[c].row.expires_at \in Nat \cup {None}
          /\ stored[k] \in Nat /\ stored'[k] \in Nat
        BY <2>1, <1>1, <1>6 DEF RowType, Typed, TypeOK
    <2>3. CASE call'[c] = call[c]
        <3>1. /\ call[c].row.expires_at # None
              /\ "refresh" \notin setup.options =>
                   call[c].row.expires_at <= stored[k] + setup.ttl
            BY <2>3, <1>2, <1>6 DEF Lifetimes, DeadlinesKept
        <3>2. stored[k] <= stored'[k]
            BY <2>2, <1>3
        <3>3. call[c].row.expires_at \in Nat
            BY <2>2, <2>3, <3>1
        <3>4. QED
            BY <2>2, <2>3, <3>1, <3>2, <3>3, <1>3
    <2>4. CASE k \in DOMAIN rows /\ call'[c].row = rows[k]
        <3>1. /\ rows[k].expires_at # None
              /\ "refresh" \notin setup.options => rows[k].expires_at <= stored[k] + setup.ttl
            BY <2>2, <2>4, <1>2, <1>3 DEF Lifetimes, NeverOverstays
        <3>2. stored[k] <= stored'[k]
            BY <2>2, <1>3
        <3>3. rows[k].expires_at \in Nat
            BY <2>2, <2>4, <3>1
        <3>4. QED
            BY <2>2, <2>4, <3>1, <3>2, <3>3, <1>3
    <2>5. QED
        BY <2>3, <2>4, <1>6, ReadingsStep
<1>7. DeadlinesKept'
    BY <1>1, <1>3, <1>5, <1>6 DEF DeadlinesKept
<1>8. NeverOverstays'
    <2>1. \A k \in DOMAIN rows' : rows'[k].expires_at + bootedAt' = rows'[k].expires_at
        BY <1>1, <1>3 DEF Typed, TypeOK, RowType
    <2>2. QED
        BY <1>1, <1>3, <2>1 DEF NeverOverstays, Began
<1>9. QED
    BY <1>7, <1>8 DEF Lifetimes

\* Unless the machine reboots, no row can be served longer than ttl after it was
\* stored or, if hits refresh the ttl, last used.
THEOREM DiskNeverOverstays ==
    ASSUME NoRebootWithTTL
    PROVE  Spec => []NeverOverstays
<1>1. Init => Lifetimes
    BY DEF Init, Lifetimes, DeadlinesKept, NeverOverstays, Timed, Idle
<1>2. Lifetimes => NeverOverstays
    BY DEF Lifetimes
<1>3. QED
    BY SpecTyped, <1>1, <1>2, LifetimesStep, PTL DEF Spec

-----------------------------------------------------------------------------
(* The lock *)

\* At most one method holds the lock of a backend.
Exclusive ==
    \A c, d \in setup.users :
        HoldsLock(c) /\ HoldsLock(d) /\ BackendOf(c) = BackendOf(d) => c = d

Locking == Exclusive /\ LockHolds

\* What a method m has read is what the table says.
Current(m, table) ==
    /\ m.op = "found" =>
         (IF m.key \in DOMAIN table THEN table[m.key] ELSE NoRow) \in Since(m.row)
    /\ m.op = "listed" => Cardinality(m.keys) > m.limit \/ m.keys = DOMAIN table

\* A step of client c that leaves the lock, or takes it with a true reading, and
\* that had the lock, or found it free, if it changed the table.
LEMMA LockStep ==
    ASSUME Typed, Locking, NEW c \in setup.users, NEW next, Continue(c, next),
           setup' = setup, open' = open,
           rows' = rows \/ HoldsLock(c) \/ Enter(c),
           \/ next.op \notin {"found", "listed", "vacuum"}
           \/ Enter(c) /\ Current(next, rows')
    PROVE  Locking'
<1>1. c \in Clients /\ setup.users \subseteq Clients
    BY DiskAssumption DEF Typed, TypeOK
<1>2. /\ call'[c] = next
      /\ \A d \in setup.users : d # c => call'[d] = call[d]
    BY <1>1 DEF Continue, Typed, TypeOK
<1>3. /\ \A d : BackendOf(d)' = BackendOf(d)
      /\ \A row : Since(row)' = Since(row)
      /\ OneProcess' = OneProcess
    BY DEF BackendOf, Since, OneProcess
<1>4. \A d \in setup.users : d # c => (HoldsLock(d)' <=> HoldsLock(d))
    BY <1>2 DEF HoldsLock
<1>5. HoldsLock(c)' => Enter(c) /\ Current(next, rows')
    BY <1>2 DEF HoldsLock
<1>6. HoldsLock(c) \/ Enter(c) =>
        \A d \in setup.users : HoldsLock(d) /\ d # c => BackendOf(d) # BackendOf(c)
    BY DEF Locking, Exclusive, Enter, LockedBy
<1>7. Exclusive'
    BY <1>3, <1>4, <1>5, <1>6 DEF Locking, Exclusive
<1>8. ASSUME NEW d \in setup.users, HoldsLock(d)'
      PROVE  /\ BackendOf(d) \in open
             /\ OneProcess => Current(call'[d], rows')
    <2>1. CASE d = c
        BY <2>1, <1>2, <1>5, <1>8 DEF Enter
    <2>2. CASE d # c
        <3>1. HoldsLock(d) /\ call'[d] = call[d]
            BY <2>2, <1>2, <1>4, <1>8
        <3>2. OneProcess => rows' = rows
            BY <3>1, <2>2, <1>6 DEF OneProcess
        <3>3. QED
            BY <1>3, <3>1, <3>2 DEF Locking, LockHolds, Current, RowAt
    <2>3. QED
        BY <2>1, <2>2
<1>9. LockHolds'
    BY <1>3, <1>8 DEF LockHolds, Current, RowAt
<1>10. QED
    BY <1>7, <1>9 DEF Locking

LEMMA GetLocking ==
    ASSUME Typed, Locking, NEW c \in setup.users, Get(c)
    PROVE  Locking'
<1>1. CASE Select(c)
    <2> DEFINE k == call[c].key
               next == [op |-> "found", key |-> k, now |-> call[c].now,
                        row |-> IF k \in DOMAIN rows THEN rows[k] ELSE NoRow]
    <2>1. Enter(c) /\ Continue(c, next) /\ UNCHANGED <<setup, rows, open>>
        BY <1>1 DEF Select, RowAt, file
    <2>2. Current(next, rows')
        BY <2>1 DEF Current, Since
    <2>3. QED
        BY <2>1, <2>2, LockStep
<1>2. CASE AnswerAbsent(c) \/ AnswerDrop(c) \/ RaiseCorrupt(c) \/ AnswerHit(c)
    <2>1. HoldsLock(c) /\ UNCHANGED <<setup, open>>
        BY <1>2 DEF AnswerAbsent, AnswerDrop, RaiseCorrupt, AnswerHit, Serve, HoldsLock
    <2>2. \E next \in {[op |-> "miss"], Idle, [op |-> "hit", content |-> call[c].row.content]} :
            Continue(c, next)
        BY <1>2 DEF AnswerAbsent, AnswerDrop, RaiseCorrupt, AnswerHit, Serve
    <2>3. QED
        BY <2>1, <2>2, LockStep DEF Idle
<1>3. QED
    BY <1>1, <1>2 DEF Get

\* What an inspection lists is everything or more than its limit.
LEMMA ListCurrent ==
    ASSUME Typed, NEW c \in setup.users, List(c) \/ Sample(c)
    PROVE  \E listed : LET next == [op |-> "listed", limit |-> call[c].limit, keys |-> listed]
                       IN  Continue(c, next) /\ Current(next, rows)
<1> DEFINE total == Cardinality(DOMAIN rows)
           size == IF total <= call[c].limit THEN total ELSE call[c].limit + 1
<1>1. PICK listed \in SUBSET DOMAIN rows :
        /\ Cardinality(listed) = size
        /\ Continue(c, [op |-> "listed", limit |-> call[c].limit, keys |-> listed])
    BY DEF List, Sample, Listing
<1>2. call[c].limit \in Nat /\ total \in Nat
    BY MethodType, FS_CardinalityType DEF List, Sample, Listing, Typed, CountsFinite
<1>3. total = Cardinality(listed) => listed = DOMAIN rows
    BY FS_Subset DEF Typed, CountsFinite
<1>4. Cardinality(listed) > call[c].limit \/ listed = DOMAIN rows
    BY <1>1, <1>2, <1>3
<1>5. QED
    BY <1>1, <1>4 DEF Current

LEMMA ClientLocking ==
    ASSUME Typed, Locking, NEW c \in setup.users,
           Invoke(c) \/ Store(c) \/ Upkeep(c) \/ Return(c) \/ Fail(c)
    PROVE  Locking'
<1>1. CASE Invoke(c)
    <2>1. PICK r \in Requests(Clock) : Continue(c, r)
        BY <1>1 DEF Invoke
    <2>2. r.op \notin {"found", "listed", "vacuum"}
        BY DEF Requests
    <2>3. QED
        BY <1>1, <2>1, <2>2, LockStep DEF Invoke, file
<1>2. CASE Store(c) \/ Clear(c)
    BY <1>2, LockStep DEF Store, StoreWith, Clear
<1>3. CASE Info(c)
    BY <1>3, LockStep DEF Info
<1>4. CASE Maintain(c)
    <2>1. PICK op \in {"vacuum", "tidied"} : Continue(c, [op |-> op])
        BY <1>4 DEF Maintain, MaintainWith
    <2>2. Current([op |-> op], rows')
        BY DEF Current
    <2>3. QED
        BY <1>4, <2>1, <2>2, LockStep DEF Maintain, MaintainWith
<1>5. CASE Vacuum(c) \/ Return(c) \/ Fail(c)
    <2>1. PICK next \in {[op |-> "tidied"], Idle} : Continue(c, next)
        BY <1>5 DEF Vacuum, Return, Fail
    <2>2. QED
        BY <1>5, <2>1, LockStep DEF Vacuum, Return, Fail, file, Idle
<1>6. CASE List(c) \/ Sample(c)
    <2>1. Enter(c) /\ UNCHANGED <<setup, rows, open>>
        BY <1>6 DEF List, Sample, Listing, file
    <2>2. QED
        BY <1>6, <2>1, ListCurrent, LockStep
<1>7. CASE Count(c) \/ InspectIntegrity(c)
    BY <1>7, LockStep DEF Count, InspectIntegrity, file
<1>8. QED
    BY <1>1, <1>2, <1>3, <1>4, <1>5, <1>6, <1>7 DEF Upkeep

LEMMA SurroundingsLocking ==
    ASSUME Typed, Locking,
           \/ \E b \in Backends : Open(b) \/ Close(b) \/ Crash(b)
           \/ \E k \in Keys : Rot(k)
           \/ Reboot \/ Tick
    PROVE  Locking'
<1>1. setup.users \subseteq Clients
    BY DiskAssumption DEF Typed, TypeOK
<1>2. ASSUME NEW b \in Backends, Open(b) PROVE Locking'
    BY <1>2 DEF Open, file, Locking, Exclusive, LockHolds, HoldsLock, BackendOf, OneProcess,
        RowAt, Since
<1>3. ASSUME NEW b \in Backends, Close(b) PROVE Locking'
    BY <1>3
    DEF Close, LockedBy, file, Locking, Exclusive, LockHolds, HoldsLock, BackendOf, OneProcess,
        RowAt, Since
<1>4. ASSUME NEW b \in Backends, Crash(b) PROVE Locking'
    <2>1. /\ setup' = setup /\ rows' = rows /\ open' = open \ {b}
          /\ \A c \in setup.users :
               call'[c] = IF BackendOf(c) = b THEN Idle ELSE call[c]
        BY <1>1, <1>4 DEF Crash, Kill, file
    <2>2. \A c \in setup.users :
            HoldsLock(c)' => HoldsLock(c) /\ call'[c] = call[c] /\ BackendOf(c) # b
        BY <2>1 DEF HoldsLock, Idle
    <2>3. QED
        BY <2>1, <2>2 DEF Locking, Exclusive, LockHolds, BackendOf, OneProcess, RowAt, Since
<1>5. ASSUME NEW k \in Keys, Rot(k) PROVE Locking'
    <2>1. /\ k \in DOMAIN rows /\ "rot" \in setup.options /\ UNCHANGED <<setup, open, call>>
          /\ DOMAIN rows' = DOMAIN rows
          /\ rows' = [rows EXCEPT ![k] = [rows[k] EXCEPT !.content = Corrupt]]
        BY <1>5 DEF Rot
    <2>2. ASSUME NEW row \in RowType \cup {NoRow}, NEW j, RowAt(j) \in Since(row)
          PROVE  RowAt(j)' \in Since(row)'
        <3>1. CASE j = k
            <4>1. RowAt(j) = rows[k] /\ RowAt(j)' = [rows[k] EXCEPT !.content = Corrupt]
                BY <2>1, <3>1 DEF RowAt
            <4>2. rows[k] \in RowType /\ rows[k] # NoRow
                BY <2>1 DEF Typed, TypeOK, RowType, NoRow
            <4>3. row # NoRow /\ row \in RowType
                BY <2>2, <4>1, <4>2 DEF Since
            <4>4. [rows[k] EXCEPT !.content = Corrupt] = [row EXCEPT !.content = Corrupt]
                BY <2>2, <4>1, <4>2, <4>3 DEF Since, RowType
            <4>5. QED
                BY <2>1, <4>1, <4>3, <4>4 DEF Since
        <3>2. CASE j # k
            BY <2>1, <2>2, <3>2 DEF RowAt, Since
        <3>3. QED
            BY <3>1, <3>2
    <2>3. \A c \in setup.users : call[c].op = "found" => call[c].row \in RowType \cup {NoRow}
        BY MethodType
    <2>4. QED
        BY <2>1, <2>2, <2>3 DEF Locking, Exclusive, LockHolds, HoldsLock, BackendOf, OneProcess
<1>6. CASE Reboot
    <2>1. setup' = setup /\ \A c \in setup.users : call'[c] = Idle
        BY <1>1, <1>6 DEF Reboot, Kill
    <2>2. \A c \in setup.users : ~HoldsLock(c)'
        BY <2>1 DEF HoldsLock, Idle
    <2>3. QED
        BY <2>1, <2>2 DEF Locking, Exclusive, LockHolds
<1>7. CASE Tick
    BY <1>7 DEF Tick, file, Locking, Exclusive, LockHolds, HoldsLock, BackendOf, OneProcess,
        RowAt, Since
<1>8. QED
    BY <1>2, <1>3, <1>4, <1>5, <1>6, <1>7

LEMMA LockingStep == Typed /\ Locking /\ [Next]_vars => Locking'
<1> SUFFICES ASSUME Typed, Locking, [Next]_vars PROVE Locking'
    OBVIOUS
<1>1. CASE UNCHANGED vars
    BY <1>1
    DEF vars, file, Locking, Exclusive, LockHolds, HoldsLock, BackendOf, OneProcess,
        RowAt, Since
<1>2. CASE Next
    BY <1>2, GetLocking, ClientLocking, SurroundingsLocking DEF Next
<1>3. QED
    BY <1>1, <1>2

LEMMA SpecLocking == Spec => []Locking
<1>1. Init => Locking
    BY DiskAssumption DEF Init, Locking, Exclusive, LockHolds, HoldsLock, Idle
<1>2. QED
    BY SpecTyped, <1>1, LockingStep, PTL DEF Spec

\* No connection is closed under a method, and the threads of one process act on
\* what they have read, unless it has rotted.
THEOREM DiskLockHolds == Spec => []LockHolds
<1>1. Locking => LockHolds
    BY DEF Locking
<1>2. QED
    BY SpecLocking, <1>1, PTL

-----------------------------------------------------------------------------
(* What takes rows away *)

\* What a method reads of the clock is not ahead of it, and at most Lag behind.
TimelyCalls ==
    \A c \in setup.users : call[c].op \in Timed =>
        call[c].now <= Clock /\ Clock <= call[c].now + Lag

LEMMA TimelyCallsStep == Typed /\ TimelyCalls /\ [Next]_vars => TimelyCalls'
<1> SUFFICES ASSUME Typed, TimelyCalls, [Next]_vars, NEW c \in setup.users,
                    call'[c].op \in Timed
             PROVE  call'[c].now <= Clock' /\ Clock' <= call'[c].now + Lag
    BY SetupStays DEF TimelyCalls
<1>1. /\ c \in Clients /\ Clock \in Nat /\ Lag \in Nat
      /\ call[c].op \in Timed => call[c].now \in Nat
    BY ClockType, MethodType, DiskAssumption DEF Typed, Timed
<1>2. CASE UNCHANGED clock
    <2>1. Clock' = Clock
        BY <1>2 DEF Clock, clock
    <2>2. CASE call[c].op \in Timed /\ call'[c].now = call[c].now
        BY <2>1, <2>2 DEF TimelyCalls
    <2>3. CASE call'[c].now = Clock
        BY <1>1, <2>1, <2>3
    <2>4. QED
        BY <1>1, <2>2, <2>3, ReadingsStep
<1>3. CASE Tick
    <2>1. call' = call /\ Clock' = Clock + 1 /\ Clock < call[c].now + Lag
        BY <1>3 DEF Tick, Stamped, Timed, Clock, Typed, TypeOK
    <2>2. QED
        BY <1>1, <2>1 DEF TimelyCalls
<1>4. CASE Reboot
    BY <1>1, <1>4 DEF Reboot, Kill, Idle, Timed
<1>5. QED
    BY <1>2, <1>3, <1>4, TimeStep

LEMMA SpecTimely == Spec => []TimelyCalls
<1>1. Init => TimelyCalls
    BY DiskAssumption DEF Init, TimelyCalls, Timed, Idle
<1>2. QED
    BY SpecTyped, <1>1, TimelyCallsStep, PTL DEF Spec

\* The steps after which a row may be missing.
LEMMA LosingStep ==
    ASSUME Typed, [Next]_vars, NEW k \in DOMAIN rows \ DOMAIN rows'
    PROVE  \E c \in setup.users :
             /\ Store(c) \/ Clear(c) \/ AnswerDrop(c) \/ Info(c) \/ Maintain(c)
             /\ \E next : Continue(c, next)
<1>1. rows' # rows
    OBVIOUS
<1>2. ASSUME NEW j \in Keys, Rot(j) PROVE FALSE
    BY <1>2 DEF Rot
<1>3. ASSUME NEW c \in setup.users, AnswerHit(c) PROVE FALSE
    BY <1>3, HitRows
<1>4. PICK c \in setup.users :
        Store(c) \/ Clear(c) \/ AnswerDrop(c) \/ Info(c) \/ Maintain(c)
    BY <1>1, <1>2, <1>3
    DEF Next, Get, Upkeep, Invoke, Select, AnswerAbsent, RaiseCorrupt, Vacuum, List, Sample,
        Listing, Count, InspectIntegrity, Return, Fail, Open, Close, Crash, Reboot, Tick, vars, file
<1>5. \E next : Continue(c, next)
    BY <1>4 DEF Store, StoreWith, Clear, AnswerDrop, Info, Maintain, MaintainWith
<1>6. QED
    BY <1>4, <1>5

LEMMA KeepsStep ==
    Typed /\ Locking /\ TimelyCalls /\ [Next]_vars =>
        \A k \in DOMAIN rows \ DOMAIN rows' : \E c \in setup.users : Loses(c, k)
<1> SUFFICES ASSUME Typed, Locking, TimelyCalls, [Next]_vars,
                    NEW k \in DOMAIN rows \ DOMAIN rows'
             PROVE  \E c \in setup.users : Loses(c, k)
    OBVIOUS
<1>1. PICK c \in setup.users : Store(c) \/ Clear(c) \/ AnswerDrop(c) \/ Info(c) \/ Maintain(c)
    BY LosingStep
<1>2. /\ c \in Clients /\ DOMAIN call = Clients /\ rows[k] \in RowType
      /\ rows[k].expires_at \in Nat \cup {None} /\ Clock \in Nat
      /\ call[c].op \in Timed => call[c].now \in Nat /\ call[c].now <= Clock
    BY MethodType, ClockType DEF Typed, TypeOK, RowType, TimelyCalls, Timed
<1>3. ASSUME NEW now \in Nat, now <= Clock, Expired(rows[k], now) PROVE Expired(rows[k], Clock)
    BY <1>2, <1>3 DEF Expired, None
<1>4. CASE Store(c) \/ Clear(c)
    <2>1. call[c].op \in {"set", "clear"} /\ call'[c].op = "done"
        BY <1>2, <1>4 DEF Store, StoreWith, Clear, Continue
    <2>2. QED
        BY <2>1 DEF Loses
<1>5. CASE AnswerDrop(c)
    <2> DEFINE row == call[c].row
    <2>1. /\ call[c].op = "found" /\ call[c].key = k /\ row # NoRow
          /\ ~Servable(row, call[c].now, TypeOf(c))
        BY <1>5 DEF AnswerDrop, Keep
    <2>2. call'[c] # call[c] /\ call'[c].op = "miss"
        BY <1>2, <1>5, <2>1 DEF AnswerDrop, Continue
    <2>3. CASE ~OneProcess /\ row # rows[k]
        BY <2>1, <2>2, <2>3 DEF Loses
    <2>4. CASE OneProcess \/ row = rows[k]
        <3>1. rows[k] \in Since(row) /\ row \in RowType
            BY <2>1, <2>4, MethodType DEF Locking, LockHolds, HoldsLock, RowAt, Since
        <3>2. SameStamps(rows[k], row) /\ rows[k].content \in {row.content, Corrupt}
            BY <3>1 DEF Since, SameStamps, RowType
        <3>3. Expired(row, call[c].now) => Expired(rows[k], Clock)
            BY <1>2, <1>3, <2>1, <3>2 DEF Timed, SameStamps, Expired
        <3>4. ~Servable(rows[k], Clock, TypeOf(c))
            BY <2>1, <3>2, <3>3 DEF Servable, SameStamps
        <3>5. QED
            BY <2>2, <3>4 DEF Loses
    <2>5. QED
        BY <2>3, <2>4
<1>6. CASE Info(c)
    <2>1. ~Servable(rows[k], Clock, TypeOf(c))
        BY <1>6 DEF Info, Keep, Servable
    <2>2. call'[c] # call[c]
        BY <1>2, <1>6 DEF Info, Continue
    <2>3. QED
        BY <2>1, <2>2 DEF Loses
<1>7. CASE Maintain(c)
    <2>1. call[c].op = "maintain" /\ ~Servable(rows[k], call[c].now, TypeOf(c))
        BY <1>7 DEF Maintain, MaintainWith, Keep
    <2>2. ~Servable(rows[k], Clock, TypeOf(c))
        BY <1>2, <1>3, <2>1 DEF Servable, Timed
    <2>3. call'[c] # call[c]
        BY <1>2, <1>7, <2>1 DEF Maintain, MaintainWith, Continue
    <2>4. QED
        BY <2>2, <2>3 DEF Loses
<1>8. QED
    BY <1>1, <1>4, <1>5, <1>6, <1>7

\* A row that a lookup through the same backend would still serve is lost only to an
\* eviction or a clear, whenever others came in between; or to a lookup that has
\* selected a row which another process has replaced before it is deleted.
THEOREM DiskKeepsServable == Spec => KeepsServable
BY SpecTyped, SpecTimely, SpecLocking, KeepsStep, PTL DEF Spec, KeepsServable

-----------------------------------------------------------------------------
(* The order of eviction *)

\* Until a reboot, a row says when its key was last used, or up to Lag before that.
UsesStamped ==
    bootedAt = 0 => \A k \in DOMAIN rows :
        rows[k].last_accessed <= used[k] /\ used[k] <= rows[k].last_accessed + Lag

\* So does the row that a store or a hit of key k stamps with the time it read.
LEMMA StampedNow ==
    ASSUME Typed, TimelyCalls, NEW c \in setup.users, call[c].op \in Timed, bootedAt = 0
    PROVE  call[c].now <= time /\ time <= call[c].now + Lag
BY DEF TimelyCalls, Clock, Typed, TypeOK

LEMMA UsesStampedStep == Typed /\ TimelyCalls /\ UsesStamped /\ [Next]_vars => UsesStamped'
<1> SUFFICES ASSUME Typed, TimelyCalls, UsesStamped, [Next]_vars, bootedAt' = 0,
                    NEW k \in DOMAIN rows'
             PROVE  /\ rows'[k].last_accessed <= used'[k]
                    /\ used'[k] <= rows'[k].last_accessed + Lag
    BY DEF UsesStamped
<1>1. bootedAt = 0
    BY TimeStep DEF Typed, TypeOK, clock, Tick, Reboot
<1>2. \A j \in DOMAIN rows :
        j \in Keys /\ rows[j].last_accessed <= used[j] /\ used[j] <= rows[j].last_accessed + Lag
    BY <1>1 DEF UsesStamped, Typed, TypeOK
<1>3. ASSUME NEW c \in setup.users, Store(c)
      PROVE  rows'[k].last_accessed <= used'[k] /\ used'[k] <= rows'[k].last_accessed + Lag
    <2>1. /\ rows'[k] = IF k = call[c].key THEN NewRow(c) ELSE rows[k]
          /\ k \in DOMAIN rows \/ k = call[c].key
        BY <1>3, StoreLeaves
    <2>2. /\ call[c].op = "set" /\ call[c].key \in Keys
          /\ used' = [used EXCEPT ![call[c].key] = time]
        BY <1>3, MethodType DEF Store, StoreWith
    <2>3. call[c].now <= time /\ time <= call[c].now + Lag
        BY <1>1, <2>2, StampedNow DEF Timed
    <2>4. QED
        BY <1>2, <2>1, <2>2, <2>3 DEF NewRow, Typed, TypeOK
<1>4. ASSUME NEW c \in setup.users, AnswerHit(c)
      PROVE  rows'[k].last_accessed <= used'[k] /\ used'[k] <= rows'[k].last_accessed + Lag
    <2>1. /\ DOMAIN rows' = DOMAIN rows /\ call[c].op = "found"
          /\ rows'[k].last_accessed =
                IF k = call[c].key THEN call[c].now ELSE rows[k].last_accessed
          /\ call[c].key \in DOMAIN rows => used' = [used EXCEPT ![call[c].key] = time]
          /\ call[c].key \notin DOMAIN rows => used' = used
        BY <1>4, HitRows
    <2>2. call[c].now <= time /\ time <= call[c].now + Lag
        BY <1>1, <2>1, StampedNow DEF Timed
    <2>3. QED
        BY <1>2, <2>1, <2>2 DEF Typed, TypeOK
<1>5. QED
    BY <1>2, <1>3, <1>4, RowsStep DEF SameStamps

LEMMA EvictsStep ==
    Typed /\ TimelyCalls /\ UsesStamped /\ [Next]_vars =>
        (bootedAt = 0 => \A c \in setup.users, gone \in DOMAIN rows \ DOMAIN rows' :
            call[c].op = "set" /\ call'[c].op = "done" =>
                \A stays \in DOMAIN rows' : used'[gone] <= used'[stays] + Lag)
<1> SUFFICES ASSUME Typed, TimelyCalls, UsesStamped, [Next]_vars, bootedAt = 0,
                    NEW c \in setup.users, NEW gone \in DOMAIN rows \ DOMAIN rows',
                    call[c].op = "set", call'[c].op = "done", NEW stays \in DOMAIN rows'
             PROVE  used'[gone] <= used'[stays] + Lag
    OBVIOUS
<1> DEFINE k == call[c].key
           table == With(k, NewRow(c))
<1>1. Store(c)
    <2>1. PICK d \in setup.users :
            /\ Store(d) \/ Clear(d) \/ AnswerDrop(d) \/ Info(d) \/ Maintain(d)
            /\ \E next : Continue(d, next)
        BY LosingStep
    <2>2. c = d
        BY <2>1 DEF Continue, Typed, TypeOK
    <2>3. QED
        BY <2>1, <2>2 DEF Clear, AnswerDrop, Info, Maintain, MaintainWith
<1>2. PICK out \in Evictions(table, k) : rows' = [j \in DOMAIN table \ out |-> table[j]]
    BY <1>1 DEF Store, StoreWith
<1>3. k \in Keys /\ used' = [used EXCEPT ![k] = time]
    BY <1>1, MethodType DEF Store, StoreWith
<1>4. /\ DOMAIN table = DOMAIN rows \cup {k}
      /\ \A j \in DOMAIN table : table[j] = IF j = k THEN NewRow(c) ELSE rows[j]
    BY DEF With
<1>5. \A j \in DOMAIN table :
        /\ table[j].last_accessed \in Nat /\ used'[j] \in Nat
        /\ table[j].last_accessed <= used'[j] /\ used'[j] <= table[j].last_accessed + Lag
    <2>1. call[c].now <= time /\ time <= call[c].now + Lag /\ call[c].now \in Nat
        BY <1>1, StampedNow, MethodType DEF Timed
    <2>2. \A j \in DOMAIN rows :
            /\ j \in Keys /\ rows[j].last_accessed \in Nat
            /\ rows[j].last_accessed <= used[j] /\ used[j] <= rows[j].last_accessed + Lag
        BY DEF UsesStamped, Typed, TypeOK, RowType
    <2>3. used \in [Keys -> Nat] /\ time \in Nat
        BY DEF Typed, TypeOK
    <2> HIDE DEF table
    <2>4. QED
        BY <1>3, <1>4, <2>1, <2>2, <2>3 DEF NewRow
<1> HIDE DEF table
<1>6. gone \in out /\ stays \in DOMAIN table \ out /\ gone \in DOMAIN table
    BY <1>2, <1>4
<1>7. Before(table, gone, stays, k)
    BY <1>6 DEF Evictions
<1>8. table[gone].last_accessed <= table[stays].last_accessed
    BY <1>5, <1>6, <1>7 DEF Before
<1>9. QED
    BY <1>5, <1>6, <1>8, DiskAssumption

\* Until a reboot, a store of any process evicts by order of use, up to the time a
\* call takes.
THEOREM DiskEvictsLeastRecent == Spec => EvictsLeastRecent
<1>1. Init => UsesStamped
    BY DEF Init, UsesStamped
<1>2. Spec => []UsesStamped
    BY SpecTyped, SpecTimely, <1>1, UsesStampedStep, PTL DEF Spec
<1>3. QED
    BY SpecTyped, SpecTimely, <1>2, EvictsStep, PTL DEF Spec, EvictsLeastRecent

-----------------------------------------------------------------------------
(* A lone client implements CacheContract *)

\* The rows of a lone client are no younger than its clock, or than the time it
\* has read from it.
NoYounger(row, now) == row.last_accessed <= now /\ row.created_at <= now
RowsAged ==
    Compared => \A k \in DOMAIN rows :
        /\ NoYounger(rows[k], Clock)
        /\ \A c \in setup.users : call[c].op \in Timed => NoYounger(rows[k], call[c].now)

LEMMA RowsAgedStep == Typed /\ TimelyCalls /\ RowsAged /\ [Next]_vars => RowsAged'
<1> SUFFICES ASSUME Typed, TimelyCalls, RowsAged, [Next]_vars, Compared
             PROVE  \A k \in DOMAIN rows' :
                      /\ NoYounger(rows'[k], Clock')
                      /\ \A c \in setup.users :
                            call'[c].op \in Timed => NoYounger(rows'[k], call'[c].now)
    BY SetupStays DEF RowsAged, Compared
<1>0. PICK c \in Clients : setup.users = {c}
    BY DEF Compared
<1>1. /\ Clock \in Nat /\ Clock' \in Nat /\ Clock <= Clock'
      /\ call[c].op \in Timed => call[c].now \in Nat /\ call[c].now <= Clock
    <2>1. "reboot" \notin setup.options
        BY DEF Compared
    <2>2. Clock' = Clock \/ Clock' = Clock + 1
        BY <2>1, TimeStep DEF clock, Clock, Tick, Reboot, Typed, TypeOK
    <2>3. QED
        BY <1>0, <2>2, ClockType, MethodType DEF Typed, TimelyCalls, Timed
<1>2. \A k \in DOMAIN rows :
        /\ rows[k].last_accessed \in Nat /\ rows[k].created_at \in Nat
        /\ NoYounger(rows[k], Clock)
        /\ call[c].op \in Timed => NoYounger(rows[k], call[c].now)
    BY <1>0 DEF RowsAged, Typed, TypeOK, RowType
<1>3. CASE Store(c)
    <2>1. call'[c].op \notin Timed /\ call[c].op \in Timed
        BY <1>3 DEF Store, StoreWith, Continue, Timed, Typed, TypeOK
    <2>2. \A k \in DOMAIN rows' :
            rows'[k] = NewRow(c) \/ (k \in DOMAIN rows /\ rows'[k] = rows[k])
        BY <1>0, <1>3, StoreLeaves
    <2>3. NoYounger(NewRow(c), Clock')
        BY <1>1, <2>1 DEF NoYounger, NewRow
    <2>4. \A k \in DOMAIN rows : NoYounger(rows[k], Clock')
        BY <1>1, <1>2 DEF NoYounger
    <2>5. QED
        BY <1>0, <2>1, <2>2, <2>3, <2>4
<1>4. CASE AnswerHit(c)
    <2>1. call'[c].op \notin Timed /\ call[c].op \in Timed
        BY <1>4 DEF AnswerHit, Serve, Continue, Timed, Typed, TypeOK
    <2>2. /\ DOMAIN rows' = DOMAIN rows
          /\ \A k \in DOMAIN rows :
               /\ rows'[k].last_accessed \in {call[c].now, rows[k].last_accessed}
               /\ rows'[k].created_at = rows[k].created_at
        BY <1>0, <1>4, HitRows
    <2>3. \A k \in DOMAIN rows' : NoYounger(rows'[k], Clock')
        BY <1>1, <1>2, <2>1, <2>2 DEF NoYounger
    <2>4. QED
        BY <1>0, <2>1, <2>3
<1>5. CASE /\ DOMAIN rows' \subseteq DOMAIN rows
           /\ \A k \in DOMAIN rows' : SameStamps(rows'[k], rows[k])
    <2>1. call'[c].op \in Timed =>
            (call[c].op \in Timed /\ call'[c].now = call[c].now) \/ call'[c].now = Clock
        BY ReadingsStep
    <2>2. ASSUME NEW k \in DOMAIN rows'
          PROVE  /\ NoYounger(rows'[k], Clock')
                 /\ call'[c].op \in Timed => NoYounger(rows'[k], call'[c].now)
        BY <1>1, <1>2, <1>5, <2>1 DEF NoYounger, SameStamps
    <2>3. QED
        BY <1>0, <2>2
<1>6. QED
    BY <1>0, <1>3, <1>4, <1>5, RowsStep

\* So the row it stores is not the one that is evicted for it.
LEMMA NewRowStays ==
    ASSUME Typed, RowsAged, Compared, NEW c \in setup.users, call[c].op = "set",
           NEW out \in Evictions(With(call[c].key, NewRow(c)), call[c].key)
    PROVE  call[c].key \notin out
<1> DEFINE k == call[c].key
           table == With(k, NewRow(c))
<1>1. /\ DOMAIN table = DOMAIN rows \cup {k} /\ table[k] = NewRow(c)
      /\ \A j \in DOMAIN rows \ {k} : table[j] = rows[j]
    BY DEF With
<1>2. IsFiniteSet(DOMAIN table)
    BY <1>1, FS_AddElement DEF Typed, CountsFinite
<1> HIDE DEF table
<1>3. /\ out \subseteq DOMAIN table /\ IsFiniteSet(out)
      /\ Cardinality(out) \in Nat /\ Cardinality(DOMAIN table) \in Nat
    BY <1>2, FS_Subset, FS_CardinalityType DEF Evictions, table
<1> SUFFICES ASSUME k \in out PROVE FALSE
    OBVIOUS
<1>4. Cardinality(out) # 0
    BY <1>3, FS_EmptySet
<1>5. Cardinality(out) < Cardinality(DOMAIN table)
    BY <1>3, <1>4, DiskAssumption DEF Evictions, table, ValidConfig, None
<1>6. PICK j \in DOMAIN table : j \notin out
    BY <1>3, <1>5
<1>7. Before(table, k, j, k)
    BY <1>6 DEF Evictions, table
<1>8. j \in DOMAIN rows /\ table[j] = rows[j]
    BY <1>1, <1>6
<1>9. /\ call[c].now \in Nat /\ NoYounger(rows[j], call[c].now)
      /\ rows[j].last_accessed \in Nat /\ rows[j].created_at \in Nat
    BY <1>8, MethodType DEF RowsAged, Timed, Typed, TypeOK, RowType
<1>10. QED
    BY <1>1, <1>7, <1>8, <1>9 DEF Before, NewRow, NoYounger

LEMMA ContractInit == Init => (Compared => Contract!Init)
<1> SUFFICES ASSUME Init PROVE Contract!Init
    OBVIOUS
<1>1. \A c \in Clients : call[c] = Idle /\ Idle.op = "idle"
    BY DEF Init, Idle
<1>2. \A c \in Clients : Pending(c) = Idle
    BY <1>1 DEF Pending
<1>3. Kept = [k \in {} |-> Idle]
    BY DEF Init, Kept
<1>4. QED
    BY <1>2, <1>3 DEF Init, Contract!Init, Contract!Idle, Idle

\* The contract counts with its own instance of FiniteSets.
LEMMA SameCardinality == \A S : Contract!Cardinality(S) = Cardinality(S)
BY DEF Contract!Cardinality, Cardinality

LEMMA ContractClient ==
    ASSUME Typed, Locking, RowsAged, Compared, NEW c \in Clients, setup.users = {c},
           Invoke(c) \/ Get(c) \/ Store(c) \/ Upkeep(c) \/ Return(c) \/ Fail(c)
    PROVE  [Contract!Next]_(Contract!vars)
<1> DEFINE m == call[c]
           k == call[c].key
           calls == [d \in Clients |-> Pending(d)]
<1>0. DOMAIN call = Clients /\ c \in setup.users /\ m \in InProgress \cup Answers \cup {Idle}
    BY DEF Typed, TypeOK
<1>a. \A next : Continue(c, next) => call'[c] = next /\ \A d \in Clients \ {c} : call'[d] = call[d]
    BY <1>0 DEF Continue
<1>b. ASSUME NEW next, Continue(c, next), NEW p, Pending(c)' = p
      PROVE  calls' = [calls EXCEPT ![c] = p]
    <2>1. \A d \in Clients \ {c} : Pending(d)' = Pending(d)
        BY <1>a, <1>b DEF Pending
    <2> HIDE DEF Pending
    <2>2. QED
        BY <1>b, <2>1
<1>c. ASSUME NEW next, Continue(c, next), Pending(c)' = Pending(c)
      PROVE  calls' = calls
    BY <1>a, <1>c DEF Pending
<1>d. ASSUME NEW keys, Keep(keys), keys \subseteq DOMAIN rows
      PROVE  Kept' = Contract!Keep(keys) /\ keys \in SUBSET DOMAIN Kept
    BY <1>d DEF Keep, Kept, Contract!Keep
<1>e. UNCHANGED rows => Kept' = Kept /\ Kept' = Contract!Keep(DOMAIN Kept)
    BY DEF Kept, Contract!Keep
<1>f. m.op = "found" => RowAt(k) = m.row
    <2>1. OneProcess /\ "rot" \notin setup.options
        BY DiskAssumption DEF OneProcess, Compared, BackendOf, Typed, TypeOK
    <2>2. QED
        BY <1>0, <2>1 DEF Locking, LockHolds, HoldsLock, Since
<1>1. ASSUME Invoke(c) PROVE Contract!Invoke(c) \/ UNCHANGED Contract!vars
    <2>1. PICK r \in Requests(Clock) : Continue(c, r)
        BY <1>1 DEF Invoke
    <2>2. Pending(c) = Contract!Idle /\ UNCHANGED <<rows, hits, misses>>
        BY <1>1 DEF Invoke, Pending, Idle, Contract!Idle, file
    <2>3. CASE r.op \in {"get", "set", "clear", "info"}
        <3>1. PICK p \in Contract!Requests : Pending(c)' = p
            BY <1>a, <2>1, <2>3 DEF Requests, Contract!Requests, Pending
        <3>2. calls' = [calls EXCEPT ![c] = p]
            BY <1>b, <2>1, <3>1
        <3>3. QED
            BY <1>e, <2>2, <3>1, <3>2 DEF Contract!Invoke
    <2>4. CASE r.op \in {"maintain", "integrity", "inspect", "aggregate"}
        <3>1. Pending(c)' = Pending(c)
            BY <1>a, <2>1, <2>2, <2>4 DEF Pending, Idle, Contract!Idle
        <3>2. QED
            BY <1>c, <1>e, <2>1, <2>2, <3>1 DEF Contract!vars
    <2>5. QED
        BY <2>1, <2>3, <2>4 DEF Requests
<1>2. ASSUME Select(c) PROVE UNCHANGED Contract!vars
    <2>1. /\ m.op = "get" /\ UNCHANGED <<rows, hits, misses>>
          /\ \E row, now : Continue(c, [op |-> "found", key |-> k, now |-> now, row |-> row])
        BY <1>2 DEF Select, file
    <2>2. Pending(c)' = Pending(c)
        BY <1>a, <2>1 DEF Pending
    <2>3. QED
        BY <1>c, <1>e, <2>1, <2>2 DEF Contract!vars
<1>3. ASSUME AnswerAbsent(c) \/ AnswerDrop(c) PROVE Contract!Lookup(c)
    <2>1. /\ m.op = "found" /\ Continue(c, [op |-> "miss"])
          /\ misses' = misses + 1 /\ hits' = hits
        BY <1>3 DEF AnswerAbsent, AnswerDrop
    <2>2. Pending(c) = [op |-> "get", key |-> k] /\ Pending(c)' = [op |-> "miss"]
        BY <1>a, <2>1 DEF Pending
    <2>3. calls' = [calls EXCEPT ![c] = [op |-> "miss"]]
        BY <1>b, <2>1, <2>2
    <2>4. Kept' = Contract!Keep(DOMAIN Kept \ {k})
        <3>1. CASE AnswerDrop(c)
            BY <1>d, <3>1 DEF AnswerDrop, Kept
        <3>2. CASE AnswerAbsent(c)
            <4>1. rows' = rows /\ RowAt(k) = NoRow
                BY <1>f, <3>2 DEF AnswerAbsent
            <4>2. k \notin DOMAIN rows
                BY <4>1 DEF RowAt, NoRow, Typed, TypeOK, RowType
            <4>3. DOMAIN Kept \ {k} = DOMAIN Kept
                BY <4>2 DEF Kept
            <4>4. QED
                BY <1>e, <4>1, <4>3
        <3>3. QED
            BY <1>3, <3>1, <3>2
    <2>5. calls[c].op = "get" /\ calls[c].key = k
        BY <2>2
    <2>6. QED
        BY <2>1, <2>3, <2>4, <2>5, Zenon DEF Contract!Lookup
<1>4. ASSUME RaiseCorrupt(c) \/ Fail(c) PROVE Contract!Abandon(c) \/ UNCHANGED Contract!vars
    <2>1. Continue(c, Idle) /\ UNCHANGED <<rows, hits, misses>>
        BY <1>4 DEF RaiseCorrupt, Fail, file
    <2>2. Pending(c)' = Contract!Idle
        BY <1>a, <2>1 DEF Pending, Idle, Contract!Idle
    <2>3. CASE Pending(c) = Contract!Idle
        BY <1>c, <1>e, <2>1, <2>2, <2>3 DEF Contract!vars
    <2>4. CASE Pending(c) # Contract!Idle
        <3>1. calls' = [calls EXCEPT ![c] = Contract!Idle]
            BY <1>b, <2>1, <2>2
        <3>2. QED
            BY <1>e, <2>1, <2>4, <3>1 DEF Contract!Abandon
    <2>5. QED
        BY <2>3, <2>4
<1>5. ASSUME AnswerHit(c) PROVE Contract!Lookup(c)
    <2>1. /\ m.op = "found" /\ m.row # NoRow /\ hits' = hits + 1 /\ misses' = misses
          /\ Continue(c, [op |-> "hit", content |-> m.row.content])
        BY <1>5 DEF AnswerHit, Serve
    <2>2. /\ Pending(c) = [op |-> "get", key |-> k]
          /\ Pending(c)' = [op |-> "hit", content |-> m.row.content]
        BY <1>a, <2>1 DEF Pending
    <2>3. k \in DOMAIN rows /\ rows[k] = m.row
        BY <1>f, <2>1 DEF RowAt
    <2>4. /\ DOMAIN rows' = DOMAIN rows
          /\ \A j \in DOMAIN rows : rows'[j].content = rows[j].content
        BY <1>0, <1>5, HitRows
    <2>5. Kept' = Kept /\ k \in DOMAIN Kept /\ Kept[k] = m.row.content
        BY <2>3, <2>4 DEF Kept
    <2>6. calls' = [calls EXCEPT ![c] = [op |-> "hit", content |-> Kept[k]]]
        BY <1>b, <2>1, <2>2, <2>5
    <2>7. calls[c].op = "get" /\ calls[c].key = k
        BY <2>2
    <2>8. QED
        BY <2>1, <2>5, <2>6, <2>7, Zenon DEF Contract!Lookup
<1>6. ASSUME Store(c) PROVE Contract!Write(c)
    <2>1. m.op = "set" /\ Continue(c, [op |-> "done"]) /\ UNCHANGED <<hits, misses>>
        BY <1>6 DEF Store, StoreWith
    <2>2. /\ Pending(c) = [op |-> "set", key |-> k, content |-> m.content]
          /\ Pending(c)' = [op |-> "done"]
        BY <1>a, <2>1 DEF Pending
    <2>3. calls' = [calls EXCEPT ![c] = [op |-> "done"]]
        BY <1>b, <2>1, <2>2
    <2>4. PICK out \in Evictions(With(k, NewRow(c)), k) :
            /\ DOMAIN rows' = (DOMAIN rows \cup {k}) \ out
            /\ \A j \in DOMAIN rows' : rows'[j] = IF j = k THEN NewRow(c) ELSE rows[j]
        BY <1>0, <1>6, StoreRows
    <2>5. k \notin out /\ out \subseteq DOMAIN rows \cup {k}
        BY <1>0, <2>1, NewRowStays DEF Evictions, With
    <2>6. /\ out \in SUBSET (DOMAIN Kept \ {k})
          /\ Kept' = [j \in (DOMAIN Kept \cup {k}) \ out |-> Contract!With(k, m.content)[j]]
        BY <2>4, <2>5 DEF Kept, NewRow, Contract!With
    <2>7. \E pushedOut \in SUBSET (DOMAIN Kept \ {k}) :
             Kept' = [j \in (DOMAIN Kept \cup {k}) \ pushedOut |->
                        Contract!With(k, m.content)[j]]
        BY <2>6
    <2>8. QED
        BY <2>1, <2>2, <2>3, <2>7 DEF Contract!Write
<1>7. ASSUME Clear(c) PROVE Contract!Clear(c)
    <2>1. m.op = "clear" /\ Keep({}) /\ Continue(c, [op |-> "done"]) /\ hits' = 0 /\ misses' = 0
        BY <1>7 DEF Clear
    <2>2. Pending(c).op = "clear" /\ Pending(c)' = [op |-> "done"]
        BY <1>a, <2>1 DEF Pending
    <2>3. calls' = [calls EXCEPT ![c] = [op |-> "done"]] /\ calls[c].op = "clear"
        BY <1>b, <2>1, <2>2
    <2>4. Kept' = Contract!Keep({})
        BY <1>d, <2>1
    <2>5. QED
        BY <2>1, <2>3, <2>4 DEF Contract!Clear
<1>8. ASSUME Info(c) PROVE Contract!Info(c)
    <2> DEFINE keys == {j \in DOMAIN rows : ~Expired(rows[j], Clock)}
               a == [op |-> "report", hits |-> hits, misses |-> misses,
                     currsize |-> Cardinality(keys)]
    <2>1. m.op = "info" /\ Keep(keys) /\ Continue(c, a) /\ UNCHANGED <<hits, misses>>
        BY <1>8 DEF Info
    <2>2. Pending(c).op = "info" /\ Pending(c)' = a
        BY <1>a, <2>1 DEF Pending
    <2>3. calls' = [calls EXCEPT ![c] = a] /\ calls[c].op = "info"
        BY <1>b, <2>1, <2>2
    <2>4. keys \in SUBSET DOMAIN Kept /\ Kept' = Contract!Keep(keys)
        BY <1>d, <2>1
    <2>5. Contract!Cardinality(keys) = Cardinality(keys)
        BY SameCardinality, Zenon
    <2>6. \E left \in SUBSET DOMAIN Kept :
            /\ Kept' = Contract!Keep(left)
            /\ calls' = [calls EXCEPT ![c] =
                    [op |-> "report", hits |-> hits, misses |-> misses,
                     currsize |-> Contract!Cardinality(left)]]
        <3> HIDE DEF keys, calls
        <3>1. QED
            BY <2>3, <2>4, <2>5 DEF keys
    <2> HIDE DEF keys
    <2>7. QED
        BY <2>1, <2>3, <2>6, Zenon DEF Contract!Info
<1>9. ASSUME Maintain(c) PROVE Contract!Forget
    <2> DEFINE keys == {j \in DOMAIN rows : Servable(rows[j], m.now, TypeOf(c))}
    <2>1. m.op = "maintain" /\ Keep(keys) /\ UNCHANGED <<hits, misses>>
        BY <1>9 DEF Maintain, MaintainWith
    <2>2. PICK op \in {"vacuum", "tidied"} : Continue(c, [op |-> op])
        BY <1>9 DEF Maintain, MaintainWith
    <2>3. Pending(c)' = Pending(c)
        BY <1>a, <2>1, <2>2 DEF Pending
    <2>4. calls' = calls
        BY <1>c, <2>2, <2>3
    <2>5. keys \in SUBSET DOMAIN Kept /\ Kept' = Contract!Keep(keys)
        BY <1>d, <2>1
    <2>6. QED
        BY <2>1, <2>4, <2>5 DEF Contract!Forget
<1>10. ASSUME Vacuum(c) \/ List(c) \/ Sample(c) \/ Count(c) \/ InspectIntegrity(c)
       PROVE  UNCHANGED Contract!vars
    <2>1. /\ m.op \in {"vacuum", "inspect", "aggregate", "listed", "integrity"}
          /\ UNCHANGED <<rows, hits, misses>>
        BY <1>10 DEF Vacuum, List, Sample, Listing, Count, InspectIntegrity, file
    <2>2. PICK next :
            Continue(c, next) /\ next.op \in {"tidied", "listed", "inspection", "integrity_report"}
        <3>1. CASE Vacuum(c)
            BY <3>1 DEF Vacuum
        <3>2. CASE List(c) \/ Sample(c)
            <4>1. PICK listed :
                    Continue(c, [op |-> "listed", limit |-> m.limit, keys |-> listed])
                BY <3>2 DEF List, Sample, Listing
            <4>2. QED
                BY <4>1
        <3>3. CASE Count(c)
            BY <3>3 DEF Count
        <3>4. CASE InspectIntegrity(c)
            <4>1. PICK n, e, r, i :
                    Continue(c, [op |-> "integrity_report", total |-> n, expired |-> e,
                                 corrupt |-> r, mismatched |-> i])
                BY <3>4 DEF InspectIntegrity
            <4>2. QED
                BY <4>1
        <3>5. QED
            BY <1>10, <3>1, <3>2, <3>3, <3>4
    <2>3. Pending(c)' = Pending(c)
        BY <1>a, <2>1, <2>2 DEF Pending
    <2>4. QED
        BY <1>c, <1>e, <2>1, <2>2, <2>3 DEF Contract!vars
<1>11. ASSUME Return(c) PROVE Contract!Return(c) \/ UNCHANGED Contract!vars
    <2>1. Answered(c) /\ Continue(c, Idle) /\ UNCHANGED <<rows, hits, misses>>
        BY <1>11 DEF Return, file
    <2>2. Pending(c)' = Contract!Idle
        BY <1>a, <2>1 DEF Pending, Idle, Contract!Idle
    <2>3. CASE m.op \in {"hit", "miss", "done", "report"}
        <3>1. calls' = [calls EXCEPT ![c] = Contract!Idle] /\ calls[c] = m
            BY <1>b, <2>1, <2>2, <2>3 DEF Pending
        <3>2. QED
            BY <1>e, <2>1, <2>3, <3>1 DEF Contract!Return
    <2>4. CASE m.op \in {"tidied", "inspection", "integrity_report"}
        <3>1. Pending(c)' = Pending(c)
            BY <2>2, <2>4 DEF Pending, Idle, Contract!Idle
        <3>2. QED
            BY <1>c, <1>e, <2>1, <3>1 DEF Contract!vars
    <2>5. QED
        BY <2>1, <2>3, <2>4 DEF Answered
<1>12. QED
    BY <1>1, <1>2, <1>3, <1>4, <1>5, <1>6, <1>7, <1>8, <1>9, <1>10, <1>11
    DEF Get, Upkeep, Contract!Next

LEMMA ContractNext ==
    Typed /\ Locking /\ RowsAged /\ [Next]_vars => (Compared => [Contract!Next]_(Contract!vars))
<1> SUFFICES ASSUME Typed, Locking, RowsAged, [Next]_vars, Compared
             PROVE  [Contract!Next]_(Contract!vars)
    OBVIOUS
<1>1. PICK c \in Clients : setup.users = {c}
    BY DEF Compared
<1>2. ASSUME Invoke(c) \/ Get(c) \/ Store(c) \/ Upkeep(c) \/ Return(c) \/ Fail(c)
      PROVE  [Contract!Next]_(Contract!vars)
    BY <1>1, <1>2, ContractClient
<1>3. ASSUME NEW b \in Backends, Crash(b)
      PROVE  Contract!Abandon(c) \/ UNCHANGED Contract!vars
    <2>1. UNCHANGED <<rows, hits, misses>>
        BY <1>3 DEF Crash, file
    <2>2. Kept' = Kept /\ Kept' = Contract!Keep(DOMAIN Kept)
        BY <2>1 DEF Kept, Contract!Keep
    <2>3. CASE BackendOf(c) = b
        <3>1. call' = [d \in Clients |-> IF d = c THEN Idle ELSE call[d]]
            BY <1>1, <1>3, <2>3 DEF Crash, Kill
        <3>2. [d \in Clients |-> Pending(d)]' =
                [[d \in Clients |-> Pending(d)] EXCEPT ![c] = Contract!Idle]
            BY <3>1 DEF Pending, Idle, Contract!Idle
        <3>3. CASE Pending(c) = Contract!Idle
            BY <2>1, <2>2, <3>2, <3>3 DEF Contract!vars
        <3>4. CASE Pending(c) # Contract!Idle
            BY <2>1, <2>2, <3>2, <3>4 DEF Contract!Abandon
        <3>5. QED
            BY <3>3, <3>4
    <2>4. CASE BackendOf(c) # b
        <3>1. \A d \in Clients : call'[d] = call[d]
            BY <1>1, <1>3, <2>4 DEF Crash, Kill
        <3>2. QED
            BY <2>1, <2>2, <3>1 DEF Pending, Contract!vars
    <2>5. QED
        BY <2>3, <2>4
<1>4. ASSUME UNCHANGED <<rows, hits, misses, call>> PROVE UNCHANGED Contract!vars
    BY <1>4 DEF Kept, Pending, Contract!vars
<1>5. ~Reboot /\ \A k \in Keys : ~Rot(k)
    BY DEF Compared, Reboot, Rot
<1>6. QED
    BY <1>1, <1>2, <1>3, <1>4, <1>5 DEF Next, Open, Close, Tick, vars, file, Contract!Next

\* A lone client has the backend of the contract: its transactions, with what is
\* selected before each, crashes and failures, amount to atomic operations, and the
\* entry it stores is never the one that is evicted for it.
THEOREM DiskImplementsContract == Spec => ImplementsContract
<1>1. Init => RowsAged
    BY DEF Init, RowsAged
<1>2. Spec => []RowsAged
    BY SpecTyped, SpecTimely, <1>1, RowsAgedStep, PTL DEF Spec
<1>3. Spec => (Compared => Contract!Init)
    BY ContractInit DEF Spec
<1>4. QED
    BY SpecTyped, SpecLocking, <1>2, <1>3, ContractNext, PTL DEF Spec, ImplementsContract
=============================================================================
