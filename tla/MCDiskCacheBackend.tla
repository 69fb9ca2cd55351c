------------------------ MODULE MCDiskCacheBackend ------------------------
(* Instances of DiskCacheBackend for TLC: see the disk_*.cfg files. *)
EXTENDS DiskCacheBackend, TLC

CONSTANTS c1, c2, b1, b2

Use(backend, type, options, ttl, calls) ==
    [users |-> DOMAIN backend, backend |-> backend, type |-> type,
     options |-> options, ttl |-> ttl, calls |-> calls]
SameType == [b \in Backends |-> "pickle"]
Threads == [c \in Clients |-> b1]
Processes == c1 :> b1 @@ c2 :> b2

\* A lone client, whose rows may rot or whose machine may reboot; two threads of a
\* process; two processes, also with different serializers.
Sharing == {
    Use(c1 :> b1, SameType, {}, 2, 5),
    Use(c1 :> b1, SameType, {"rot", "keep_corrupt"}, 2, 3),
    Use(c1 :> b1, SameType, {"reboot"}, None, 3),
    Use(Threads, SameType, {"refresh"}, 1, 3),
    Use(Processes, SameType, {}, 1, 4),
    Use(Processes, SameType, {"refresh", "crash"}, 1, 2),
    Use(Processes, b1 :> "pickle" @@ b2 :> "json", {"rot"}, None, 2)}

\* A client whose machine reboots.
Rebooted == {Use(c1 :> b1, SameType, {"reboot"}, 2, 2)}

Symmetry == Permutations(Keys) \cup Permutations(Contents)
=============================================================================
