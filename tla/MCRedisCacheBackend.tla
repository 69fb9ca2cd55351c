------------------------ MODULE MCRedisCacheBackend ------------------------
(* Instances of RedisCacheBackend for TLC: see the redis_*.cfg files. *)
EXTENDS RedisCacheBackend, TLC

CONSTANTS c1, c2

\* A lone client, two clients, and one beside another program.
Sharing ==
    [u \in {{c1}, {c2}, {c1, c2}, {c1, Foreign}, {c2, Foreign}} |->
        IF Foreign \in u THEN 3 ELSE IF Cardinality(u) = 1 THEN 5 ELSE 4]

Symmetry == Permutations({c1, c2}) \cup Permutations(Keys) \cup Permutations(Contents)
=============================================================================
