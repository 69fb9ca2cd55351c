--------------------------- MODULE MCCacheResult ---------------------------
(* Instances of CacheResult for TLC: see the cache_*.cfg files. *)
EXTENDS CacheResult, TLC

CONSTANTS k1, k2

\* The function run for k1 may call for k2: nested calls without a cycle.
OneLevel == {<<k1, k2>>}

Symmetry == Permutations(Calls)
=============================================================================
