------------------------ MODULE MCMemoryCacheBackend ------------------------
(* Instances of MemoryCacheBackend for TLC: see the memory_*.cfg files. *)
EXTENDS MemoryCacheBackend, TLC

Symmetry == Permutations(Clients) \cup Permutations(Keys)
=============================================================================
