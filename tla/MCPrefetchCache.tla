---------------------------- MODULE MCPrefetchCache ----------------------------
(* Instances of PrefetchCache for TLC.                                     *)
EXTENDS PrefetchCache, TLC

CONSTANTS t1, t2, k1, k2, k3, s1, s2

TwoShards == [k \in Keys |-> IF k = k1 THEN s1 ELSE s2]

Symmetry == Permutations(Threads)
=============================================================================
