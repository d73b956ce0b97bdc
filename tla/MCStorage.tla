------------------------------- MODULE MCStorage -------------------------------
(* Instances of Storage for TLC.                                           *)
EXTENDS Storage

CONSTANTS t1, t2, x, y

\* The name x has a wildcard and matches y.
Wild == {<<x, x>>, <<y, y>>, <<x, y>>}

Symmetry == Permutations(Threads)
=============================================================================
