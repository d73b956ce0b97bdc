-------------------------- MODULE MCFileLifecycle --------------------------
(* Instances of FileLifecycle for TLC.                                     *)
EXTENDS FileLifecycle, TLC

CONSTANTS r1, r2, u1

OneOwner == [r \in Rows |-> u1]

Symmetry == Permutations(Rows)
=============================================================================
