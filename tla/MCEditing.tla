------------------------------- MODULE MCEditing -------------------------------
(* Instances of Editing for TLC.                                           *)
EXTENDS Editing, TLC

CONSTANTS long, short, e1, e2, r1, s1, i1, i2, i3

\* A content of two blocks and one of one.
TwoLengths == [c \in Contents |-> IF c = long THEN 2 ELSE 1]

\* Bound: only the last block is read and cached, which one of the contents has.
Within == \A r \in Readers : reader[r].at # "idle" => reader[r].block = LastBlock

Symmetry == Permutations(Editors) \union Permutations(Inodes)
=============================================================================
