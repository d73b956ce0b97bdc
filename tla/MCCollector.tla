------------------------------ MODULE MCCollector ------------------------------
(* Instances of Collector for TLC.                                         *)
EXTENDS Collector

CONSTANTS a, b

\* Two rows on a node that may be lost, then one on another.
LostFirst == [r \in Rows |-> IF r = 3 THEN b ELSE a]
=============================================================================
