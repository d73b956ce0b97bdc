---------------------------- MODULE MCNodeManager ----------------------------
(* Instances of NodeManager for TLC.                                       *)
EXTENDS NodeManager, TLC

CONSTANTS n1, a1

Body(man, lim, en, ex) ==
    [manual |-> man, limit |-> lim, enter |-> en, exit |-> ex]

\* An override and its end with other thresholds, and a limit for the cluster.
SomePolicies ==
    {Body("strict", 0, 0, 0), Body("off", 0, 2, 0), Body("off", 1, 0, 0)}
=============================================================================
