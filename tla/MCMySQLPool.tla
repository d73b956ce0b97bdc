---------------------------- MODULE MCMySQLPool ----------------------------
(* Instances of MySQLPool for TLC.                                         *)
EXTENDS MySQLPool

CONSTANTS t1, t2, t3, t4, t5
=============================================================================
