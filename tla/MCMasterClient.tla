---------------------------- MODULE MCMasterClient ----------------------------
(* Instances of MasterClient for TLC.                                      *)
EXTENDS MasterClient

CONSTANTS i1, f1, f2
=============================================================================
