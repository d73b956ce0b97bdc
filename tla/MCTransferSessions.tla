------------------------- MODULE MCTransferSessions -------------------------
(* Instances of TransferSessions for TLC.                                  *)
EXTENDS TransferSessions, TLC
=============================================================================
