---------------------------- MODULE MCModifyLog ----------------------------
(* Instances of ModifyLog for TLC.                                  *)
EXTENDS ModifyLog
=============================================================================
