---------------------------- MODULE MCBulkBatch ----------------------------
(***************************************************************************)
(* Instances of BulkBatch for TLC.  A cadence of two shows every order of  *)
(* a save at the cadence, one after the last message, and a cancellation;  *)
(* two cancels, one of them of another replica, may concern one batch.     *)
(***************************************************************************)
EXTENDS BulkBatch
=============================================================================
