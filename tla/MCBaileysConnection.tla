----------------------- MODULE MCBaileysConnection -----------------------
(***************************************************************************)
(* The instance of BaileysConnection for TLC: the constants of the .cfg.   *)
(***************************************************************************)
EXTENDS BaileysConnection, TLC
=============================================================================
