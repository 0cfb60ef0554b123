------------------------- MODULE MCPluginLifecycle -------------------------
(***************************************************************************)
(* Instances of PluginLifecycle for TLC.  Plugins share nothing but the    *)
(* shutdown's loop, so one is enough; two calls meet in every way the      *)
(* queue and the shutdown allow.                                           *)
(***************************************************************************)
EXTENDS PluginLifecycle, TLC
=============================================================================
