------------------------- MODULE MCSessionLifecycle -------------------------
(***************************************************************************)
(* Instances of SessionLifecycle for TLC.  Adapters and activations are    *)
(* interchangeable, so the run without liveness properties uses them as    *)
(* symmetry sets.                                                          *)
(***************************************************************************)
EXTENDS SessionLifecycle, TLC

Symmetry == Permutations(Engines) \union Permutations(Tasks)
=============================================================================
