----------------------------- MODULE MCIngress -----------------------------
(***************************************************************************)
(* Instances of Ingress for TLC: a conversation of two deliveries, two     *)
(* workers, and redrive calls one after the other, the first of which a    *)
(* restart may cut short.                                                  *)
(***************************************************************************)
EXTENDS Ingress, TLC
=============================================================================
