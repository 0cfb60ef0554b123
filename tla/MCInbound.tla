----------------------------- MODULE MCInbound -----------------------------
(***************************************************************************)
(* Instances of Inbound for TLC.  Three messages of a sender whose phone   *)
(* changes and changes back, in three mixes; one slot, one stored message. *)
(***************************************************************************)
EXTENDS Inbound, TLC

CONSTANTS m1, m2, m3, l1, p1, p2
TheMessages == {m1, m2, m3}
TheMixes ==
  {(m1 :> "media") @@ (m2 :> "media") @@ (m3 :> "text"),
   (m1 :> "media") @@ (m2 :> "reaction") @@ (m3 :> "sent"),
   (m1 :> "sent") @@ (m2 :> "text") @@ (m3 :> "text")}
Timestamps == (m1 :> 1) @@ (m2 :> 2) @@ (m3 :> 3)
LidsOf == [m \in TheMessages |-> l1]
PhonesOf == (m1 :> p1) @@ (m2 :> p2) @@ (m3 :> p1)
=============================================================================
