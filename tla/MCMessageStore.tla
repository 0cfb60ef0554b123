--------------------------- MODULE MCMessageStore ---------------------------
(***************************************************************************)
(* Instances of MessageStore for TLC.  One sender that reacts twice is     *)
(* enough to lose a reaction, and to apply two of them in the wrong order. *)
(***************************************************************************)
EXTENDS MessageStore, TLC
=============================================================================
