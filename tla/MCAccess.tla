------------------------------ MODULE MCAccess ------------------------------
(***************************************************************************)
(* Instances of Access for TLC.  Two calls overlap in every way two calls  *)
(* on a key can; a scoped and an unrestricted allowedSessions tell the     *)
(* wildcard room from a session's.                                         *)
(***************************************************************************)
EXTENDS Access, TLC

CONSTANTS x, y
AllowLists == {{}, {x}}
TheSessions == {x, y}
Symmetry == Permutations(Calls)
=============================================================================
