--------------------------- MODULE MCHookDispatch ---------------------------
(***************************************************************************)
(* Instances of HookDispatch for TLC.  Two plugins that subscribe with     *)
(* different priorities, the second to come may have to go first; one of  *)
(* them has a row of the chat already.                                     *)
(***************************************************************************)
EXTENDS HookDispatch, TLC

CONSTANTS p1, p2
ThePlugins == {p1, p2}
Priorities == (p1 :> 1) @@ (p2 :> 2)
OneRow == <<p1>>
Symmetry == Permutations(Execs) \union Permutations(Caps)
=============================================================================
