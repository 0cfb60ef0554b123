----------------------------- MODULE MCChatView -----------------------------
(***************************************************************************)
(* An instance of ChatView for TLC: a chat of one of two sessions, with a  *)
(* message that is sent and one that comes in.                             *)
(***************************************************************************)
EXTENDS ChatView, TLC

CONSTANTS s1, s2, c1, out, in
TheSessionOf == c1 :> s1
TheChatOf == (out :> c1) @@ (in :> c1)
=============================================================================
