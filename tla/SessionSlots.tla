---------------------------- MODULE SessionSlots ----------------------------
(***************************************************************************)
(* What MAX_CONCURRENT_SESSIONS promises, with no mention of engines,      *)
(* reservations or awaits: a session holds at most one slot, a slot is     *)
(* taken only while one is free, and slots are given back.                 *)
(***************************************************************************)
EXTENDS Integers, FiniteSets

CONSTANTS Sessions, Cap   \* Cap = 0: unlimited

VARIABLE held             \* the sessions that hold a slot

Free == Cap = 0 \/ Cardinality(held) < Cap

Init == held = {}

Take(s) == s \notin held /\ Free /\ held' = held \union {s}

\* One session gives its slot back, or all do when the process dies.
Give(S) == held' = held \ S

Next == (\E s \in Sessions : Take(s)) \/ (\E S \in SUBSET Sessions : Give(S))

Spec == Init /\ [][Next]_held
=============================================================================
