---------------------------- MODULE AccessProofs ----------------------------
(***************************************************************************)
(* Theorems about Access, for any keys, sessions, sockets, overlapping     *)
(* operations and scopes, any number of uses, and restarts.                *)
(***************************************************************************)
EXTENDS Access, TLAPS

-----------------------------------------------------------------------------
\* The inductive invariant: first the types.

BooksTyped ==
  /\ row \in [Keys -> Key \union {None}]
  /\ pending \in [Keys -> Nat]
  /\ clock \in 1..MaxClock
  /\ call \in [Calls -> [op: Ops, key: Keys, ent: Key \union {None},
                         sock: Sockets \union {None}] \union {Idle}]
  /\ decided \in [Keys -> [active: BOOLEAN, scope: Scopes] \union {None}]
  /\ tally \in [Keys -> Nat]
  /\ crossed \subseteq raced /\ raced \subseteq Keys
  /\ crashes \in 0..Crashes

GatewayTyped ==
  /\ socket \in [Sockets -> {"closed", "connecting", "open"}]
  /\ auth \in [Sockets -> Keys \union {None}]
  /\ rooms \in [Sockets -> SUBSET Room]
  /\ \A s \in Sockets : /\ (socket[s] = "open") <=> (auth[s] # None)
                        /\ socket[s] # "open" => rooms[s] = {}

LEMMA TypeParts == TypeOK <=> BooksTyped /\ GatewayTyped
  BY DEF TypeOK, BooksTyped, GatewayTyped

\* Who holds which entity.
Holds(c, k) == call[c].key = k /\ call[c].ent # None

\* An administrator holds an entity, and a call of the gateway a socket.
Equipped == \A c \in Calls :
  /\ call[c].op \in {"update", "revoke", "delete"} => call[c].ent # None
  /\ call[c].op \in {"connect", "subscribe"} => call[c].sock \in Sockets

\* What a call holds is what was decided, while no decision has crossed it; it is the row, while
\* nobody has written it; and in any case it has not more uses than there were.
HeldDecided == \A c \in Calls, k \in Keys : Holds(c, k) /\ k \notin crossed =>
  decided[k] # None /\ Decision(call[c].ent) = decided[k]
HeldIsRow == \A c \in Calls, k \in Keys : Holds(c, k) /\ k \notin raced => call[c].ent = row[k]
HeldCounts == \A c \in Calls, k \in Keys : Holds(c, k) => call[c].ent.used + pending[k] <= tally[k]
PendingCounted == \A k \in Keys : pending[k] <= tally[k]

\* A socket that subscribes has the key it subscribes with.
SameKey == \A c \in Calls, s \in Sockets : call[c].op = "subscribe" /\ call[c].sock = s =>
  socket[s] # "connecting" /\ (socket[s] = "open" => auth[s] = call[c].key)

Held3 == HeldDecided /\ HeldIsRow /\ HeldCounts /\ PendingCounted
BooksInv == BooksTyped /\ Equipped /\ Held3 /\ ChangeHolds /\ UsageExact /\ NeverOvercounts
Inv == BooksInv /\ GatewayTyped /\ SameKey

-----------------------------------------------------------------------------
\* What the steps of an operation do to the books.

\* A call that holds something is under way.
LEMMA Holder ==
  ASSUME BooksTyped, NEW c \in Calls, call[c].ent # None \/ call[c].op # "idle"
  PROVE /\ call[c] \in [op: Ops, key: Keys, ent: Key \union {None}, sock: Sockets \union {None}]
        /\ call[c].key \in Keys
        /\ call[c].ent # None => call[c].ent \in Key
  BY DEF BooksTyped, Idle

LEMMA CallEnds ==
  ASSUME BooksTyped, NEW c \in Calls, Return(c)
  PROVE /\ call' \in [Calls -> [op: Ops, key: Keys, ent: Key \union {None},
                                sock: Sockets \union {None}] \union {Idle}]
        /\ call'[c] = Idle
        /\ \A d \in Calls : d # c => call'[d] = call[d]
        /\ Equipped => Equipped'
        /\ \A d \in Calls, k \in Keys : Holds(d, k)' => d # c /\ Holds(d, k) /\ call'[d] = call[d]
<1>1. call' = [call EXCEPT ![c] = Idle]
  BY DEF Return
<1>2. call'[c] = Idle /\ \A d \in Calls : d # c => call'[d] = call[d]
  BY <1>1 DEF BooksTyped
<1>3. call' \in [Calls -> [op: Ops, key: Keys, ent: Key \union {None},
                           sock: Sockets \union {None}] \union {Idle}]
  BY <1>1 DEF BooksTyped
<1>4. Equipped => Equipped'
  BY <1>2 DEF Equipped, Idle
<1>5. \A d \in Calls, k \in Keys : Holds(d, k)' => d # c /\ Holds(d, k) /\ call'[d] = call[d]
  BY <1>2 DEF Holds, Idle
<1> QED BY <1>2, <1>3, <1>4, <1>5

LEMMA Begun ==
  ASSUME BooksInv, NEW c \in Calls, NEW op \in Ops, NEW k \in Keys, NEW s \in Sockets \union {None},
         Begin(c, op, k, s),
         op \in {"update", "revoke", "delete"} => row[k] # None,
         op \in {"connect", "subscribe"} => s \in Sockets
  PROVE BooksInv'
<1> DEFINE r == [op |-> op, key |-> k, ent |-> row[k], sock |-> s]
<1>1. /\ call' = [call EXCEPT ![c] = r]
      /\ UNCHANGED <<row, pending, clock, tally, raced, decided, crossed, crashes>>
  BY DEF Begin
<1>2. /\ call'[c] = r /\ \A d \in Calls : d # c => call'[d] = call[d]
      /\ r \in [op: Ops, key: Keys, ent: Key \union {None}, sock: Sockets \union {None}]
      /\ r.op = op /\ r.key = k /\ r.ent = row[k] /\ r.sock = s
  BY <1>1 DEF BooksInv, BooksTyped
<1>3. BooksTyped'
  BY <1>1, <1>2 DEF BooksInv, BooksTyped
<1> HIDE DEF r
<1>4. Equipped'
  BY <1>2 DEF BooksInv, Equipped
<1>5. HeldDecided' /\ HeldIsRow'
  BY <1>1, <1>2 DEF BooksInv, Held3, HeldDecided, HeldIsRow, Holds, ChangeHolds
<1>6. HeldCounts' /\ PendingCounted'
  BY <1>1, <1>2 DEF BooksInv, Held3, HeldCounts, PendingCounted, Holds, NeverOvercounts
<1>7. ChangeHolds' /\ UsageExact' /\ NeverOvercounts'
  BY <1>1 DEF BooksInv, ChangeHolds, UsageExact, NeverOvercounts
<1> QED BY <1>3, <1>4, <1>5, <1>6, <1>7 DEF BooksInv, Held3

LEMMA Dismissed == ASSUME BooksInv, NEW c \in Calls, Refused(c) PROVE BooksInv'
<1>1. Return(c) /\ UNCHANGED <<row, pending, clock, tally, raced, decided, crossed, crashes>>
  BY DEF Refused
<1>2. BooksTyped' /\ Equipped'
  BY <1>1, CallEnds DEF BooksInv, BooksTyped
<1>3. \A d \in Calls, k \in Keys : Holds(d, k)' => d # c /\ Holds(d, k) /\ call'[d] = call[d]
  BY <1>1, CallEnds DEF BooksInv
<1>4. Held3'
  BY <1>1, <1>3 DEF BooksInv, Held3, HeldDecided, HeldIsRow, HeldCounts, PendingCounted
<1>5. ChangeHolds' /\ UsageExact' /\ NeverOvercounts'
  BY <1>1 DEF BooksInv, ChangeHolds, UsageExact, NeverOvercounts
<1> QED BY <1>2, <1>4, <1>5 DEF BooksInv

\* Pending uses that are dropped are no longer owed.
LEMMA Dropped ==
  ASSUME BooksTyped, PendingCounted, NEW k \in Keys, Forget(k)
  PROVE /\ pending' \in [Keys -> Nat] /\ tally' \in [Keys -> Nat]
        /\ pending'[k] = 0 /\ tally'[k] = tally[k] - pending[k]
        /\ \A x \in Keys : x # k => pending'[x] = pending[x] /\ tally'[x] = tally[x]
  BY DEF BooksTyped, PendingCounted, Forget

\* A use that is flushed, or kept in memory.
LEMMA Used == ASSUME BooksInv, NEW c \in Calls, Passed(c) PROVE BooksInv'
<1> DEFINE k == call[c].key
           e == call[c].ent
<1>1. /\ Return(c) /\ e # None /\ k \in Keys /\ e \in Key /\ Holds(c, k)
      /\ tally' = [tally EXCEPT ![k] = @ + 1]
      /\ UNCHANGED <<clock, decided, crossed, crashes>>
  BY Holder DEF Passed, BooksInv, Holds
<1>2. /\ \A d \in Calls, x \in Keys : Holds(d, x)' => d # c /\ Holds(d, x) /\ call'[d] = call[d]
      /\ Equipped'
      /\ call' \in [Calls -> [op: Ops, key: Keys, ent: Key \union {None},
                              sock: Sockets \union {None}] \union {Idle}]
  BY <1>1, CallEnds DEF BooksInv
<1>3. /\ k \notin crossed => decided[k] # None /\ Decision(e) = decided[k]
      /\ k \notin raced => e = row[k]
      /\ e.used + pending[k] <= tally[k]
  BY <1>1 DEF BooksInv, Held3, HeldDecided, HeldIsRow, HeldCounts
<1>4. /\ tally' \in [Keys -> Nat] /\ tally'[k] = tally[k] + 1
      /\ \A x \in Keys : x # k => tally'[x] = tally[x]
      /\ e.used \in Nat /\ pending[k] \in Nat /\ tally[k] \in Nat
  BY <1>1 DEF BooksInv, BooksTyped, Key
<1>5. CASE Flush(k, e) /\ raced' = Mark(raced, c)
  <2> DEFINE r == [e EXCEPT !.used = @ + pending[k] + 1, !.last = clock]
  <2>1. /\ row' = [row EXCEPT ![k] = r] /\ pending' = [pending EXCEPT ![k] = 0]
        /\ r \in Key /\ r.used = e.used + pending[k] + 1 /\ Decision(r) = Decision(e)
    <3>1. clock \in 0..MaxClock
      BY DEF BooksInv, BooksTyped
    <3>2. r.used = e.used + pending[k] + 1 /\ r.used \in Nat
      BY <1>1, <1>4 DEF Key
    <3>3. r \in Key
      <4>1. r = [e EXCEPT !.used = r.used, !.last = clock]
        BY <3>2
      <4> HIDE DEF r
      <4> QED BY <1>1, <3>1, <3>2, <4>1 DEF Key
    <3>4. Decision(r) = Decision(e)
      BY <1>1 DEF Key, Decision
    <3> QED BY <1>5, <3>2, <3>3, <3>4 DEF Flush
  <2> HIDE DEF r
  <2>2. /\ row'[k] = r /\ \A x \in Keys : x # k => row'[x] = row[x]
        /\ pending'[k] = 0 /\ \A x \in Keys : x # k => pending'[x] = pending[x]
        /\ row' \in [Keys -> Key \union {None}] /\ pending' \in [Keys -> Nat]
        /\ r # None
    BY <1>1, <2>1, NoneAssumption DEF BooksInv, BooksTyped
  <2>3. /\ raced \subseteq raced' /\ raced' \subseteq raced \union {k}
        /\ \A d \in Calls : d # c /\ Holds(d, k) => k \in raced'
    BY <1>5 DEF Mark, Held, Holds
  <2>4. BooksTyped'
    BY <1>1, <1>2, <1>4, <2>2, <2>3 DEF BooksInv, BooksTyped
  <2>5. HeldDecided'
    BY <1>1, <1>2 DEF BooksInv, Held3, HeldDecided
  <2>6. HeldIsRow'
    BY <1>2, <2>2, <2>3 DEF BooksInv, Held3, HeldIsRow
  <2>7. HeldCounts'
    <3>1. SUFFICES ASSUME NEW d \in Calls, NEW x \in Keys, Holds(d, x)'
                   PROVE call'[d].ent.used + pending'[x] <= tally'[x]
      BY DEF HeldCounts
    <3>2. Holds(d, x) /\ call'[d] = call[d] /\ call[d].ent.used + pending[x] <= tally[x]
      BY <1>2, <3>1 DEF BooksInv, Held3, HeldCounts
    <3>3. call[d].ent \in Key /\ call[d].ent.used \in Nat
      BY <3>2, Holder DEF Holds, BooksInv, Key
    <3> QED BY <3>2, <3>3, <2>2, <1>4
  <2>8. PendingCounted'
    BY <1>4, <2>2 DEF BooksInv, Held3, PendingCounted
  <2>9. ChangeHolds'
    BY <1>1, <1>3, <2>1, <2>2 DEF BooksInv, ChangeHolds
  <2>10. UsageExact'
    BY <1>3, <1>4, <2>1, <2>2, <2>3, <1>1 DEF BooksInv, UsageExact
  <2>11. NeverOvercounts'
    BY <1>3, <1>4, <2>1, <2>2 DEF BooksInv, NeverOvercounts
  <2> QED BY <1>2, <2>4, <2>5, <2>6, <2>7, <2>8, <2>9, <2>10, <2>11 DEF BooksInv, Held3
<1>6. CASE pending' = [pending EXCEPT ![k] = @ + 1] /\ UNCHANGED <<row, raced>>
  <2>1. /\ pending' \in [Keys -> Nat] /\ pending'[k] = pending[k] + 1
        /\ \A x \in Keys : x # k => pending'[x] = pending[x]
        /\ row' = row /\ raced' = raced
    BY <1>1, <1>6 DEF BooksInv, BooksTyped
  <2>2. BooksTyped'
    BY <1>1, <1>2, <1>4, <2>1 DEF BooksInv, BooksTyped
  <2>3. HeldDecided' /\ HeldIsRow'
    BY <1>1, <1>2, <2>1 DEF BooksInv, Held3, HeldDecided, HeldIsRow
  <2>4. HeldCounts'
    <3>1. SUFFICES ASSUME NEW d \in Calls, NEW x \in Keys, Holds(d, x)'
                   PROVE call'[d].ent.used + pending'[x] <= tally'[x]
      BY DEF HeldCounts
    <3>2. Holds(d, x) /\ call'[d] = call[d] /\ call[d].ent.used + pending[x] <= tally[x]
      BY <1>2, <3>1 DEF BooksInv, Held3, HeldCounts
    <3>3. call[d].ent \in Key /\ call[d].ent.used \in Nat
      BY <3>2, Holder DEF Holds, BooksInv, Key
    <3> QED BY <3>2, <3>3, <2>1, <1>4
  <2>5. PendingCounted'
    BY <1>4, <2>1 DEF BooksInv, Held3, PendingCounted
  <2>6. ChangeHolds'
    BY <1>1, <1>3, <2>1 DEF BooksInv, ChangeHolds
  <2>7. UsageExact' /\ NeverOvercounts'
    <3>1. \A x \in Keys : row[x] # None => row[x].used \in Nat
      BY DEF BooksInv, BooksTyped, Key
    <3> QED BY <3>1, <1>4, <2>1 DEF BooksInv, UsageExact, NeverOvercounts
  <2> QED BY <1>2, <2>2, <2>3, <2>4, <2>5, <2>6, <2>7 DEF BooksInv, Held3
<1> QED BY <1>5, <1>6 DEF Passed

\* Dropping what is pending leaves the counts as exact as they were, whoever wrote meanwhile.
LEMMA ForgetCounts ==
  ASSUME BooksInv, NEW k \in Keys, Forget(k), NEW c \in Calls, Return(c)
  PROVE HeldCounts' /\ PendingCounted'
<1>1. /\ pending' \in [Keys -> Nat] /\ tally' \in [Keys -> Nat]
      /\ pending'[k] = 0 /\ tally'[k] = tally[k] - pending[k]
      /\ \A x \in Keys : x # k => pending'[x] = pending[x] /\ tally'[x] = tally[x]
      /\ \A x \in Keys : pending[x] \in Nat /\ tally[x] \in Nat
  BY Dropped DEF BooksInv, Held3, BooksTyped
<1>2. HeldCounts'
  <2>1. SUFFICES ASSUME NEW d \in Calls, NEW x \in Keys, Holds(d, x)'
                 PROVE call'[d].ent.used + pending'[x] <= tally'[x]
    BY DEF HeldCounts
  <2>2. Holds(d, x) /\ call'[d] = call[d] /\ call[d].ent.used + pending[x] <= tally[x]
    BY <2>1, CallEnds DEF BooksInv, Held3, HeldCounts
  <2>3. call[d].ent.used \in Nat
    BY <2>2, Holder DEF Holds, BooksInv, Key
  <2> QED BY <2>2, <2>3, <1>1
<1>3. PendingCounted'
  BY <1>1 DEF BooksInv, Held3, PendingCounted
<1> QED BY <1>2, <1>3

\* A flush or an administrator's write that rejects.
LEMMA Rejected ==
  ASSUME BooksInv, NEW c \in Calls, call[c].op # "idle", Return(c),
         UNCHANGED <<row, clock, raced, decided, crossed, crashes>>,
         Forget(call[c].key) \/ UNCHANGED <<pending, tally>>
  PROVE BooksInv'
<1> DEFINE k == call[c].key
<1>1. k \in Keys
  BY Holder DEF BooksInv
<1>2. CASE UNCHANGED <<pending, tally>>
  BY <1>2, Dismissed DEF Refused
<1>3. CASE Forget(k)
  <2>1. /\ pending' \in [Keys -> Nat] /\ tally' \in [Keys -> Nat]
        /\ pending'[k] = 0 /\ tally'[k] = tally[k] - pending[k]
        /\ \A x \in Keys : x # k => pending'[x] = pending[x] /\ tally'[x] = tally[x]
        /\ \A x \in Keys : pending[x] \in Nat /\ tally[x] \in Nat
    BY <1>1, <1>3, Dropped DEF BooksInv, Held3, BooksTyped
  <2>2. BooksTyped' /\ Equipped'
    BY <2>1, CallEnds DEF BooksInv, BooksTyped
  <2>3. \A d \in Calls, x \in Keys : Holds(d, x)' => d # c /\ Holds(d, x) /\ call'[d] = call[d]
    BY CallEnds DEF BooksInv
  <2>4. HeldDecided' /\ HeldIsRow'
    BY <2>3 DEF BooksInv, Held3, HeldDecided, HeldIsRow
  <2>5. HeldCounts' /\ PendingCounted'
    BY <1>1, <1>3, ForgetCounts
  <2>6. ChangeHolds'
    BY <2>1 DEF BooksInv, ChangeHolds
  <2>7. UsageExact' /\ NeverOvercounts'
    <3>1. \A x \in Keys : row[x] # None => row[x].used \in Nat
      BY DEF BooksInv, BooksTyped, Key
    <3> QED BY <3>1, <2>1 DEF BooksInv, UsageExact, NeverOvercounts
  <2> QED BY <2>2, <2>4, <2>5, <2>6, <2>7 DEF BooksInv, Held3
<1> QED BY <1>2, <1>3

\* An administrator's write: the row, the decision, and what is pending, which stays or goes.
LEMMA Decreed ==
  ASSUME BooksInv, NEW c \in Calls, call[c].op \in {"update", "revoke", "delete"},
         NEW r \in Key \union {None}, NEW d \in [active: BOOLEAN, scope: Scopes] \union {None},
         Decide(c, r, d),
         \/ r = None /\ d = None /\ Forget(call[c].key)
         \/ /\ r # None /\ r.used = call[c].ent.used
            /\ decided[call[c].key] # None /\ Decision(call[c].ent) = decided[call[c].key] => d # None /\ Decision(r) = d
            /\ UNCHANGED <<pending, tally>> \/ Forget(call[c].key)
  PROVE BooksInv'
<1> DEFINE k == call[c].key
           e == call[c].ent
<1>1. /\ Return(c) /\ e # None /\ k \in Keys /\ e \in Key /\ Holds(c, k)
      /\ row' = [row EXCEPT ![k] = r] /\ decided' = [decided EXCEPT ![k] = d]
      /\ crossed' = Mark(crossed, c) /\ raced' = Mark(raced, c)
      /\ UNCHANGED <<clock, crashes>>
  BY Holder DEF Decide, BooksInv, Equipped, Holds
<1>2. /\ \A b \in Calls, x \in Keys : Holds(b, x)' => b # c /\ Holds(b, x) /\ call'[b] = call[b]
      /\ Equipped'
      /\ call' \in [Calls -> [op: Ops, key: Keys, ent: Key \union {None},
                              sock: Sockets \union {None}] \union {Idle}]
  BY <1>1, CallEnds DEF BooksInv
<1>3. /\ k \notin crossed => decided[k] # None /\ Decision(e) = decided[k]
      /\ k \notin raced => e = row[k]
      /\ e.used + pending[k] <= tally[k]
      /\ e.used \in Nat
  BY <1>1 DEF BooksInv, Held3, HeldDecided, HeldIsRow, HeldCounts, Key
<1>4. /\ row'[k] = r /\ \A x \in Keys : x # k => row'[x] = row[x] /\ decided'[x] = decided[x]
      /\ decided'[k] = d
      /\ row' \in [Keys -> Key \union {None}]
      /\ decided' \in [Keys -> [active: BOOLEAN, scope: Scopes] \union {None}]
  BY <1>1 DEF BooksInv, BooksTyped
<1>5. /\ raced \subseteq raced' /\ raced' \subseteq raced \union {k}
      /\ crossed \subseteq crossed' /\ crossed' \subseteq crossed \union {k}
      /\ crossed' \subseteq raced'
      /\ \A b \in Calls : b # c /\ Holds(b, k) => k \in crossed' /\ k \in raced'
  BY <1>1 DEF Mark, Held, Holds, BooksInv, BooksTyped
<1>6. /\ pending' \in [Keys -> Nat] /\ tally' \in [Keys -> Nat]
      /\ \A x \in Keys : x # k => pending'[x] = pending[x] /\ tally'[x] = tally[x]
      /\ \/ pending'[k] = 0 /\ tally'[k] = tally[k] - pending[k]
         \/ r # None /\ pending' = pending /\ tally' = tally
      /\ \A x \in Keys : pending[x] \in Nat /\ tally[x] \in Nat
  <2>1. \A x \in Keys : pending[x] \in Nat /\ tally[x] \in Nat
    BY DEF BooksInv, BooksTyped
  <2>2. CASE Forget(k)
    BY <1>1, <2>1, <2>2, Dropped DEF BooksInv, Held3
  <2>3. CASE r # None /\ UNCHANGED <<pending, tally>>
    BY <2>1, <2>3 DEF BooksInv, BooksTyped
  <2> QED BY <2>2, <2>3
<1>7. BooksTyped'
  BY <1>1, <1>2, <1>4, <1>5, <1>6 DEF BooksInv, BooksTyped
<1>8. HeldDecided'
  BY <1>2, <1>4, <1>5 DEF BooksInv, Held3, HeldDecided
<1>9. HeldIsRow'
  BY <1>2, <1>4, <1>5 DEF BooksInv, Held3, HeldIsRow
<1>10. HeldCounts' /\ PendingCounted'
  <2>1. CASE Forget(k)
    BY <1>1, <2>1, ForgetCounts
  <2>2. CASE UNCHANGED <<pending, tally>>
    BY <1>2, <2>2 DEF BooksInv, Held3, HeldCounts, PendingCounted
  <2> QED BY <2>1, <2>2
<1>11. ChangeHolds'
  <2>1. SUFFICES ASSUME NEW x \in Keys \ crossed'
                 PROVE IF decided'[x] = None THEN row'[x] = None /\ pending'[x] = 0
                       ELSE row'[x] # None /\ Decision(row'[x]) = decided'[x]
    BY DEF ChangeHolds
  <2>2. CASE x = k
    <3>1. decided[k] # None /\ Decision(e) = decided[k]
      BY <1>3, <1>5, <2>1, <2>2
    <3>2. \/ r = None /\ d = None /\ Forget(k)
          \/ r # None /\ d # None /\ Decision(r) = d
      BY <3>1
    <3> QED BY <2>2, <3>2, <1>4, <1>6
  <2>3. CASE x # k
    <3>1. x \in Keys /\ x \notin crossed /\ decided'[x] = decided[x] /\ row'[x] = row[x] /\ pending'[x] = pending[x]
      BY <2>1, <2>3, <1>4, <1>5, <1>6
    <3> QED BY <3>1 DEF BooksInv, ChangeHolds
  <2> QED BY <2>2, <2>3
<1>12. UsageExact' /\ NeverOvercounts'
  <2>1. \A x \in Keys : row[x] # None => row[x].used \in Nat
    BY DEF BooksInv, BooksTyped, Key
  <2>2. r # None => r.used = e.used
    OBVIOUS
  <2>3. ASSUME NEW x \in Keys, row'[x] # None
        PROVE /\ row'[x].used + pending'[x] <= tally'[x]
              /\ x \notin raced' => row'[x].used + pending'[x] = tally'[x]
    <3>1. CASE x = k
      <4>1. k \notin raced => e.used + pending[k] = tally[k]
        BY <1>1, <1>3, <2>3 DEF BooksInv, UsageExact
      <4> QED BY <3>1, <4>1, <2>2, <2>3, <1>1, <1>3, <1>4, <1>5, <1>6
    <3>2. CASE x # k
      <4>1. row'[x] = row[x] /\ pending'[x] = pending[x] /\ tally'[x] = tally[x]
            /\ (x \notin raced' => x \notin raced)
        BY <3>2, <1>4, <1>5, <1>6
      <4> QED BY <4>1, <2>3 DEF BooksInv, UsageExact, NeverOvercounts
    <3> QED BY <3>1, <3>2
  <2> QED BY <2>3 DEF UsageExact, NeverOvercounts
<1> QED BY <1>2, <1>7, <1>8, <1>9, <1>10, <1>11, <1>12 DEF BooksInv, Held3

-----------------------------------------------------------------------------
\* The operations themselves.

LEMMA FreshIsKey ==
  ASSUME NEW scope \in Scopes
  PROVE /\ Fresh(scope) \in Key /\ Fresh(scope) # None /\ Fresh(scope).used = 0
        /\ Decision(Fresh(scope)) \in [active: BOOLEAN, scope: Scopes] /\ Decision(Fresh(scope)) # None
<1>1. 0 \in 0..MaxClock
  BY AccessAssumption
<1>2. Fresh(scope) \in Key /\ Fresh(scope).used = 0
  BY <1>1 DEF Fresh, Key
<1>3. Decision(Fresh(scope)) = [active |-> TRUE, scope |-> scope]
  BY DEF Fresh, Decision
<1>4. Decision(Fresh(scope)) \in [active: BOOLEAN, scope: Scopes]
  BY <1>3
<1> QED BY <1>2, <1>4, NoneAssumption

\* A key that is new, to the calls too.
LEMMA Created ==
  ASSUME BooksInv, NEW k \in Keys, NEW scope \in Scopes, CreateApiKey(k, scope)
  PROVE BooksInv'
<1>1. /\ row' = [row EXCEPT ![k] = Fresh(scope)]
      /\ decided' = [decided EXCEPT ![k] = Decision(Fresh(scope))]
      /\ crossed' = crossed \ {k} /\ raced' = raced \ {k}
      /\ tally' = [tally EXCEPT ![k] = 0] /\ pending' = [pending EXCEPT ![k] = 0]
      /\ UNCHANGED <<clock, call, crashes>>
      /\ \A c \in Calls : call[c].key # k
  BY DEF CreateApiKey, Unborn, Born
<1>2. /\ Fresh(scope) \in Key /\ Fresh(scope) # None /\ Fresh(scope).used = 0
      /\ Decision(Fresh(scope)) \in [active: BOOLEAN, scope: Scopes] /\ Decision(Fresh(scope)) # None
  BY FreshIsKey
<1>3. /\ row'[k] = Fresh(scope) /\ decided'[k] = Decision(Fresh(scope))
      /\ pending'[k] = 0 /\ tally'[k] = 0
      /\ \A x \in Keys : x # k => /\ row'[x] = row[x] /\ decided'[x] = decided[x]
                                 /\ pending'[x] = pending[x] /\ tally'[x] = tally[x]
      /\ row' \in [Keys -> Key \union {None}]
      /\ decided' \in [Keys -> [active: BOOLEAN, scope: Scopes] \union {None}]
      /\ pending' \in [Keys -> Nat] /\ tally' \in [Keys -> Nat]
  BY <1>1, <1>2 DEF BooksInv, BooksTyped
<1>4. BooksTyped' /\ Equipped'
  BY <1>1, <1>3 DEF BooksInv, BooksTyped, Equipped
<1>5. \A d \in Calls, x \in Keys : Holds(d, x)' => x # k /\ Holds(d, x) /\ call'[d] = call[d]
  BY <1>1 DEF Holds
<1>6. HeldDecided' /\ HeldIsRow'
  BY <1>1, <1>3, <1>5 DEF BooksInv, Held3, HeldDecided, HeldIsRow
<1>7. HeldCounts' /\ PendingCounted'
  BY <1>3, <1>5 DEF BooksInv, Held3, HeldCounts, PendingCounted
<1>8. ChangeHolds'
  BY <1>1, <1>2, <1>3 DEF BooksInv, ChangeHolds
<1>9. UsageExact' /\ NeverOvercounts'
  BY <1>1, <1>2, <1>3 DEF BooksInv, UsageExact, NeverOvercounts
<1> QED BY <1>4, <1>6, <1>7, <1>8, <1>9 DEF BooksInv, Held3

LEMMA Restarted == ASSUME BooksInv, Crash PROVE BooksInv'
<1> DEFINE empty == \A k \in Keys : row[k] = None
<1>1. /\ call' = [c \in Calls |-> Idle]
      /\ pending' = [k \in Keys |-> 0]
      /\ tally' = [k \in Keys |-> IF empty THEN 0 ELSE tally[k] - pending[k]]
      /\ UNCHANGED clock /\ crashes' = crashes + 1 /\ crashes' \in 0..Crashes
      /\ IF empty THEN \E k \in Keys : Born(k, {}) ELSE UNCHANGED <<row, decided, crossed, raced>>
  BY AccessAssumption DEF Crash, BooksInv, BooksTyped
<1>2. \A x \in Keys : pending[x] \in Nat /\ tally[x] \in Nat /\ tally[x] - pending[x] \in Nat
  BY DEF BooksInv, BooksTyped, Held3, PendingCounted
<1>3. pending' \in [Keys -> Nat] /\ tally' \in [Keys -> Nat]
  BY <1>1, <1>2
<1>4. CASE empty
  <2>1. PICK k \in Keys : Born(k, {})
    BY <1>1, <1>4
  <2>2. /\ row' = [row EXCEPT ![k] = Fresh({})]
        /\ decided' = [decided EXCEPT ![k] = Decision(Fresh({}))]
        /\ crossed' = crossed \ {k} /\ raced' = raced \ {k}
    BY <2>1 DEF Born
  <2>3. /\ Fresh({}) \in Key /\ Fresh({}) # None /\ Fresh({}).used = 0
        /\ Decision(Fresh({})) \in [active: BOOLEAN, scope: Scopes] /\ Decision(Fresh({})) # None
    BY FreshIsKey, AccessAssumption
  <2>4. /\ row'[k] = Fresh({}) /\ decided'[k] = Decision(Fresh({}))
        /\ \A x \in Keys : x # k => row'[x] = None /\ decided'[x] = decided[x]
        /\ row' \in [Keys -> Key \union {None}]
        /\ decided' \in [Keys -> [active: BOOLEAN, scope: Scopes] \union {None}]
        /\ \A x \in Keys : pending'[x] = 0 /\ tally'[x] = 0
    BY <1>1, <1>4, <2>2, <2>3 DEF BooksInv, BooksTyped
  <2>5. BooksTyped'
    BY <1>1, <1>3, <2>2, <2>4 DEF BooksInv, BooksTyped
  <2>6. Equipped' /\ Held3'
    BY <1>1, <2>4 DEF Equipped, Held3, HeldDecided, HeldIsRow, HeldCounts, PendingCounted, Holds, Idle
  <2>7. ChangeHolds'
    BY <1>4, <2>2, <2>3, <2>4 DEF BooksInv, ChangeHolds
  <2>8. UsageExact' /\ NeverOvercounts'
    BY <2>3, <2>4 DEF UsageExact, NeverOvercounts
  <2> QED BY <2>5, <2>6, <2>7, <2>8 DEF BooksInv
<1>5. CASE ~empty
  <2>1. \A x \in Keys : pending'[x] = 0 /\ tally'[x] = tally[x] - pending[x]
    BY <1>1, <1>5
  <2>2. BooksTyped'
    BY <1>1, <1>3, <1>5 DEF BooksInv, BooksTyped
  <2>3. Equipped' /\ HeldDecided' /\ HeldIsRow' /\ HeldCounts'
    BY <1>1 DEF Equipped, HeldDecided, HeldIsRow, HeldCounts, Holds, Idle
  <2>4. PendingCounted'
    BY <1>2, <2>1 DEF PendingCounted
  <2>5. ChangeHolds'
    BY <1>1, <1>5, <2>1 DEF BooksInv, ChangeHolds
  <2>6. UsageExact' /\ NeverOvercounts'
    <3>1. \A x \in Keys : row[x] # None => row[x].used \in Nat
      BY DEF BooksInv, BooksTyped, Key
    <3> QED BY <3>1, <1>1, <1>2, <1>5, <2>1 DEF BooksInv, UsageExact, NeverOvercounts
  <2> QED BY <2>2, <2>3, <2>4, <2>5, <2>6 DEF BooksInv, Held3
<1> QED BY <1>4, <1>5

LEMMA ThrownKeeps ==
  ASSUME BooksInv, NEW c \in Calls, call[c].op # "idle", Thrown(c) PROVE BooksInv'
<1>1. CASE Refused(c)
  BY <1>1, Dismissed
<1>2. CASE FlushFails(c)
  BY <1>2, Rejected DEF FlushFails, Forget
<1> QED BY <1>1, <1>2 DEF Thrown

LEMMA Managed ==
  ASSUME BooksInv, NEW c \in Calls,
         Revoke(c) \/ Delete(c) \/ ManageFails(c) \/ \E scope \in Scopes : Update(c, scope)
  PROVE BooksInv'
<1>1. /\ call[c].op \in {"update", "revoke", "delete"} /\ call[c].op # "idle"
      /\ call[c].key \in Keys /\ call[c].ent \in Key /\ call[c].ent # None
  BY Holder DEF Revoke, Delete, ManageFails, Update, BooksInv, Equipped
<1> DEFINE k == call[c].key
           e == call[c].ent
<1>2. decided[k] \in [active: BOOLEAN, scope: Scopes] \union {None}
  BY <1>1 DEF BooksInv, BooksTyped
<1>3. \A active \in BOOLEAN, scope \in Scopes :
        /\ DecidedWith(k, active, scope) \in [active: BOOLEAN, scope: Scopes] \union {None}
        /\ decided[k] # None => /\ DecidedWith(k, active, scope) # None
                                /\ DecidedWith(k, active, scope) = [active |-> active, scope |-> scope]
  BY NoneAssumption DEF DecidedWith
<1>4. ASSUME NEW scope \in Scopes, Update(c, scope) PROVE BooksInv'
  <2> DEFINE r == [e EXCEPT !.scope = scope]
             d == DecidedWith(k, decided[k].active, scope)
  <2>1. Decide(c, r, d) /\ UNCHANGED <<pending, tally>>
    BY <1>4 DEF Update
  <2>2. r \in Key /\ r.used = e.used /\ r.scope = scope /\ r.active = e.active
    BY <1>1 DEF Key
  <2>3. r # None
    BY <2>2, NoneAssumption
  <2>4. d \in [active: BOOLEAN, scope: Scopes] \union {None}
    <3>1. CASE decided[k] = None
      BY <3>1 DEF DecidedWith
    <3>2. CASE decided[k] # None
      BY <1>2, <1>3, <3>2
    <3> QED BY <3>1, <3>2
  <2>5. decided[k] # None /\ Decision(e) = decided[k] => d # None /\ Decision(r) = d
    <3>1. SUFFICES ASSUME decided[k] # None, Decision(e) = decided[k] PROVE d # None /\ Decision(r) = d
      OBVIOUS
    <3>2. decided[k].active = e.active /\ e.active \in BOOLEAN
      BY <1>1, <3>1 DEF Decision, Key
    <3>3. d # None /\ d = [active |-> e.active, scope |-> scope]
      BY <1>3, <3>1, <3>2
    <3> QED BY <2>2, <3>3 DEF Decision
  <2> HIDE DEF r, d
  <2> QED BY <1>1, <2>1, <2>2, <2>3, <2>4, <2>5, Decreed
<1>5. CASE Revoke(c)
  <2> DEFINE r == [e EXCEPT !.active = FALSE]
             d == DecidedWith(k, FALSE, decided[k].scope)
  <2>1. Decide(c, r, d) /\ Forget(k)
    BY <1>5 DEF Revoke
  <2>2. r \in Key /\ r.used = e.used /\ r.scope = e.scope /\ r.active = FALSE
    BY <1>1 DEF Key
  <2>3. r # None
    BY <2>2, NoneAssumption
  <2>4. d \in [active: BOOLEAN, scope: Scopes] \union {None}
    <3>1. CASE decided[k] = None
      BY <3>1 DEF DecidedWith
    <3>2. CASE decided[k] # None
      BY <1>2, <1>3, <3>2
    <3> QED BY <3>1, <3>2
  <2>5. decided[k] # None /\ Decision(e) = decided[k] => d # None /\ Decision(r) = d
    <3>1. SUFFICES ASSUME decided[k] # None, Decision(e) = decided[k] PROVE d # None /\ Decision(r) = d
      OBVIOUS
    <3>2. decided[k].scope = e.scope /\ e.scope \in Scopes
      BY <1>1, <3>1 DEF Decision, Key
    <3>3. d # None /\ d = [active |-> FALSE, scope |-> e.scope]
      BY <1>3, <3>1, <3>2
    <3> QED BY <2>2, <3>3 DEF Decision
  <2> HIDE DEF r, d
  <2> QED BY <1>1, <2>1, <2>2, <2>3, <2>4, <2>5, Decreed
<1>6. CASE Delete(c)
  <2>1. Decide(c, None, None) /\ Forget(k)
    BY <1>6 DEF Delete
  <2> QED BY <1>1, <2>1, Decreed
<1>7. CASE ManageFails(c)
  BY <1>1, <1>7, Rejected DEF ManageFails
<1> QED BY <1>4, <1>5, <1>6, <1>7

\* A step that leaves the books alone.
LEMMA BooksAlone ==
  ASSUME BooksInv, UNCHANGED <<row, pending, call, tally, raced, decided, crossed, crashes>>,
         clock' \in 1..MaxClock
  PROVE BooksInv'
  BY DEF BooksInv, BooksTyped, Equipped, Held3, HeldDecided, HeldIsRow, HeldCounts, PendingCounted, Holds,
         ChangeHolds, UsageExact, NeverOvercounts

LEMMA BooksStep == BooksInv /\ GatewayTyped /\ [Next]_vars => BooksInv'
<1> SUFFICES ASSUME BooksInv, GatewayTyped, [Next]_vars PROVE BooksInv'
  OBVIOUS
<1> USE DEF Ops
<1>1. CASE UNCHANGED vars
  <2>1. clock' \in 1..MaxClock
    BY <1>1 DEF vars, access, BooksInv, BooksTyped
  <2> QED BY <1>1, <2>1, BooksAlone DEF vars, access
<1>2. ASSUME NEW k \in Keys, NEW scope \in Scopes, CreateApiKey(k, scope) PROVE BooksInv'
  BY <1>2, Created
<1>3. ASSUME NEW c \in Calls, NEW k \in Keys,
             \/ Request(c, k)
             \/ \E op \in {"update", "revoke", "delete"} : Manage(c, op, k)
             \/ \E s \in Sockets : Connect(c, s, k)
      PROVE BooksInv'
  <2>1. CASE Request(c, k)
    BY <2>1, Begun DEF Request
  <2>2. ASSUME NEW op \in {"update", "revoke", "delete"}, Manage(c, op, k) PROVE BooksInv'
    BY <2>2, Begun DEF Manage
  <2>3. ASSUME NEW s \in Sockets, Connect(c, s, k) PROVE BooksInv'
    BY <2>3, Begun DEF Connect
  <2> QED BY <1>3, <2>1, <2>2, <2>3
<1>4. ASSUME NEW c \in Calls, Authorize(c) PROVE BooksInv'
  BY <1>4, Used, ThrownKeeps DEF Authorize
<1>5. ASSUME NEW c \in Calls, Revoke(c) \/ Delete(c) \/ ManageFails(c) \/ \E scope \in Scopes : Update(c, scope)
      PROVE BooksInv'
  BY <1>5, Managed
<1>6. ASSUME NEW c \in Calls, HandleConnection(c) \/ \E x \in Room : HandleSubscribe(c, x) PROVE BooksInv'
  BY <1>6, Used, ThrownKeeps DEF HandleConnection, HandleSubscribe
<1>7. ASSUME NEW c \in Calls, NEW s \in Sockets, Subscribe(c, s), GatewayTyped PROVE BooksInv'
  <2>1. auth[s] \in Keys
    BY <1>7 DEF Subscribe, GatewayTyped
  <2> QED BY <1>7, <2>1, Begun DEF Subscribe
<1>8. ASSUME NEW s \in Sockets, SubscribeEarly(s) \/ HandleDisconnect(s) \/ \E x \in Room : HandleUnsubscribe(s, x)
      PROVE BooksInv'
  <2>1. UNCHANGED <<access, decided, crossed, crashes>>
    BY <1>8 DEF SubscribeEarly, HandleDisconnect, HandleUnsubscribe
  <2>2. clock' \in 1..MaxClock
    BY <2>1 DEF access, BooksInv, BooksTyped
  <2> QED BY <2>1, <2>2, BooksAlone DEF access
<1>9. CASE Tick
  <2>1. clock' \in 1..MaxClock
    BY <1>9, AccessAssumption DEF Tick, BooksInv, BooksTyped
  <2> QED BY <1>9, <2>1, BooksAlone DEF Tick
<1>10. CASE Crash
  BY <1>10, Restarted
<1> QED BY <1>1, <1>2, <1>3, <1>4, <1>5, <1>6, <1>7, <1>8, <1>9, <1>10 DEF Next

-----------------------------------------------------------------------------
\* The sockets.

LEMMA Closed ==
  ASSUME GatewayTyped, NEW s \in Sockets, Close(s)
  PROVE /\ GatewayTyped'
        /\ socket'[s] = "closed"
        /\ \A t \in Sockets : t # s => socket'[t] = socket[t] /\ auth'[t] = auth[t] /\ rooms'[t] = rooms[t]
        /\ rooms'[s] = {}
  BY DEF GatewayTyped, Close

\* The calls that subscribe are those of before, but perhaps c.
LEMMA Subscribing ==
  ASSUME BooksTyped, NEW c \in Calls, Return(c), SameKey,
         \A t \in Sockets : \/ socket'[t] = socket[t] /\ auth'[t] = auth[t]
                            \/ socket'[t] = "closed"
                            \/ socket[t] = "connecting"
  PROVE SameKey'
  BY CallEnds DEF SameKey, Idle

LEMMA GatewayStep == Inv /\ [Next]_vars => GatewayTyped' /\ SameKey'
<1> SUFFICES ASSUME Inv, [Next]_vars PROVE GatewayTyped' /\ SameKey'
  OBVIOUS
<1>0. BooksTyped /\ GatewayTyped /\ SameKey /\ Equipped
  BY DEF Inv, BooksInv
<1>1. ASSUME UNCHANGED gateway PROVE GatewayTyped'
  BY <1>0, <1>1 DEF gateway, GatewayTyped
<1>2. ASSUME UNCHANGED gateway, NEW c \in Calls, Return(c) PROVE SameKey'
  BY <1>0, <1>2, Subscribing DEF gateway
<1>3. ASSUME UNCHANGED <<gateway, call>> PROVE SameKey'
  BY <1>0, <1>3 DEF gateway, SameKey
<1>4. ASSUME NEW c \in Calls, NEW op \in Ops, NEW k \in Keys, NEW s \in Sockets \union {None},
             Begin(c, op, k, s), UNCHANGED gateway,
             op = "subscribe" => s \in Sockets /\ socket[s] = "open" /\ auth[s] = k
      PROVE SameKey'
  <2>1. /\ call'[c] = [op |-> op, key |-> k, ent |-> row[k], sock |-> s]
        /\ \A d \in Calls : d # c => call'[d] = call[d]
    BY <1>0, <1>4 DEF Begin, BooksTyped
  <2>2. call'[c].op = op /\ call'[c].key = k /\ call'[c].sock = s
    BY <2>1
  <2> QED BY <1>0, <1>4, <2>1, <2>2 DEF SameKey, gateway
<1>5. CASE UNCHANGED vars
  BY <1>1, <1>3, <1>5 DEF vars, access, gateway
<1>6. ASSUME NEW k \in Keys, NEW scope \in Scopes, CreateApiKey(k, scope) PROVE GatewayTyped' /\ SameKey'
  BY <1>1, <1>3, <1>6 DEF CreateApiKey
<1>7. ASSUME NEW c \in Calls, NEW k \in Keys, Request(c, k) \/ \E op \in {"update", "revoke", "delete"} : Manage(c, op, k)
      PROVE GatewayTyped' /\ SameKey'
  BY <1>1, <1>4, <1>7 DEF Request, Manage, Ops
<1>8. ASSUME NEW c \in Calls, NEW k \in Keys, NEW s \in Sockets, Connect(c, s, k) PROVE GatewayTyped' /\ SameKey'
  <2>1. /\ socket[s] = "closed" /\ \A d \in Calls : call[d].sock # s
        /\ socket' = [socket EXCEPT ![s] = "connecting"] /\ auth' = auth /\ rooms' = rooms
        /\ call' = [call EXCEPT ![c] = [op |-> "connect", key |-> k, ent |-> row[k], sock |-> s]]
    BY <1>8 DEF Connect, Begin
  <2>2. GatewayTyped'
    BY <1>0, <2>1 DEF GatewayTyped
  <2>3. /\ call'[c].op = "connect" /\ \A d \in Calls : d # c => call'[d] = call[d]
        /\ \A t \in Sockets : t # s => socket'[t] = socket[t]
    BY <1>0, <2>1 DEF BooksTyped, GatewayTyped
  <2>4. SameKey'
    BY <1>0, <2>1, <2>3 DEF SameKey
  <2> QED BY <2>2, <2>4
<1>9. ASSUME NEW c \in Calls, Authorize(c) \/ Revoke(c) \/ Delete(c) \/ ManageFails(c) \/ \E scope \in Scopes : Update(c, scope)
      PROVE GatewayTyped' /\ SameKey'
  <2>1. UNCHANGED gateway /\ Return(c)
    BY <1>9 DEF Authorize, Revoke, Delete, ManageFails, Update, Decide, Passed, Thrown, Refused, FlushFails
  <2> QED BY <2>1, <1>1, <1>2
<1>10. ASSUME NEW c \in Calls, HandleConnection(c) PROVE GatewayTyped' /\ SameKey'
  <2> DEFINE s == call[c].sock
  <2>1. s \in Sockets /\ call[c].key \in Keys /\ call[c].key # None
    BY <1>0, <1>10, Holder, NoneAssumption DEF HandleConnection, Equipped
  <2>2. Return(c)
    BY <1>10 DEF HandleConnection, Passed, Thrown, Refused, FlushFails
  <2>3. CASE socket[s] = "connecting" /\ socket' = [socket EXCEPT ![s] = "open"]
             /\ auth' = [auth EXCEPT ![s] = call[c].key] /\ UNCHANGED rooms
    <3>1. GatewayTyped'
      BY <1>0, <2>1, <2>3 DEF GatewayTyped
    <3>2. SameKey'
      BY <1>0, <2>1, <2>2, <2>3, Subscribing DEF GatewayTyped
    <3> QED BY <3>1, <3>2
  <2>4. CASE UNCHANGED gateway
    BY <1>1, <1>2, <2>2, <2>4
  <2>5. CASE Close(s)
    BY <1>0, <2>1, <2>2, <2>5, Closed, Subscribing
  <2> QED BY <1>10, <2>3, <2>4, <2>5 DEF HandleConnection
<1>11. ASSUME NEW c \in Calls, NEW s \in Sockets, Subscribe(c, s) PROVE GatewayTyped' /\ SameKey'
  <2>1. auth[s] \in Keys /\ socket[s] = "open"
    BY <1>0, <1>11 DEF Subscribe, GatewayTyped
  <2> QED BY <1>1, <1>4, <1>11, <2>1 DEF Subscribe, Ops
<1>12. ASSUME NEW c \in Calls, NEW x \in Room, HandleSubscribe(c, x) PROVE GatewayTyped' /\ SameKey'
  <2> DEFINE s == call[c].sock
  <2>1. s \in Sockets
    BY <1>0, <1>12 DEF HandleSubscribe, Equipped
  <2>2. Return(c)
    BY <1>12 DEF HandleSubscribe, Passed, Thrown, Refused, FlushFails
  <2>3. CASE socket[s] = "open" /\ rooms' = [rooms EXCEPT ![s] = @ \union {x}] /\ UNCHANGED <<socket, auth>>
    <3>1. GatewayTyped'
      BY <1>0, <1>12, <2>1, <2>3 DEF GatewayTyped
    <3>2. SameKey'
      BY <1>0, <2>2, <2>3, Subscribing
    <3> QED BY <3>1, <3>2
  <2>4. CASE UNCHANGED gateway
    BY <1>1, <1>2, <2>2, <2>4
  <2>5. CASE Close(s)
    BY <1>0, <2>1, <2>2, <2>5, Closed, Subscribing
  <2> QED BY <1>12, <2>3, <2>4, <2>5 DEF HandleSubscribe
<1>13. ASSUME NEW s \in Sockets, SubscribeEarly(s) \/ HandleDisconnect(s) PROVE GatewayTyped' /\ SameKey'
  <2>1. Close(s) /\ call' = call
    BY <1>13 DEF SubscribeEarly, HandleDisconnect, access
  <2>2. GatewayTyped' /\ socket'[s] = "closed"
        /\ \A t \in Sockets : t # s => socket'[t] = socket[t] /\ auth'[t] = auth[t]
    BY <1>0, <2>1, Closed
  <2> QED BY <1>0, <2>1, <2>2 DEF SameKey
<1>14. ASSUME NEW s \in Sockets, NEW x \in Room, HandleUnsubscribe(s, x) PROVE GatewayTyped' /\ SameKey'
  <2>1. /\ rooms[s] # {} /\ call' = call /\ socket' = socket /\ auth' = auth
        /\ rooms' = [rooms EXCEPT ![s] = IF x = AnySession THEN {} ELSE @ \ {x}]
    BY <1>14 DEF HandleUnsubscribe, access
  <2> QED BY <1>0, <2>1 DEF GatewayTyped, SameKey
<1>15. CASE Tick
  BY <1>1, <1>3, <1>15 DEF Tick, gateway
<1>16. CASE Crash
  BY <1>0, <1>16 DEF Crash, GatewayTyped, SameKey, Idle
<1> QED BY <1>5, <1>6, <1>7, <1>8, <1>9, <1>10, <1>11, <1>12, <1>13, <1>14, <1>15, <1>16 DEF Next

-----------------------------------------------------------------------------
\* The theorems.

LEMMA InvInit == Init => Inv
<1> SUFFICES ASSUME Init PROVE Inv
  OBVIOUS
<1>1. PICK k \in Keys :
        /\ row = [x \in Keys |-> IF x = k THEN Fresh({}) ELSE None]
        /\ decided = [x \in Keys |-> IF x = k THEN Decision(Fresh({})) ELSE None]
        /\ pending = [x \in Keys |-> 0] /\ tally = [x \in Keys |-> 0]
        /\ clock = 1
        /\ call = [c \in Calls |-> Idle]
        /\ socket = [s \in Sockets |-> "closed"]
        /\ auth = [s \in Sockets |-> None]
        /\ rooms = [s \in Sockets |-> {}]
        /\ crossed = {} /\ raced = {} /\ crashes = 0
  BY DEF Init
<1>2. /\ Fresh({}) \in Key /\ Fresh({}) # None /\ Fresh({}).used = 0
      /\ Decision(Fresh({})) \in [active: BOOLEAN, scope: Scopes] /\ Decision(Fresh({})) # None
  BY FreshIsKey, AccessAssumption
<1>3. BooksTyped
  BY <1>1, <1>2, AccessAssumption DEF BooksTyped
<1>4. Equipped /\ Held3
  BY <1>1 DEF Equipped, Held3, HeldDecided, HeldIsRow, HeldCounts, PendingCounted, Holds, Idle
<1>5. ChangeHolds /\ UsageExact /\ NeverOvercounts
  BY <1>1, <1>2 DEF ChangeHolds, UsageExact, NeverOvercounts
<1>6. GatewayTyped /\ SameKey
  BY <1>1 DEF GatewayTyped, SameKey, Idle
<1> QED BY <1>3, <1>4, <1>5, <1>6 DEF Inv, BooksInv

LEMMA InvStep == Inv /\ [Next]_vars => Inv'
  BY BooksStep, GatewayStep DEF Inv

\* What an administrator decided last of a key holds, unless the write overlapped a call that
\* had read the key before.
THEOREM DecisionsHold == Spec => []ChangeHolds
<1>1. Inv => ChangeHolds
  BY DEF Inv, BooksInv
<1> QED BY <1>1, InvInit, InvStep, PTL DEF Spec

\* Uses are never counted twice, and exactly once unless writes of the key overlapped.
THEOREM UsesAreCounted == Spec => []Consistent
<1>1. Inv => Consistent
  BY TypeParts DEF Inv, BooksInv, Consistent
<1> QED BY <1>1, InvInit, InvStep, PTL DEF Spec

\* A socket joins a room only by the last decision on its key, unless a call crossed it: the key
\* as the subscription read it is then as it was decided, and still the socket's own.
THEOREM JoinsAreAllowed == Spec => JoinsWithinDecision
<1>1. Inv /\ [Next]_vars =>
        [\A s \in Sockets : \A x \in rooms'[s] \ rooms[s] :
           \/ auth[s] \in crossed
           \/ /\ decided[auth[s]] # None
              /\ decided[auth[s]].active
              /\ decided[auth[s]].scope = {} \/ x \in decided[auth[s]].scope]_vars
  <2> SUFFICES ASSUME Inv, [Next]_vars, NEW s \in Sockets, NEW x \in rooms'[s] \ rooms[s], auth[s] \notin crossed
               PROVE /\ decided[auth[s]] # None
                     /\ decided[auth[s]].active
                     /\ decided[auth[s]].scope = {} \/ x \in decided[auth[s]].scope
    OBVIOUS
  <2>0. BooksTyped /\ GatewayTyped /\ SameKey /\ Equipped
    BY DEF Inv, BooksInv
  <2>1. PICK c \in Calls, y \in Room : HandleSubscribe(c, y) /\ ~(rooms' = rooms)
    <3>1. \A t \in Sockets : Close(t) => rooms'[s] \subseteq rooms[s]
      BY <2>0 DEF Close, GatewayTyped
    <3>2. \/ rooms'[s] \subseteq rooms[s]
          \/ \E c \in Calls, y \in Room : HandleSubscribe(c, y)
      <4>1. CASE UNCHANGED vars
        BY <4>1 DEF vars, gateway
      <4>2. ASSUME NEW t \in Sockets, NEW y \in Room, HandleUnsubscribe(t, y) PROVE rooms'[s] \subseteq rooms[s]
        BY <4>2, <2>0 DEF HandleUnsubscribe, GatewayTyped
      <4>3. ASSUME NEW t \in Sockets, SubscribeEarly(t) \/ HandleDisconnect(t) PROVE rooms'[s] \subseteq rooms[s]
        BY <4>3, <3>1 DEF SubscribeEarly, HandleDisconnect
      <4>4. ASSUME NEW c \in Calls, HandleConnection(c) PROVE rooms'[s] \subseteq rooms[s]
        <5>1. call[c].sock \in Sockets
          BY <4>4, <2>0 DEF HandleConnection, Equipped
        <5> QED BY <4>4, <5>1, <3>1 DEF HandleConnection, gateway
      <4>5. CASE Crash
        BY <4>5 DEF Crash
      <4>6. ASSUME \/ \E k \in Keys, scope \in Scopes : CreateApiKey(k, scope)
                   \/ \E c \in Calls, k \in Keys : \/ Request(c, k)
                                                   \/ \E op \in {"update", "revoke", "delete"} : Manage(c, op, k)
                                                   \/ \E t \in Sockets : Connect(c, t, k)
                   \/ \E c \in Calls : \/ Authorize(c) \/ Revoke(c) \/ Delete(c) \/ ManageFails(c)
                                       \/ \E scope \in Scopes : Update(c, scope)
                                       \/ \E t \in Sockets : Subscribe(c, t)
                   \/ Tick
            PROVE rooms'[s] \subseteq rooms[s]
        BY <4>6 DEF CreateApiKey, Request, Manage, Connect, Authorize, Revoke, Delete, ManageFails, Update,
                    Decide, Subscribe, Tick, gateway
      <4> QED BY <4>1, <4>2, <4>3, <4>4, <4>5, <4>6 DEF Next
    <3> QED BY <3>2
  <2>2. /\ call[c].op = "subscribe" /\ call[c].sock \in Sockets
        /\ call[c].ent # None /\ call[c].ent.active
        /\ socket[call[c].sock] = "open"
        /\ IsSessionSubscriptionAllowed(call[c].ent.scope, y)
        /\ rooms' = [rooms EXCEPT ![call[c].sock] = @ \union {y}]
    <3>1. call[c].sock \in Sockets
      BY <2>0, <2>1 DEF HandleSubscribe, Equipped
    <3>2. ~Close(call[c].sock)
      BY <2>0, <3>1 DEF Close, GatewayTyped
    <3> QED BY <2>1, <3>1, <3>2 DEF HandleSubscribe, Passed, gateway
  <2>3. s = call[c].sock /\ x = y
    BY <2>2, <2>0 DEF GatewayTyped
  <2>4. auth[s] = call[c].key /\ call[c].key \in Keys
    BY <2>0, <2>2, <2>3, Holder DEF SameKey
  <2>5. decided[auth[s]] # None /\ Decision(call[c].ent) = decided[auth[s]]
    BY <2>2, <2>4 DEF Inv, BooksInv, Held3, HeldDecided, Holds
  <2> QED BY <2>2, <2>3, <2>5 DEF Decision, IsSessionSubscriptionAllowed
<1> QED BY <1>1, InvInit, InvStep, PTL DEF Spec, JoinsWithinDecision

=============================================================================
