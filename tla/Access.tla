------------------------------- MODULE Access -------------------------------
(***************************************************************************)
(* API keys and the sockets they open: AuthService (auth.service.ts), the  *)
(* guard of the HTTP routes, and EventsGateway (events.gateway.ts).  Each  *)
(* operation reads the key, awaits the database, and goes on with the      *)
(* entity it got; repository.save leaves the row equal to the entity, and  *)
(* inserts it when the row is gone.                                        *)
(***************************************************************************)
EXTENDS Integers, FiniteSets

CONSTANTS
  Keys,       \* API keys
  Sessions,   \* sessions of the gateway
  Sockets,    \* connections to the /events namespace
  Calls,      \* activations of the operations
  Scopes,     \* values of allowedSessions; the empty one restricts nothing
  AnySession, \* "*"
  None,       \* no row, no key, no socket
  Uses,       \* bound: validations of one key that are counted
  MaxClock,   \* bound: STAT_FLUSH_INTERVAL_MS windows
  Crashes     \* bound: restarts

ASSUME AccessAssumption ==
  /\ Scopes \subseteq SUBSET Sessions /\ {} \in Scopes
  /\ AnySession \notin Sessions
  /\ Uses \in Nat /\ MaxClock \in Nat \ {0} /\ Crashes \in Nat

VARIABLES
  row,      \* api_keys
  pending,  \* pendingUsage
  clock,    \* time, in windows of STAT_FLUSH_INTERVAL_MS
  call,     \* the activations, each with the key entity it was given
  socket,   \* whether a socket is closed, connecting or open
  auth,     \* client.data.rawApiKey
  rooms,    \* the rooms a socket is in, by session
  decided,  \* what the administrators last made of a key (history)
  tally,    \* uses of a key that ought to be on the books (history)
  crossed,  \* keys an administrator wrote while another call held them (history)
  raced,    \* keys anybody wrote while another call held them (history)
  crashes

access == <<row, pending, clock, call, tally, raced>>
gateway == <<socket, auth, rooms>>
vars == <<access, gateway, decided, crossed, crashes>>

Key == [active: BOOLEAN, scope: Scopes, used: Nat, last: 0..MaxClock]
Fresh(scope) == [active |-> TRUE, scope |-> scope, used |-> 0, last |-> 0]
Decision(r) == [active |-> r.active, scope |-> r.scope]
Ops == {"request", "connect", "subscribe", "update", "revoke", "delete"}
Idle == [op |-> "idle", key |-> None, ent |-> None, sock |-> None]
Room == Sessions \union {AnySession}

\* None is no key, no socket, no entity and no decision.
ASSUME NoneAssumption ==
  /\ None \notin Keys /\ None \notin Sockets
  /\ None \notin Key /\ None \notin [active: BOOLEAN, scope: Scopes]

\* Type correctness; a socket is in rooms only while it is open, and is open with a key.
TypeOK ==
  /\ row \in [Keys -> Key \union {None}]
  /\ pending \in [Keys -> Nat]
  /\ clock \in 1..MaxClock
  /\ call \in [Calls -> [op: Ops, key: Keys, ent: Key \union {None},
                         sock: Sockets \union {None}] \union {Idle}]
  /\ socket \in [Sockets -> {"closed", "connecting", "open"}]
  /\ auth \in [Sockets -> Keys \union {None}]
  /\ rooms \in [Sockets -> SUBSET Room]
  /\ decided \in [Keys -> [active: BOOLEAN, scope: Scopes] \union {None}]
  /\ tally \in [Keys -> Nat]
  /\ crossed \subseteq raced /\ raced \subseteq Keys
  /\ crashes \in 0..Crashes
  /\ \A s \in Sockets : /\ (socket[s] = "open") <=> (auth[s] # None)
                        /\ socket[s] # "open" => rooms[s] = {}

-----------------------------------------------------------------------------

\* onModuleInit has found no key and seeded the default one, which nothing restricts.
Init ==
  \E k \in Keys :
    /\ row = [x \in Keys |-> IF x = k THEN Fresh({}) ELSE None]
    /\ decided = [x \in Keys |-> IF x = k THEN Decision(Fresh({})) ELSE None]
    /\ pending = [x \in Keys |-> 0] /\ tally = [x \in Keys |-> 0]
    /\ clock = 1
    /\ call = [c \in Calls |-> Idle]
    /\ socket = [s \in Sockets |-> "closed"]
    /\ auth = [s \in Sockets |-> None]
    /\ rooms = [s \in Sockets |-> {}]
    /\ crossed = {} /\ raced = {} /\ crashes = 0

\* An operation starts: its findOne returns the row as it is now.
Begin(c, op, k, s) ==
  /\ call[c] = Idle
  /\ call' = [call EXCEPT ![c] = [op |-> op, key |-> k, ent |-> row[k], sock |-> s]]
  /\ UNCHANGED <<row, pending, clock, tally, raced, decided, crossed, crashes>>

Return(c) == call' = [call EXCEPT ![c] = Idle]

\* Another call holds the key as it was before the write of c.
Held(c) == \E d \in Calls \ {c} : call[d].key = call[c].key /\ call[d].ent # None
Mark(set, c) == IF Held(c) THEN set \union {call[c].key} ELSE set

\* A key nothing remembers: ids and secrets of deleted keys are not used again.
Unborn(k) ==
  /\ row[k] = None /\ decided[k] = None
  /\ \A c \in Calls : call[c].key # k
  /\ \A s \in Sockets : auth[s] # k

Born(k, scope) ==
  /\ row' = [row EXCEPT ![k] = Fresh(scope)]
  /\ decided' = [decided EXCEPT ![k] = Decision(Fresh(scope))]
  /\ crossed' = crossed \ {k} /\ raced' = raced \ {k}

CreateApiKey(k, scope) ==
  /\ Unborn(k)
  /\ Born(k, scope)
  /\ tally' = [tally EXCEPT ![k] = 0] /\ pending' = [pending EXCEPT ![k] = 0]
  /\ UNCHANGED <<clock, call, gateway, crashes>>

-----------------------------------------------------------------------------
\* validateApiKey

\* Revoked, expired, an address that is not allowed, or a session out of scope; expiry and
\* addresses are a free choice.
Refused(c) ==
  /\ Return(c)
  /\ UNCHANGED <<row, pending, clock, tally, raced, decided, crossed, crashes>>

Due(e) == e.last = 0 \/ clock > e.last

\* A due flush: the count read, with what is pending and this use.
\* Variant: it forgets what is pending.
FlushOne(k, e) ==
  /\ row' = [row EXCEPT ![k] = [e EXCEPT !.used = @ + 1, !.last = clock]]
  /\ pending' = [pending EXCEPT ![k] = 0]
Flush(k, e) ==
  /\ row' = [row EXCEPT ![k] = [e EXCEPT !.used = @ + pending[k] + 1, !.last = clock]]
  /\ pending' = [pending EXCEPT ![k] = 0]

\* The key is good: the use is flushed if a window has passed, or kept in memory.
Passed(c) ==
  LET k == call[c].key
      e == call[c].ent
  IN  /\ e # None /\ e.active
      /\ tally[k] < Uses
      /\ tally' = [tally EXCEPT ![k] = @ + 1]
      /\ \/ Due(e) /\ Flush(k, e) /\ raced' = Mark(raced, c)
         \/ /\ ~Due(e)
            /\ pending' = [pending EXCEPT ![k] = @ + 1]
            /\ UNCHANGED <<row, raced>>
      /\ Return(c)
      /\ UNCHANGED <<clock, decided, crossed, crashes>>

\* The flush rejects: what was pending has left memory, and the caller sees an error.
FlushFails(c) ==
  LET k == call[c].key
  IN  /\ call[c].ent # None /\ call[c].ent.active /\ Due(call[c].ent)
      /\ tally' = [tally EXCEPT ![k] = @ - pending[k]]
      /\ pending' = [pending EXCEPT ![k] = 0]
      /\ Return(c)
      /\ UNCHANGED <<row, clock, raced, decided, crossed, crashes>>

Thrown(c) == Refused(c) \/ FlushFails(c)

\* The guard of the HTTP routes.
Request(c, k) == row[k] # None /\ Begin(c, "request", k, None) /\ UNCHANGED gateway

Authorize(c) ==
  /\ call[c].op = "request"
  /\ Passed(c) \/ Thrown(c)
  /\ UNCHANGED gateway

-----------------------------------------------------------------------------
\* update, revoke, delete

Manage(c, op, k) ==
  /\ op \in {"update", "revoke", "delete"} /\ row[k] # None
  /\ Begin(c, op, k, None)
  /\ UNCHANGED gateway

\* An administrator's write, and the decision it carries out.
Decide(c, r, d) ==
  /\ row' = [row EXCEPT ![call[c].key] = r]
  /\ decided' = [decided EXCEPT ![call[c].key] = d]
  /\ crossed' = Mark(crossed, c) /\ raced' = Mark(raced, c)
  /\ Return(c)
  /\ UNCHANGED <<clock, gateway, crashes>>

\* pendingUsage.delete
Forget(k) ==
  /\ tally' = [tally EXCEPT ![k] = @ - pending[k]]
  /\ pending' = [pending EXCEPT ![k] = 0]

DecidedWith(k, active, scope) ==
  IF decided[k] = None THEN None ELSE [active |-> active, scope |-> scope]

\* Variant: the update writes the defaults over what it was not given.
UpdateResets(c, scope) ==
  /\ call[c].op = "update"
  /\ Decide(c, [call[c].ent EXCEPT !.active = TRUE, !.scope = scope],
            DecidedWith(call[c].key, decided[call[c].key].active, scope))
  /\ UNCHANGED <<pending, tally>>
Update(c, scope) ==
  /\ call[c].op = "update"
  /\ Decide(c, [call[c].ent EXCEPT !.scope = scope],
            DecidedWith(call[c].key, decided[call[c].key].active, scope))
  /\ UNCHANGED <<pending, tally>>

Revoke(c) ==
  /\ call[c].op = "revoke"
  /\ Decide(c, [call[c].ent EXCEPT !.active = FALSE],
            DecidedWith(call[c].key, FALSE, decided[call[c].key].scope))
  /\ Forget(call[c].key)

Delete(c) ==
  /\ call[c].op = "delete"
  /\ Decide(c, None, None)
  /\ Forget(call[c].key)

\* The write rejects; revoke and delete have dropped the pending uses already.
ManageFails(c) ==
  /\ call[c].op \in {"update", "revoke", "delete"}
  /\ IF call[c].op = "update" THEN UNCHANGED <<pending, tally>> ELSE Forget(call[c].key)
  /\ Return(c)
  /\ UNCHANGED <<row, clock, raced, gateway, decided, crossed, crashes>>

-----------------------------------------------------------------------------
\* EventsGateway

\* Whether a key of this scope may subscribe; variant: the wildcard is open to every key.
AllowedToAll(scope, x) == scope = {} \/ x = AnySession \/ x \in scope
IsSessionSubscriptionAllowed(scope, x) == scope = {} \/ x \in scope

Close(s) ==
  /\ socket' = [socket EXCEPT ![s] = "closed"]
  /\ auth' = [auth EXCEPT ![s] = None]
  /\ rooms' = [rooms EXCEPT ![s] = {}]

Connect(c, s, k) ==
  /\ socket[s] = "closed" /\ \A d \in Calls : call[d].sock # s
  /\ Begin(c, "connect", k, s)
  /\ socket' = [socket EXCEPT ![s] = "connecting"]
  /\ UNCHANGED <<auth, rooms>>

\* handleConnection goes on: the socket gets its key, or is closed; a socket that has left
\* meanwhile is beyond reach.
HandleConnection(c) ==
  LET s == call[c].sock
  IN  /\ call[c].op = "connect"
      /\ \/ /\ Passed(c)
            /\ IF socket[s] = "connecting"
               THEN /\ socket' = [socket EXCEPT ![s] = "open"]
                    /\ auth' = [auth EXCEPT ![s] = call[c].key]
                    /\ UNCHANGED rooms
               ELSE UNCHANGED gateway
         \/ Thrown(c) /\ Close(s)

\* A subscription before the connection's key is known is refused, and the socket closed.
SubscribeEarly(s) ==
  /\ socket[s] = "connecting"
  /\ Close(s)
  /\ UNCHANGED <<access, decided, crossed, crashes>>

Subscribe(c, s) ==
  /\ socket[s] = "open"
  /\ Begin(c, "subscribe", auth[s], s)
  /\ UNCHANGED gateway

\* handleSubscribe goes on with the key as it was read; it joins no room where the scope forbids
\* it, or where none of the events asked for is valid.
HandleSubscribe(c, x) ==
  LET s == call[c].sock
  IN  /\ call[c].op = "subscribe"
      /\ \/ /\ Passed(c)
            /\ \/ /\ IsSessionSubscriptionAllowed(call[c].ent.scope, x) /\ socket[s] = "open"
                  /\ rooms' = [rooms EXCEPT ![s] = @ \union {x}]
                  /\ UNCHANGED <<socket, auth>>
               \/ UNCHANGED gateway
         \/ Thrown(c) /\ Close(s)

HandleUnsubscribe(s, x) ==
  /\ rooms[s] # {}
  /\ rooms' = [rooms EXCEPT ![s] = IF x = AnySession THEN {} ELSE @ \ {x}]
  /\ UNCHANGED <<access, socket, auth, decided, crossed, crashes>>

HandleDisconnect(s) ==
  /\ socket[s] # "closed"
  /\ Close(s)
  /\ UNCHANGED <<access, decided, crossed, crashes>>

\* The sockets an event of session x goes to.
EmitToRooms(x) == {s \in Sockets : rooms[s] \intersect {x, AnySession} # {}}

-----------------------------------------------------------------------------

Tick ==
  /\ clock < MaxClock
  /\ clock' = clock + 1
  /\ UNCHANGED <<row, pending, call, tally, raced, gateway, decided, crossed, crashes>>

\* A restart: calls, sockets and pending uses are gone; a boot that finds no key seeds one.
Crash ==
  LET empty == \A k \in Keys : row[k] = None
  IN  /\ crashes < Crashes
      /\ crashes' = crashes + 1
      /\ call' = [c \in Calls |-> Idle]
      /\ socket' = [s \in Sockets |-> "closed"]
      /\ auth' = [s \in Sockets |-> None]
      /\ rooms' = [s \in Sockets |-> {}]
      /\ pending' = [k \in Keys |-> 0]
      /\ tally' = [k \in Keys |-> IF empty THEN 0 ELSE tally[k] - pending[k]]
      /\ UNCHANGED clock
      /\ IF empty THEN \E k \in Keys : Born(k, {}) ELSE UNCHANGED <<row, decided, crossed, raced>>

Next ==
  \/ \E k \in Keys, scope \in Scopes : CreateApiKey(k, scope)
  \/ \E c \in Calls, k \in Keys : \/ Request(c, k)
                                  \/ \E op \in {"update", "revoke", "delete"} : Manage(c, op, k)
                                  \/ \E s \in Sockets : Connect(c, s, k)
  \/ \E c \in Calls : \/ Authorize(c) \/ Revoke(c) \/ Delete(c) \/ ManageFails(c)
                      \/ \E scope \in Scopes : Update(c, scope)
                      \/ HandleConnection(c)
                      \/ \E s \in Sockets : Subscribe(c, s)
                      \/ \E x \in Room : HandleSubscribe(c, x)
  \/ \E s \in Sockets : \/ SubscribeEarly(s) \/ HandleDisconnect(s)
                        \/ \E x \in Room : HandleUnsubscribe(s, x)
  \/ Tick \/ Crash

Spec == Init /\ [][Next]_vars

-----------------------------------------------------------------------------

\* What an administrator decided holds: a key is in the table, active and scoped as the last
\* update, revoke or delete left it, and a deleted one leaves nothing in pendingUsage, unless
\* that write overlapped a call that had read the key before (validateApiKey and update save
\* the whole entity they read).
ChangeHolds ==
  \A k \in Keys \ crossed :
    IF decided[k] = None THEN row[k] = None /\ pending[k] = 0
                         ELSE row[k] # None /\ Decision(row[k]) = decided[k]

\* The count in the row and the pending uses make up the uses, unless a write of the key
\* overlapped another call that held it; a revoke or a restart drops what is pending.
UsageExact == \A k \in Keys \ raced : row[k] # None => row[k].used + pending[k] = tally[k]

\* Whatever overlaps, no use is counted twice.
NeverOvercounts == \A k \in Keys : row[k] # None => row[k].used + pending[k] <= tally[k]

\* A socket joins a room only if the last decision on its key lets the key see every session
\* of that room, unless a call crossed that decision.
JoinsWithinDecision ==
  [][\A s \in Sockets : \A x \in rooms'[s] \ rooms[s] :
       \/ auth[s] \in crossed
       \/ /\ decided[auth[s]] # None
          /\ decided[auth[s]].active
          /\ decided[auth[s]].scope = {} \/ x \in decided[auth[s]].scope]_vars

\* The state is of its type, and uses are counted as these say.
Consistent == TypeOK /\ UsageExact /\ NeverOvercounts

=============================================================================
