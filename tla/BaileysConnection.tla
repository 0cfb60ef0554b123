------------------------- MODULE BaileysConnection -------------------------
(***************************************************************************)
(* The connection of a Baileys session (baileys.adapter.ts): the connect   *)
(* of an adapter with its three awaits, the updates of its socket, its own *)
(* reconnects with their timer and their budget, disconnect and destroy at *)
(* any moment of these, and the auth directory that the successive         *)
(* adapters of the session share, with its wipe after a logged-out close.  *)
(* SessionService makes an adapter only once it has told the one before to *)
(* stop.  Sockets, the phone and the file system are external.             *)
(***************************************************************************)
EXTENDS Integers, FiniteSets

CONSTANTS
  Launches,     \* bound: adapters the session gets, one after the other
  Sockets, NoSocket,
  Links,        \* bound: pairings with the phone, each its own credentials
  NoLink,
  MaxReconnects \* MAX_RECONNECT_ATTEMPTS

ASSUME ConnectionAssumption ==
  /\ Launches \in Nat \ {0} /\ MaxReconnects \in Nat
  /\ NoSocket \notin Sockets /\ NoLink \notin Links

VARIABLES
  adapter,  \* the fields of each adapter
  socket,   \* the sockets, of which an ended one may serve again
  dir,      \* the credentials in the auth directory
  paired,   \* links made so far
  revoked,  \* links the phone has removed
  wipes,    \* removals of the directory under way
  told,     \* links an adapter saw logged out (history)
  unwiped   \* a removal failed (history)

vars == <<adapter, socket, dir, paired, revoked, wipes, told, unwiped>>

Adapters == 1..Launches
Status == {"disconnected", "initializing", "qr", "ready", "failed"}

\* at: where its connect awaits.  creds: what connect read.  render: the socket whose QR is
\* being rendered.  History: tries, sockets made since one was open; spent, the reconnects
\* are exhausted; late, a QR came out after its socket had moved on.
Adapter == [up: BOOLEAN, status: Status, stop: BOOLEAN, at: {"idle", "loading", "fetching"},
            creds: Links \union {NoLink}, attempts: 0..MaxReconnects, timer: BOOLEAN,
            sock: Sockets \union {NoSocket}, render: Sockets \union {NoSocket},
            tries: Nat, everOpen: BOOLEAN, spent: BOOLEAN, late: BOOLEAN]
\* paired: it got its credentials, and the server will close it to have it restarted.
Socket == [state: {"ended", "connecting", "paired", "open"}, by: Adapters,
           creds: Links \union {NoLink}]
Live(s) == socket[s].state # "ended"

TypeOK ==
  /\ adapter \in [Adapters -> Adapter]
  /\ socket \in [Sockets -> Socket]
  /\ dir \in Links \union {NoLink}
  /\ paired \subseteq Links /\ revoked \subseteq paired /\ told \subseteq revoked
  /\ wipes \subseteq [by: Adapters, seen: Links \union {NoLink}]
  /\ unwiped \in BOOLEAN

Fresh == [up |-> FALSE, status |-> "disconnected", stop |-> FALSE, at |-> "idle",
          creds |-> NoLink, attempts |-> 0, timer |-> FALSE, sock |-> NoSocket,
          render |-> NoSocket, tries |-> 0, everOpen |-> FALSE, spent |-> FALSE, late |-> FALSE]

Init ==
  /\ adapter = [n \in Adapters |-> Fresh]
  /\ socket = [s \in Sockets |-> [state |-> "ended", by |-> 1, creds |-> NoLink]]
  /\ dir = NoLink /\ paired = {} /\ revoked = {} /\ wipes = {} /\ told = {} /\ unwiped = FALSE

-----------------------------------------------------------------------------
\* connect, unless one is under way: the head of connectInner.
Connecting(a) ==
  IF a.at # "idle" THEN a ELSE [a EXCEPT !.status = "initializing", !.at = "loading"]

Initialize(n) ==
  /\ ~adapter[n].up
  /\ n > 1 => adapter[n - 1].stop
  /\ adapter' = [adapter EXCEPT ![n] = [Connecting(@) EXCEPT !.up = TRUE]]
  /\ UNCHANGED <<socket, dir, paired, revoked, wipes, told, unwiped>>

\* useMultiFileAuthState reads the directory.
LoadCreds(n) ==
  /\ adapter[n].at = "loading"
  /\ adapter' = [adapter EXCEPT ![n].at = "fetching", ![n].creds = dir]
  /\ UNCHANGED <<socket, dir, paired, revoked, wipes, told, unwiped>>

\* The rest of connectInner: nothing for an adapter that was stopped meanwhile, else the
\* socket before is ended and a new one made.  An id serves again once nothing refers to it.
Free(s, n) ==
  /\ ~Live(s)
  /\ \A m \in Adapters : adapter[m].render # s /\ (m # n => adapter[m].sock # s)

NewSocket(n) ==
  LET a == adapter[n]
      s == CHOOSE t \in Sockets : Free(t, n)
  IN
  /\ \E t \in Sockets : Free(t, n)
  /\ adapter' = [adapter EXCEPT ![n].at = "idle", ![n].sock = s, ![n].tries = @ + 1]
  /\ socket' = [t \in Sockets |->
       IF t = s THEN [state |-> "connecting", by |-> n, creds |-> a.creds]
       ELSE IF t = a.sock THEN [socket[t] EXCEPT !.state = "ended"] ELSE socket[t]]

\* Variant: it does not look again after its awaits.
ConnectInnerUnguarded(n) ==
  /\ adapter[n].at = "fetching"
  /\ NewSocket(n)
  /\ UNCHANGED <<dir, paired, revoked, wipes, told, unwiped>>
ConnectInner(n) ==
  /\ adapter[n].at = "fetching"
  /\ \/ /\ adapter[n].stop
        /\ adapter' = [adapter EXCEPT ![n].at = "idle"]
        /\ UNCHANGED socket
     \/ /\ ~adapter[n].stop
        /\ NewSocket(n)
  /\ UNCHANGED <<dir, paired, revoked, wipes, told, unwiped>>

\* One of the awaits rejects; initialize and the timer both end in FAILED, stopped or not.
ConnectFails(n) ==
  /\ adapter[n].at # "idle"
  /\ adapter' = [adapter EXCEPT ![n].at = "idle", ![n].status = "failed"]
  /\ UNCHANGED <<socket, dir, paired, revoked, wipes, told, unwiped>>

-----------------------------------------------------------------------------
\* handleConnectionUpdate.  The listeners are those of the adapter that made the socket.
Owner(s) == adapter[socket[s].by]
Update(s, a) == adapter' = [adapter EXCEPT ![socket[s].by] = a]

SocketConnecting(s) ==
  /\ socket[s].state = "connecting"
  /\ Update(s, [Owner(s) EXCEPT !.status = "initializing"])
  /\ UNCHANGED <<socket, dir, paired, revoked, wipes, told, unwiped>>

\* A socket without credentials asks for a pairing; handleQrCode starts to render it.
QrReceived(s) ==
  /\ socket[s].state = "connecting" /\ socket[s].creds = NoLink
  /\ Owner(s).render = NoSocket
  /\ Update(s, [Owner(s) EXCEPT !.render = s])
  /\ UNCHANGED <<socket, dir, paired, revoked, wipes, told, unwiped>>

\* The rest of handleQrCode publishes it, or the rendering fails.
HandleQrCode(n) ==
  LET a == adapter[n] IN
  /\ a.render # NoSocket
  /\ \/ adapter' = [adapter EXCEPT ![n].render = NoSocket, ![n].status = "qr",
                                   ![n].late = @ \/ a.stop \/ socket[a.render].state # "connecting"]
     \/ adapter' = [adapter EXCEPT ![n].render = NoSocket]
  /\ UNCHANGED <<socket, dir, paired, revoked, wipes, told, unwiped>>

\* The QR is scanned: creds.update saves the credentials of the new link.
Pair(s) ==
  LET l == CHOOSE m \in Links \ paired : TRUE IN
  /\ socket[s].state = "connecting" /\ socket[s].creds = NoLink
  /\ paired # Links
  /\ socket' = [socket EXCEPT ![s].state = "paired", ![s].creds = l]
  /\ dir' = l
  /\ paired' = paired \union {l}
  /\ UNCHANGED <<adapter, revoked, wipes, told, unwiped>>

\* Variant: a reconnect that succeeds does not restore the budget.
OpenKeepsAttempts(s) ==
  /\ socket[s].state = "connecting"
  /\ socket[s].creds \in Links \ revoked
  /\ socket' = [socket EXCEPT ![s].state = "open"]
  /\ Update(s, [Owner(s) EXCEPT !.status = "ready", !.tries = 0, !.everOpen = TRUE])
  /\ UNCHANGED <<dir, paired, revoked, wipes, told, unwiped>>
SocketOpen(s) ==
  /\ socket[s].state = "connecting"
  /\ socket[s].creds \in Links \ revoked
  /\ socket' = [socket EXCEPT ![s].state = "open"]
  /\ Update(s, [Owner(s) EXCEPT !.status = "ready", !.attempts = 0, !.tries = 0, !.everOpen = TRUE])
  /\ UNCHANGED <<dir, paired, revoked, wipes, told, unwiped>>

\* The user removes the linked device on the phone.
Revoke(l) ==
  /\ l \notin revoked /\ \E s \in Sockets : Live(s) /\ socket[s].creds = l
  /\ revoked' = revoked \union {l}
  /\ UNCHANGED <<adapter, socket, dir, paired, wipes, told, unwiped>>

\* A close for good: the link is gone.
Ended(s) == socket' = [socket EXCEPT ![s].state = "ended"]
LoggedOut(a) == [a EXCEPT !.status = "disconnected", !.sock = NoSocket]
CloseLoggedOut(s) ==
  /\ Live(s) /\ socket[s].creds \in revoked
  /\ Ended(s)
  /\ Update(s, LoggedOut(Owner(s)))
  /\ wipes' = wipes \union {[by |-> socket[s].by, seen |-> dir]}
  /\ told' = told \union {socket[s].creds}
  /\ UNCHANGED <<dir, paired, revoked, unwiped>>

\* Any other close: a reconnect is due after the backoff, as long as the budget lasts.
Exhausted(a) == a.attempts >= MaxReconnects

\* Variant: the attempts stand for the pending timer.
DroppedOnce(a) ==
  IF Exhausted(a) THEN [a EXCEPT !.status = "failed", !.spent = TRUE]
  ELSE [a EXCEPT !.attempts = @ + 1, !.timer = (a.attempts = 0)]
Dropped(a) ==
  IF Exhausted(a) THEN [a EXCEPT !.status = "failed", !.spent = TRUE]
  ELSE [a EXCEPT !.attempts = @ + 1, !.timer = TRUE]

\* Variant: every close wipes the directory.
CloseTransientWipes(s) ==
  /\ Live(s)
  /\ Ended(s)
  /\ Update(s, Dropped(Owner(s)))
  /\ wipes' = wipes \union {[by |-> socket[s].by, seen |-> dir]}
  /\ UNCHANGED <<dir, paired, revoked, told, unwiped>>
CloseTransient(s) ==
  /\ Live(s)
  /\ Ended(s)
  /\ Update(s, Dropped(Owner(s)))
  /\ UNCHANGED <<dir, paired, revoked, wipes, told, unwiped>>

\* The reconnect timer fires.
Fire(a) == IF a.stop THEN [a EXCEPT !.timer = FALSE] ELSE [Connecting(a) EXCEPT !.timer = FALSE]
ReconnectTimer(n) ==
  /\ adapter[n].timer
  /\ adapter' = [adapter EXCEPT ![n] = Fire(@)]
  /\ UNCHANGED <<socket, dir, paired, revoked, wipes, told, unwiped>>

-----------------------------------------------------------------------------
\* clearAuthState: the removal ends, or fails.
ClearAuthState(w) ==
  /\ wipes' = wipes \ {w}
  /\ \/ dir' = NoLink /\ UNCHANGED unwiped
     \/ unwiped' = TRUE /\ UNCHANGED dir
  /\ UNCHANGED <<adapter, socket, paired, revoked, told>>

\* disconnect, destroy and forceDestroy.
Stopped(a) == [a EXCEPT !.stop = TRUE, !.timer = FALSE, !.sock = NoSocket, !.status = "disconnected"]
Disconnect(n) ==
  /\ adapter[n].up /\ ~adapter[n].stop
  /\ adapter' = [adapter EXCEPT ![n] = Stopped(@)]
  /\ socket' = [s \in Sockets |-> IF s = adapter[n].sock THEN [socket[s] EXCEPT !.state = "ended"]
                                                         ELSE socket[s]]
  /\ UNCHANGED <<dir, paired, revoked, wipes, told, unwiped>>

-----------------------------------------------------------------------------
ConnectStep(n) == LoadCreds(n) \/ ConnectInner(n) \/ ConnectFails(n)
SocketStep(s) ==
  \/ SocketConnecting(s) \/ QrReceived(s) \/ SocketOpen(s)
  \/ CloseLoggedOut(s) \/ CloseTransient(s) \/ Pair(s)
\* What becomes of a socket that connects.
Outcome(s) == socket[s].state # "open" /\ (SocketOpen(s) \/ CloseLoggedOut(s) \/ CloseTransient(s))

Next ==
  \/ \E n \in Adapters : Initialize(n) \/ ConnectStep(n) \/ HandleQrCode(n) \/ ReconnectTimer(n) \/ Disconnect(n)
  \/ \E s \in Sockets : SocketStep(s)
  \/ \E l \in Links : Revoke(l)
  \/ \E w \in wipes : ClearAuthState(w)

Spec == Init /\ [][Next]_vars

\* Awaits settle, timers fire, and a socket that connects opens or is closed: Baileys gives
\* an attempt a time limit, and a pairing as many QRs.
FairSpec ==
  /\ Spec
  /\ \A n \in Adapters : WF_vars(ConnectStep(n)) /\ WF_vars(HandleQrCode(n)) /\ WF_vars(ReconnectTimer(n))
  /\ \A s \in Sockets : WF_vars(Outcome(s))

-----------------------------------------------------------------------------
\* There is never more than one live socket on the session's credentials, and it is the
\* one its adapter holds and has not been told to drop: no connect under way, and no timer,
\* brings a stopped session back beside its successor.
OneSocket ==
  \A s \in Sockets : Live(s) =>
    /\ ~Owner(s).stop /\ Owner(s).sock = s
    /\ \A t \in Sockets \ {s} : ~Live(t)

\* An adapter that neither was stopped, failed nor was logged out has something that will
\* bring it on: a live socket, a connect under way or a pending timer.
NotStuck ==
  \A n \in Adapters :
    LET a == adapter[n] IN
    a.up /\ ~a.stop /\ ~a.late /\ a.status \notin {"failed", "disconnected"}
      => \/ a.sock # NoSocket /\ Live(a.sock)
         \/ a.at # "idle" \/ a.timer

\* READY is the status of an open socket, or of the backoff after it dropped; and an open
\* socket is READY, unless a QR of before came out late.
ReadyHonest ==
  \A n \in Adapters :
    LET a == adapter[n]
        open == a.sock # NoSocket /\ socket[a.sock].state = "open"
    IN  /\ a.status = "ready" => ~a.stop /\ (open \/ a.timer)
        /\ open => a.status = "ready" \/ a.late

\* An adapter gives up after exactly the reconnects it is allowed since its socket was last
\* open (and the first connect, when none ever was).
ExactBudget ==
  \A n \in Adapters :
    LET a == adapter[n]
        allowed == IF a.everOpen THEN MaxReconnects ELSE MaxReconnects + 1
    IN  a.tries <= allowed /\ (a.spent => a.tries = allowed)

\* Credentials that an adapter saw logged out do not stay in the directory, where the next
\* connect would retry them and never show a QR, unless the removal is under way or failed.
DeadCredsGo == dir \in told => wipes # {} \/ unwiped

\* A removal takes credentials of a living link only when they were paired after it was
\* asked for: a drop that is not a logout costs no link.
LivingCredsStay ==
  [][(dir \in Links \ revoked /\ dir' # dir) => (\E w \in wipes \ wipes' : w.seen # dir)]_vars

\* An adapter does not stay INITIALIZING for ever.
Settles == \A n \in Adapters : adapter[n].status = "initializing" ~> adapter[n].status # "initializing"

\* What an adapter shows and counts is true.
StatusHonest == TypeOK /\ NotStuck /\ ReadyHonest /\ ExactBudget

\* The credentials go when their link does, and only then.
CredentialsFollowLink == []DeadCredsGo /\ LivingCredsStay

=============================================================================
