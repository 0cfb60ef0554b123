---------------------------- MODULE EngineProofs ----------------------------
(***************************************************************************)
(* Theorems about the two halves of a Baileys session: its connection, for *)
(* any number of adapters, sockets, pairings and reconnects, and then its  *)
(* inbound messages (with those of whatsapp-web.js), for any messages and  *)
(* mixes of them, any lids and phones, any timestamps and any limits.      *)
(***************************************************************************)
EXTENDS BaileysConnection, Inbound,
        SequenceTheorems, FiniteSetTheorems, WellFoundedInduction, TLAPS

-----------------------------------------------------------------------------
\* The inductive invariant, in parts.

\* An adapter comes up once those before it were stopped, and is as new until then; stopped, it
\* has neither a timer nor a socket.
InTurn == \A n \in Adapters :
  /\ ~adapter[n].up => adapter[n] = Fresh
  /\ \A m \in Adapters : m < n /\ adapter[n].up => adapter[m].stop
  /\ adapter[n].stop => adapter[n].up /\ ~adapter[n].timer /\ adapter[n].sock = NoSocket

\* A live socket is the one its adapter holds, and a socket is held or rendered by the adapter
\* that made it.
Owned == \A s \in Sockets : Live(s) => ~Owner(s).stop /\ Owner(s).sock = s /\ Owner(s).up
Mine == \A n \in Adapters :
  /\ adapter[n].sock # NoSocket => socket[adapter[n].sock].by = n
  /\ adapter[n].render # NoSocket => socket[adapter[n].render].by = n

\* One thing at a time: a live socket, a connect, or a timer.
Alive(n) == adapter[n].sock # NoSocket /\ Live(adapter[n].sock)
OneThing == \A n \in Adapters :
  /\ ~(adapter[n].at # "idle" /\ adapter[n].timer)
  /\ Alive(n) => adapter[n].at = "idle" /\ ~adapter[n].timer

Turns == TypeOK /\ InTurn /\ Owned /\ Mine /\ OneThing

\* What an adapter shows and counts, by its fields and whether its socket lives and is open: a
\* live socket is one more try than reconnects were counted, a connect that is due will be.
Open(n) == adapter[n].sock # NoSocket /\ socket[adapter[n].sock].state = "open"
First(a) == IF a.everOpen THEN 0 ELSE 1
Fine(a, alive, open) ==
  /\ alive => a.tries = a.attempts + First(a) /\ ~a.spent
  /\ a.at # "idle" \/ a.timer => a.tries + 1 = a.attempts + First(a)
  /\ a.up /\ ~a.stop /\ ~a.late /\ a.status \notin {"failed", "disconnected"}
       => alive \/ a.at # "idle" \/ a.timer
  /\ a.status = "ready" => ~a.stop /\ (open \/ a.timer)
  /\ open => a.status = "ready" \/ a.late
  /\ a.tries <= MaxReconnects + First(a)
  /\ a.spent => a.tries = MaxReconnects + First(a)
AllFine == \A n \in Adapters : Fine(adapter[n], Alive(n), Open(n))

\* The directory has what the live socket, or the connect under way, has, or is wiped; and what
\* a wipe saw was revoked.
DirFollows ==
  /\ \A s \in Sockets : Live(s) => dir \in {socket[s].creds, NoLink}
  /\ \A n \in Adapters : adapter[n].at = "fetching" /\ ~adapter[n].stop => dir \in {adapter[n].creds, NoLink}
  /\ \A w \in wipes : w.seen \in revoked \union {NoLink}

\* No credentials but of links that were paired.
Known ==
  /\ dir \in paired \union {NoLink}
  /\ \A s \in Sockets : socket[s].creds \in paired \union {NoLink}
  /\ \A n \in Adapters : adapter[n].at = "fetching" => adapter[n].creds \in paired \union {NoLink}

Inv == Turns /\ AllFine /\ DirFollows /\ Known /\ DeadCredsGo

-----------------------------------------------------------------------------
\* What the actions do to adapters and sockets.

LEMMA OneUp ==
  ASSUME Turns, NEW n \in Adapters, NEW m \in Adapters,
         adapter[n].up, adapter[m].up, ~adapter[n].stop, ~adapter[m].stop
  PROVE n = m
  BY ConnectionAssumption DEF Turns, InTurn, Adapters

LEMMA TurnsGiveOneSocket == Turns => OneSocket
<1> SUFFICES ASSUME Turns, NEW s \in Sockets, Live(s)
             PROVE /\ ~Owner(s).stop /\ Owner(s).sock = s
                   /\ \A t \in Sockets \ {s} : ~Live(t)
  BY DEF OneSocket
<1>1. ASSUME NEW t \in Sockets, Live(t) PROVE t = s
  <2>1. socket[s].by \in Adapters /\ socket[t].by \in Adapters
    BY DEF Turns, TypeOK, Socket
  <2>2. socket[s].by = socket[t].by
    BY <1>1, <2>1, OneUp DEF Turns, Owned, Owner
  <2> QED BY <1>1, <2>2 DEF Turns, Owned, Owner
<1> QED BY <1>1 DEF Turns, Owned

\* A step of one adapter that leaves the sockets alone.
Alone(n, b) ==
  /\ adapter' = [adapter EXCEPT ![n] = b]
  /\ UNCHANGED <<socket, dir, paired, revoked, wipes, told, unwiped>>

\* Which keeps the turns if its new fields fit.
LEMMA AloneTurns ==
  ASSUME Turns, NEW n \in Adapters, NEW b \in Adapter, Alone(n, b),
         b.up,
         adapter[n].up \/ \A m \in Adapters : m < n => adapter[m].stop,
         b.stop = adapter[n].stop, b.sock = adapter[n].sock,
         b.render \in {NoSocket, adapter[n].render} \/ (b.render \in Sockets /\ socket[b.render].by = n),
         b.stop => ~b.timer,
         ~(b.at # "idle" /\ b.timer),
         Alive(n) => b.at = "idle" /\ ~b.timer
  PROVE /\ Turns'
        /\ adapter'[n] = b /\ \A m \in Adapters : m # n => adapter'[m] = adapter[m]
        /\ \A m \in Adapters : Alive(m)' <=> Alive(m)
        /\ \A s \in Sockets : Live(s)' <=> Live(s)
<1>1. adapter'[n] = b /\ (\A m \in Adapters : m # n => adapter'[m] = adapter[m]) /\ socket' = socket
  BY DEF Alone, Turns, TypeOK
<1>2. TypeOK'
  BY DEF Alone, Turns, TypeOK
<1>3. InTurn'
  <2>1. adapter[n].stop => adapter[n].up /\ ~adapter[n].timer /\ adapter[n].sock = NoSocket
    BY DEF Turns, InTurn
  <2>2. \A m \in Adapters : m < n => adapter[m].stop
    BY DEF Turns, InTurn
  <2>3. ~(n < n)
    BY ConnectionAssumption DEF Adapters
  <2> QED BY <1>1, <2>1, <2>2, <2>3 DEF Turns, InTurn
<1>4. \A s \in Sockets : socket[s].by \in Adapters
  BY DEF Turns, TypeOK, Socket
<1>5. Owned'
  BY <1>1, <1>4 DEF Turns, Owned, Owner, Live
<1>6. Mine'
  BY <1>1 DEF Turns, Mine
<1>7. /\ \A m \in Adapters : Alive(m)' <=> Alive(m)
      /\ \A s \in Sockets : Live(s)' <=> Live(s)
  BY <1>1 DEF Alive, Live
<1>8. OneThing'
  BY <1>1, <1>7 DEF Turns, OneThing
<1> QED BY <1>1, <1>2, <1>3, <1>5, <1>6, <1>7, <1>8 DEF Turns

\* And all is fine and the directory followed, if the adapter is fine and loads what is there.
LEMMA AloneKeeps ==
  ASSUME Inv, NEW n \in Adapters, NEW b \in Adapter, Alone(n, b), Turns',
         adapter'[n] = b, \A m \in Adapters : m # n => adapter'[m] = adapter[m],
         b.sock = adapter[n].sock,
         Fine(adapter[n], Alive(n), Open(n)) => Fine(b, Alive(n), Open(n)),
         b.at = "fetching" => b.creds = dir \/ (adapter[n].at = "fetching" /\ b.creds = adapter[n].creds
                                                /\ adapter[n].stop = b.stop)
  PROVE Inv'
<1>1. UNCHANGED <<socket, dir, paired, revoked, wipes, told, unwiped>>
  BY DEF Alone
<1>2. \A m \in Adapters : /\ Alive(m)' <=> Alive(m)
                          /\ Open(m)' <=> Open(m)
  BY <1>1 DEF Alive, Live, Open
<1>3. AllFine'
  <2>1. SUFFICES ASSUME NEW m \in Adapters PROVE Fine(adapter[m], Alive(m), Open(m))'
    BY DEF AllFine
  <2>2. Fine(adapter[m], Alive(m), Open(m)) /\ Fine(adapter[n], Alive(n), Open(n))
    BY DEF Inv, AllFine
  <2>3. Fine(adapter'[m], Alive(m), Open(m))
    BY <2>2
  <2> QED BY <1>2, <2>3 DEF Fine, First
<1>4. DirFollows'
  BY <1>1 DEF Inv, DirFollows, Live
<1>5. DeadCredsGo'
  BY <1>1 DEF Inv, DeadCredsGo
<1>6. Known'
  BY <1>1 DEF Inv, Known
<1> QED BY <1>3, <1>4, <1>5, <1>6 DEF Inv

LEMMA Initialized == ASSUME Inv, NEW n \in Adapters, Initialize(n) PROVE Inv'
<1> DEFINE b == [Connecting(adapter[n]) EXCEPT !.up = TRUE]
<1>1. Alone(n, b) /\ adapter[n] = Fresh /\ ~adapter[n].up
  BY DEF Initialize, Alone, Inv, Turns, InTurn
<1>2. b = [Fresh EXCEPT !.status = "initializing", !.at = "loading", !.up = TRUE]
  BY <1>1 DEF Connecting, Fresh
<1>3. /\ b.up /\ b.stop = FALSE /\ b.sock = NoSocket /\ b.render = NoSocket /\ ~b.timer
      /\ b.at = "loading" /\ b.attempts = 0 /\ b.tries = 0 /\ ~b.spent /\ ~b.everOpen
      /\ b.status = "initializing"
  BY <1>2 DEF Fresh
<1>a. b \in Adapter
  <2>1. Fresh \in Adapter
    <3>1. 0 \in 0..MaxReconnects
      BY ConnectionAssumption
    <3> QED BY <3>1 DEF Fresh, Adapter, Status
  <2> QED BY <1>2, <2>1 DEF Adapter, Status
<1>4. adapter[n].sock = NoSocket /\ adapter[n].stop = FALSE /\ ~Alive(n) /\ ~Open(n)
  BY <1>1 DEF Fresh, Alive, Open
<1>5. \A m \in Adapters : m < n => adapter[m].stop
  <2>1. SUFFICES ASSUME NEW m \in Adapters, m < n PROVE adapter[m].stop
    OBVIOUS
  <2>2. n > 1 /\ n - 1 \in Adapters /\ adapter[n - 1].stop /\ (m = n - 1 \/ m < n - 1)
    BY <2>1, ConnectionAssumption DEF Initialize, Adapters
  <2>3. adapter[n - 1].up
    BY <2>2 DEF Inv, Turns, InTurn
  <2> QED BY <2>1, <2>2, <2>3 DEF Inv, Turns, InTurn
<1> HIDE DEF b
<1>6. /\ Turns' /\ adapter'[n] = b /\ \A m \in Adapters : m # n => adapter'[m] = adapter[m]
  BY <1>1, <1>3, <1>a, <1>4, <1>5, AloneTurns DEF Inv
<1>7. Fine(b, Alive(n), Open(n))
  BY <1>3, <1>4, ConnectionAssumption DEF Fine, First
<1> QED BY <1>1, <1>3, <1>a, <1>4, <1>6, <1>7, AloneKeeps

\* Whoever does something is up, and its fields are of their types.
LEMMA Busy ==
  ASSUME Turns, NEW n \in Adapters,
         adapter[n].at # "idle" \/ adapter[n].timer \/ adapter[n].render # NoSocket \/ adapter[n].stop
  PROVE adapter[n].up /\ adapter[n] \in Adapter
  BY DEF Turns, InTurn, TypeOK, Fresh

\* The steps of an adapter that leaves its budget and what it counts alone.
LEMMA SameCount ==
  ASSUME Inv, NEW n \in Adapters, NEW b \in Adapter, Alone(n, b),
         adapter[n].up, b.up,
         b.stop = adapter[n].stop, b.sock = adapter[n].sock,
         b.attempts = adapter[n].attempts, b.tries = adapter[n].tries,
         b.everOpen = adapter[n].everOpen, b.spent = adapter[n].spent,
         b.render \in {NoSocket, adapter[n].render} \/ (b.render \in Sockets /\ socket[b.render].by = n),
         b.stop => ~b.timer,
         ~(b.at # "idle" /\ b.timer),
         b.at # "idle" \/ b.timer => adapter[n].at # "idle" \/ adapter[n].timer,
         ~b.stop /\ ~b.late /\ b.status \notin {"failed", "disconnected"}
           => Alive(n) \/ b.at # "idle" \/ b.timer,
         b.status = "ready" => ~b.stop /\ (Open(n) \/ b.timer),
         Open(n) => b.status = "ready" \/ b.late,
         b.at = "fetching" => b.creds = dir \/ (adapter[n].at = "fetching" /\ b.creds = adapter[n].creds)
  PROVE Inv'
<1>1. /\ Turns /\ Fine(adapter[n], Alive(n), Open(n))
      /\ adapter[n] \in Adapter
      /\ Alive(n) => adapter[n].at = "idle" /\ ~adapter[n].timer
  BY DEF Inv, AllFine, Turns, OneThing, TypeOK
<1>2. Alive(n) => b.at = "idle" /\ ~b.timer
  BY <1>1
<1>3. Turns' /\ adapter'[n] = b /\ \A m \in Adapters : m # n => adapter'[m] = adapter[m]
  BY <1>1, <1>2, AloneTurns
<1>4. Fine(b, Alive(n), Open(n))
  BY <1>1 DEF Fine, First
<1> QED BY <1>1, <1>3, <1>4, AloneKeeps

\* What is up and does not live has nothing open.
LEMMA OpenLives == \A n \in Adapters : Open(n) => Alive(n)
  BY DEF Open, Alive, Live

LEMMA Loaded == ASSUME Inv, NEW n \in Adapters, LoadCreds(n) PROVE Inv'
<1> DEFINE a == adapter[n]
           b == [a EXCEPT !.at = "fetching", !.creds = dir]
<1>1. Alone(n, b) /\ a.at = "loading"
  BY DEF LoadCreds, Alone, Inv, Turns, TypeOK
<1>2. a \in Adapter /\ a.up /\ dir \in Links \union {NoLink} /\ Fine(a, Alive(n), Open(n)) /\ (a.stop => ~a.timer)
      /\ ~a.timer /\ ~Alive(n) /\ ~Open(n)
  BY <1>1, Busy, OpenLives DEF Inv, AllFine, Turns, TypeOK, InTurn, OneThing
<1>3. /\ b.up = a.up /\ b.status = a.status /\ b.stop = a.stop /\ b.attempts = a.attempts /\ b.timer = a.timer
      /\ b.sock = a.sock /\ b.render = a.render /\ b.tries = a.tries /\ b.everOpen = a.everOpen
      /\ b.spent = a.spent /\ b.late = a.late /\ b.at = "fetching" /\ b.creds = dir /\ b \in Adapter
  BY <1>2 DEF Adapter
<1> HIDE DEF b
<1> QED BY <1>1, <1>2, <1>3, SameCount DEF Fine

LEMMA Failed == ASSUME Inv, NEW n \in Adapters, ConnectFails(n) PROVE Inv'
<1> DEFINE a == adapter[n]
           b == [a EXCEPT !.at = "idle", !.status = "failed"]
<1>1. Alone(n, b) /\ a.at # "idle"
  BY DEF ConnectFails, Alone, Inv, Turns, TypeOK
<1>2. a \in Adapter /\ a.up /\ Fine(a, Alive(n), Open(n)) /\ ~a.timer /\ ~Alive(n) /\ ~Open(n)
  BY <1>1, Busy, OpenLives DEF Inv, AllFine, Turns, OneThing
<1>3. /\ b.up = a.up /\ b.status = "failed" /\ b.stop = a.stop /\ b.attempts = a.attempts /\ b.timer = a.timer
      /\ b.sock = a.sock /\ b.render = a.render /\ b.tries = a.tries /\ b.everOpen = a.everOpen
      /\ b.spent = a.spent /\ b.late = a.late /\ b.at = "idle" /\ b.creds = a.creds /\ b \in Adapter
  BY <1>2 DEF Adapter, Status
<1> HIDE DEF b
<1> QED BY <1>1, <1>2, <1>3, SameCount

LEMMA Aborted == ASSUME Inv, NEW n \in Adapters, adapter[n].at = "fetching", adapter[n].stop,
                        Alone(n, [adapter[n] EXCEPT !.at = "idle"])
                 PROVE Inv'
<1> DEFINE a == adapter[n]
           b == [a EXCEPT !.at = "idle"]
<1>1. Alone(n, b)
  OBVIOUS
<1>2. a \in Adapter /\ a.up /\ Fine(a, Alive(n), Open(n)) /\ ~a.timer /\ ~Alive(n) /\ ~Open(n)
  BY Busy, OpenLives DEF Inv, AllFine, Turns, OneThing
<1>3. /\ b.up = a.up /\ b.status = a.status /\ b.stop = a.stop /\ b.attempts = a.attempts /\ b.timer = a.timer
      /\ b.sock = a.sock /\ b.render = a.render /\ b.tries = a.tries /\ b.everOpen = a.everOpen
      /\ b.spent = a.spent /\ b.late = a.late /\ b.at = "idle" /\ b.creds = a.creds /\ b \in Adapter
  BY <1>2 DEF Adapter
<1> HIDE DEF b
<1> QED BY <1>1, <1>2, <1>3, SameCount DEF Fine

\* The adapter of a socket that lives is up, and holds it.
LEMMA Owners ==
  ASSUME Inv, NEW s \in Sockets, Live(s)
  PROVE LET n == socket[s].by IN
        /\ n \in Adapters /\ adapter[n] = Owner(s) /\ adapter[n] \in Adapter
        /\ adapter[n].up /\ ~adapter[n].stop /\ adapter[n].sock = s /\ Alive(n)
        /\ adapter[n].at = "idle" /\ ~adapter[n].timer
        /\ Fine(adapter[n], Alive(n), Open(n))
        /\ socket[s].creds \in Links \union {NoLink}
<1> DEFINE n == socket[s].by
<1>1. n \in Adapters /\ adapter[n] = Owner(s) /\ socket[s].creds \in Links \union {NoLink}
  BY DEF Inv, Turns, TypeOK, Socket, Owner
<1>2. adapter[n] \in Adapter /\ adapter[n].up /\ ~adapter[n].stop /\ adapter[n].sock = s
  BY <1>1 DEF Inv, Turns, TypeOK, Owned
<1>3. Alive(n)
  BY <1>2, ConnectionAssumption DEF Alive
<1>4. adapter[n].at = "idle" /\ ~adapter[n].timer /\ Fine(adapter[n], Alive(n), Open(n))
  BY <1>1, <1>3 DEF Inv, Turns, OneThing, AllFine
<1> QED BY <1>1, <1>2, <1>3, <1>4

LEMMA Connects == ASSUME Inv, NEW s \in Sockets, SocketConnecting(s) PROVE Inv'
<1> DEFINE n == socket[s].by
           a == adapter[n]
           b == [a EXCEPT !.status = "initializing"]
<1>1. socket[s].state = "connecting" /\ Live(s) /\ Alone(n, b)
  BY DEF SocketConnecting, Live, Alone, Update, Owner
<1>2. /\ n \in Adapters /\ a \in Adapter /\ a.up /\ ~a.stop /\ a.sock = s /\ Alive(n) /\ ~Open(n)
      /\ a.at = "idle" /\ ~a.timer
  BY <1>1, Owners DEF Open
<1>3. /\ b.up = a.up /\ b.status = "initializing" /\ b.stop = a.stop /\ b.attempts = a.attempts /\ b.timer = a.timer
      /\ b.sock = a.sock /\ b.render = a.render /\ b.tries = a.tries /\ b.everOpen = a.everOpen
      /\ b.spent = a.spent /\ b.late = a.late /\ b.at = a.at /\ b.creds = a.creds /\ b \in Adapter
  BY <1>2 DEF Adapter, Status
<1> HIDE DEF b, n
<1> QED BY <1>1, <1>2, <1>3, SameCount

LEMMA QrCame == ASSUME Inv, NEW s \in Sockets, QrReceived(s) PROVE Inv'
<1> DEFINE n == socket[s].by
           a == adapter[n]
           b == [a EXCEPT !.render = s]
<1>1. socket[s].state = "connecting" /\ Live(s) /\ Alone(n, b)
  BY DEF QrReceived, Live, Alone, Update, Owner
<1>2. /\ n \in Adapters /\ a \in Adapter /\ a.up /\ ~a.stop /\ a.sock = s /\ Alive(n) /\ ~Open(n)
      /\ a.at = "idle" /\ ~a.timer /\ Fine(a, Alive(n), Open(n))
  BY <1>1, Owners DEF Open
<1>3. /\ b.up = a.up /\ b.status = a.status /\ b.stop = a.stop /\ b.attempts = a.attempts /\ b.timer = a.timer
      /\ b.sock = a.sock /\ b.render = s /\ b.tries = a.tries /\ b.everOpen = a.everOpen
      /\ b.spent = a.spent /\ b.late = a.late /\ b.at = a.at /\ b.creds = a.creds /\ b \in Adapter
  BY <1>2 DEF Adapter
<1>4. socket[s].by = n
  OBVIOUS
<1> HIDE DEF b, n
<1> QED BY <1>1, <1>2, <1>3, <1>4, SameCount DEF Fine

LEMMA QrHandled == ASSUME Inv, NEW n \in Adapters, HandleQrCode(n) PROVE Inv'
<1> DEFINE a == adapter[n]
           late == a.late \/ a.stop \/ socket[a.render].state # "connecting"
           b == [a EXCEPT !.render = NoSocket, !.status = "qr", !.late = late]
           c == [a EXCEPT !.render = NoSocket]
<1>1. a.render # NoSocket /\ (Alone(n, b) \/ Alone(n, c))
  BY DEF HandleQrCode, Alone
<1>2. /\ a \in Adapter /\ a.up /\ Fine(a, Alive(n), Open(n)) /\ late \in BOOLEAN
      /\ a.stop => ~a.timer
      /\ ~(a.at # "idle" /\ a.timer)
      /\ a.render \in Sockets /\ socket[a.render].by = n
  BY <1>1, Busy DEF Inv, AllFine, Turns, OneThing, InTurn, Mine, Adapter
<1>3. CASE Alone(n, c)
  <2>1. /\ c.up = a.up /\ c.status = a.status /\ c.stop = a.stop /\ c.attempts = a.attempts /\ c.timer = a.timer
        /\ c.sock = a.sock /\ c.render = NoSocket /\ c.tries = a.tries /\ c.everOpen = a.everOpen
        /\ c.spent = a.spent /\ c.late = a.late /\ c.at = a.at /\ c.creds = a.creds /\ c \in Adapter
    BY <1>2 DEF Adapter
  <2> HIDE DEF b, c, late
  <2> QED BY <1>2, <1>3, <2>1, SameCount DEF Fine
<1>4. CASE Alone(n, b)
  <2>1. /\ b.up = a.up /\ b.status = "qr" /\ b.stop = a.stop /\ b.attempts = a.attempts /\ b.timer = a.timer
        /\ b.sock = a.sock /\ b.render = NoSocket /\ b.tries = a.tries /\ b.everOpen = a.everOpen
        /\ b.spent = a.spent /\ b.late = late /\ b.at = a.at /\ b.creds = a.creds /\ b \in Adapter
    BY <1>2 DEF Adapter, Status
  <2>2. ~late => Alive(n) /\ ~Open(n)
    <3>1. SUFFICES ASSUME ~late PROVE Alive(n) /\ ~Open(n)
      OBVIOUS
    <3>2. socket[a.render].state = "connecting" /\ Live(a.render)
      BY <3>1 DEF Live
    <3>3. a.sock = a.render
      BY <1>2, <3>2, Owners
    <3> QED BY <1>1, <3>2, <3>3 DEF Alive, Open
  <2> HIDE DEF b, c, late
  <2> QED BY <1>2, <1>4, <2>1, <2>2, SameCount
<1> QED BY <1>1, <1>3, <1>4

LEMMA Fired == ASSUME Inv, NEW n \in Adapters, ReconnectTimer(n) PROVE Inv'
<1> DEFINE a == adapter[n]
           b == [a EXCEPT !.status = "initializing", !.at = "loading", !.timer = FALSE]
<1>1. a.timer /\ adapter' = [adapter EXCEPT ![n] = Fire(adapter[n])]
      /\ UNCHANGED <<socket, dir, paired, revoked, wipes, told, unwiped>>
  BY DEF ReconnectTimer
<1>2. /\ a \in Adapter /\ a.up /\ ~a.stop /\ Fine(a, Alive(n), Open(n)) /\ a.at = "idle" /\ ~Alive(n) /\ ~Open(n)
  BY <1>1, Busy, OpenLives DEF Inv, AllFine, Turns, OneThing, InTurn, Adapter
<1>3. /\ b.up = a.up /\ b.status = "initializing" /\ b.stop = a.stop /\ b.attempts = a.attempts /\ ~b.timer
      /\ b.sock = a.sock /\ b.render = a.render /\ b.tries = a.tries /\ b.everOpen = a.everOpen
      /\ b.spent = a.spent /\ b.late = a.late /\ b.at = "loading" /\ b.creds = a.creds /\ b \in Adapter
  BY <1>2 DEF Adapter, Status
<1>4. Fire(adapter[n]) = b
  BY <1>2 DEF Fire, Connecting, Adapter
<1>5. Alone(n, b)
  BY <1>1, <1>4 DEF Alone
<1> HIDE DEF b
<1> QED BY <1>1, <1>2, <1>3, <1>5, SameCount

\* Sockets change only as far as they are n's, or of nobody.
Touches(n, b) ==
  \A t \in Sockets :
    /\ \/ socket'[t] = socket[t]
       \/ ~Live(t)' /\ socket'[t].by = socket[t].by
       \/ socket'[t].by = n
    /\ Live(t)' /\ socket'[t].by = n => b.sock = t /\ ~b.stop
    /\ socket'[t].by # socket[t].by => \A m \in Adapters : adapter[m].render # t /\ (m # n => adapter[m].sock # t)
    /\ socket'[t] # socket[t] /\ Live(t) => socket[t].by = n

Others(n) == \A m \in Adapters : m # n => Fine(adapter[m], Alive(m), Open(m))

\* A step of adapter n and of sockets that are its own, or that nobody refers to: what of the
\* turns and of the others it keeps.
LEMMA Moved ==
  ASSUME Inv, NEW n \in Adapters, NEW b \in Adapter,
         adapter' = [adapter EXCEPT ![n] = b], socket' \in [Sockets -> Socket],
         TypeOK',
         adapter[n].up, b.up, adapter[n].stop => b.stop,
         b.stop => ~b.timer /\ b.sock = NoSocket,
         b.sock # NoSocket => b.sock \in Sockets /\ socket'[b.sock].by = n,
         b.render \in {NoSocket, adapter[n].render},
         ~(b.at # "idle" /\ b.timer),
         Alive(n)' => b.at = "idle" /\ ~b.timer,
         Touches(n, b)
  PROVE /\ Turns'
        /\ adapter'[n] = b /\ \A m \in Adapters : m # n => adapter'[m] = adapter[m]
        /\ Others(n)'
<1>1. adapter'[n] = b /\ \A m \in Adapters : m # n => adapter'[m] = adapter[m]
  BY DEF Inv, Turns, TypeOK
<1>2. InTurn'
  <2>1. ~(n < n)
    BY ConnectionAssumption DEF Adapters
  <2> QED BY <1>1, <2>1 DEF Inv, Turns, InTurn
<1>3. \A t \in Sockets : socket'[t].by \in Adapters /\ socket[t].by \in Adapters
  BY DEF Socket, Inv, Turns, TypeOK
<1>4. Owned'
  <2>1. SUFFICES ASSUME NEW t \in Sockets, Live(t)'
                 PROVE LET m == socket'[t].by IN ~adapter'[m].stop /\ adapter'[m].sock = t /\ adapter'[m].up
    BY DEF Owned, Owner
  <2>2. CASE socket'[t].by = n
    BY <1>1, <2>1, <2>2 DEF Touches
  <2>3. CASE socket'[t].by # n
    <3>1. socket'[t] = socket[t] /\ Live(t)
      BY <2>1, <2>3 DEF Live, Touches
    <3> QED BY <1>1, <1>3, <2>3, <3>1 DEF Inv, Turns, Owned, Owner
  <2> QED BY <2>2, <2>3
<1>5. Mine'
  <2>1. \A m \in Adapters : /\ adapter[m].sock # NoSocket => adapter[m].sock \in Sockets
                            /\ adapter[m].render # NoSocket => adapter[m].render \in Sockets
    BY DEF Inv, Turns, TypeOK, Adapter
  <2> QED BY <1>1, <2>1 DEF Inv, Turns, Mine, Touches
<1>6. ASSUME NEW m \in Adapters, m # n
      PROVE /\ Alive(m)' <=> Alive(m)
            /\ Open(m)' <=> Open(m)
  <2>1. adapter'[m] = adapter[m]
    BY <1>1, <1>6
  <2>2. CASE adapter[m].sock = NoSocket
    BY <2>1, <2>2 DEF Alive, Open
  <2>3. CASE adapter[m].sock # NoSocket
    <3> DEFINE t == adapter[m].sock
    <3>1. t \in Sockets /\ socket[t].by = m /\ socket'[t].by = m
      BY <1>5, <2>1, <2>3 DEF Inv, Turns, TypeOK, Adapter, Mine
    <3>2. socket'[t] = socket[t] \/ (~Live(t)' /\ ~Live(t))
      BY <1>6, <3>1 DEF Touches
    <3> QED BY <2>1, <2>3, <3>2 DEF Alive, Open, Live
  <2> QED BY <2>2, <2>3
<1>7. OneThing'
  BY <1>1, <1>6 DEF Inv, Turns, OneThing
<1>8. Others(n)'
  <2>1. SUFFICES ASSUME NEW m \in Adapters, m # n PROVE Fine(adapter'[m], Alive(m)', Open(m)')
    BY DEF Others, Fine, First
  <2>2. Fine(adapter[m], Alive(m), Open(m))
    BY DEF Inv, AllFine
  <2> QED BY <1>1, <1>6, <2>1, <2>2 DEF Fine
<1> QED BY <1>1, <1>2, <1>4, <1>5, <1>7, <1>8 DEF Turns

LEMMA Made ==
  ASSUME Inv, NEW n \in Adapters, adapter[n].at = "fetching", ~adapter[n].stop, NewSocket(n),
         UNCHANGED <<dir, paired, revoked, wipes, told, unwiped>>
  PROVE Inv'
<1> DEFINE a == adapter[n]
<1>1. PICK s \in Sockets : Free(s, n) /\ s = CHOOSE t \in Sockets : Free(t, n)
  BY DEF NewSocket
<1> DEFINE b == [a EXCEPT !.at = "idle", !.sock = s, !.tries = @ + 1]
           q == [state |-> "connecting", by |-> n, creds |-> a.creds]
<1>2. adapter' = [adapter EXCEPT ![n] = b]
  BY <1>1 DEF NewSocket, Inv, Turns, TypeOK
<1>3. socket' = [t \in Sockets |-> IF t = s THEN q
                  ELSE IF t = a.sock THEN [socket[t] EXCEPT !.state = "ended"] ELSE socket[t]]
  BY <1>1 DEF NewSocket
<1>4. /\ a \in Adapter /\ a.up /\ Fine(a, Alive(n), Open(n)) /\ ~a.timer /\ ~Alive(n) /\ ~Open(n)
      /\ (a.sock # NoSocket => a.sock \in Sockets /\ socket[a.sock].by = n /\ ~Live(a.sock))
  BY Busy, OpenLives DEF Inv, AllFine, Turns, OneThing, Mine, Adapter, Alive
<1>5. /\ b.up = a.up /\ b.status = a.status /\ b.stop = a.stop /\ b.attempts = a.attempts /\ b.timer = a.timer
      /\ b.sock = s /\ b.render = a.render /\ b.tries = a.tries + 1 /\ b.everOpen = a.everOpen
      /\ b.spent = a.spent /\ b.late = a.late /\ b.at = "idle" /\ b.creds = a.creds /\ b \in Adapter
  <2>1. a.tries \in Nat /\ a.tries + 1 \in Nat
    BY <1>4 DEF Adapter
  <2>2. b \in Adapter
    BY <1>1, <1>4, <2>1 DEF Adapter
  <2> QED BY <1>4, <2>2 DEF Adapter
<1>6. /\ socket'[s] = q /\ q.state = "connecting" /\ q.by = n /\ q.creds = a.creds /\ q \in Socket
      /\ \A t \in Sockets : t # s =>
           \/ socket'[t] = socket[t]
           \/ t = a.sock /\ socket'[t].state = "ended" /\ socket'[t].by = socket[t].by /\ socket[t].by = n
      /\ socket' \in [Sockets -> Socket]
  <2>1. q \in Socket
    BY <1>4 DEF Socket, Adapter
  <2>2. \A t \in Sockets : [socket[t] EXCEPT !.state = "ended"] \in Socket
    BY DEF Socket, Inv, Turns, TypeOK
  <2>3. \A t \in Sockets : socket[t] \in Socket
    BY DEF Inv, Turns, TypeOK
  <2>4. \A t \in Sockets : [socket[t] EXCEPT !.state = "ended"].state = "ended"
                           /\ [socket[t] EXCEPT !.state = "ended"].by = socket[t].by
    BY <2>3 DEF Socket
  <2> HIDE DEF q
  <2>5. socket' \in [Sockets -> Socket]
    BY <1>3, <2>1, <2>2, <2>3
  <2>6. socket'[s] = q
    BY <1>1, <1>3
  <2>7. \A t \in Sockets : t # s =>
           \/ socket'[t] = socket[t]
           \/ t = a.sock /\ socket'[t].state = "ended" /\ socket'[t].by = socket[t].by /\ socket[t].by = n
    BY <1>3, <1>4, <2>4, ConnectionAssumption
  <2> QED BY <2>1, <2>5, <2>6, <2>7 DEF q
<1> HIDE DEF b, q
<1>7. TypeOK'
  BY <1>2, <1>5, <1>6 DEF Inv, Turns, TypeOK
<1>8. ~Live(s) /\ Live(s)' /\ \A m \in Adapters : adapter[m].render # s /\ (m # n => adapter[m].sock # s)
  BY <1>1, <1>6 DEF Free, Live
<1>9. \A t \in Sockets : Live(t)' /\ t # s => socket'[t] = socket[t] /\ Live(t) /\ socket[t].by # n
  <2>1. SUFFICES ASSUME NEW t \in Sockets, Live(t)', t # s
                 PROVE socket'[t] = socket[t] /\ Live(t) /\ socket[t].by # n
    OBVIOUS
  <2>2. socket'[t] = socket[t] /\ Live(t)
    BY <1>6, <2>1 DEF Live
  <2>3. socket[t].by = n => a.sock = t
    BY <2>2, Owners
  <2> QED BY <1>4, <2>2, <2>3, ConnectionAssumption
<1>10. adapter'[n] = b
  BY <1>2 DEF Inv, Turns, TypeOK
<1>11. Alive(n)' /\ ~Open(n)'
  <2>1. adapter'[n].sock = s /\ s # NoSocket
    BY <1>1, <1>5, <1>10, ConnectionAssumption
  <2>2. socket'[s].state = "connecting"
    BY <1>6
  <2> QED BY <2>1, <2>2 DEF Alive, Open, Live
<1>12. Turns' /\ (\A m \in Adapters : m # n => adapter'[m] = adapter[m]) /\ Others(n)'
  <2>1. Touches(n, b)
    BY <1>4, <1>5, <1>6, <1>8, <1>9 DEF Live, Touches
  <2>2. b.sock \in Sockets /\ socket'[b.sock].by = n /\ ~b.stop /\ ~b.timer /\ b.up /\ b.at = "idle"
        /\ b.render = a.render
    BY <1>1, <1>4, <1>5, <1>6
  <2> QED BY <1>2, <1>4, <1>5, <1>6, <1>7, <2>1, <2>2, Moved
<1>13. Fine(b, TRUE, FALSE)
  <2>1. a.tries + 1 = a.attempts + First(a) /\ a.attempts <= MaxReconnects /\ First(b) = First(a)
    BY <1>4, <1>5 DEF Fine, First, Adapter
  <2>2. a.tries \in Nat /\ a.attempts \in Nat /\ First(a) \in Nat /\ MaxReconnects \in Nat
    BY <1>4, ConnectionAssumption DEF Adapter, First
  <2> QED BY <1>4, <1>5, <2>1, <2>2 DEF Fine
<1>14. AllFine'
  BY <1>10, <1>11, <1>12, <1>13 DEF Others, AllFine, Fine, First
<1>15. DirFollows'
  <2>1. dir \in {a.creds, NoLink}
    BY DEF Inv, DirFollows
  <2>2. \A t \in Sockets : Live(t)' => dir' \in {socket'[t].creds, NoLink}
    BY <1>6, <1>9, <2>1 DEF Inv, DirFollows
  <2> QED BY <1>5, <1>10, <1>12, <2>2 DEF Inv, DirFollows
<1>16. DeadCredsGo'
  BY DEF Inv, DeadCredsGo
<1>17. Known'
  <2>1. a.creds \in paired \union {NoLink} /\ \A t \in Sockets : socket'[t].creds \in paired \union {NoLink}
    <3>1. a.creds \in paired \union {NoLink} /\ \A t \in Sockets : socket[t] \in Socket /\ socket[t].creds \in paired \union {NoLink}
      BY DEF Inv, Known, Turns, TypeOK
    <3>2. \A t \in Sockets : [socket[t] EXCEPT !.state = "ended"].creds = socket[t].creds
      BY <3>1 DEF Socket
    <3> QED BY <1>3, <1>6, <3>1, <3>2
  <2> QED BY <1>5, <1>10, <1>12, <2>1 DEF Inv, Known
<1> QED BY <1>12, <1>14, <1>15, <1>16, <1>17 DEF Inv

\* What a live socket lets nobody else do.
LEMMA Alone1 ==
  ASSUME Inv, NEW s \in Sockets, Live(s)
  PROVE /\ \A t \in Sockets : Live(t) => t = s
        /\ \A m \in Adapters : ~(adapter[m].at = "fetching" /\ ~adapter[m].stop)
<1>1. ASSUME NEW t \in Sockets, Live(t) PROVE t = s
  BY <1>1, TurnsGiveOneSocket DEF Inv, OneSocket
<1>2. ASSUME NEW m \in Adapters, adapter[m].at = "fetching", ~adapter[m].stop PROVE FALSE
  <2>1. adapter[m].up
    BY <1>2, Busy DEF Inv
  <2>2. m = socket[s].by
    BY <1>2, <2>1, Owners, OneUp DEF Inv
  <2> QED BY <1>2, <2>2, Owners
<1> QED BY <1>1, <1>2

\* A step of a live socket, which stays with its adapter.
LEMMA SocketMoved ==
  ASSUME Inv, NEW s \in Sockets, Live(s), NEW n \in Adapters, n = socket[s].by, TypeOK',
         \A m \in Adapters : m # n => adapter'[m] = adapter[m],
         \A t \in Sockets : t # s => socket'[t] = socket[t],
         socket'[s].by = n,
         adapter'[n].up, ~adapter'[n].stop, adapter'[n].sock \in {s, NoSocket},
         adapter'[n].render = adapter[n].render, adapter'[n].at = "idle",
         socket'[s].state # "ended" => adapter'[n].sock = s /\ ~adapter'[n].timer
  PROVE /\ Turns' /\ Others(n)'
        /\ Alive(n)' <=> (adapter'[n].sock = s /\ socket'[s].state # "ended")
        /\ Open(n)' <=> (adapter'[n].sock = s /\ socket'[s].state = "open")
        /\ \A t \in Sockets : t # s => ~Live(t)
<1>1. PICK b \in Adapter : b = adapter'[n]
  BY DEF TypeOK
<1>2. adapter' = [adapter EXCEPT ![n] = b]
  BY <1>1 DEF Inv, Turns, TypeOK
<1>3. adapter[n].up /\ ~adapter[n].stop /\ s # NoSocket /\ \A t \in Sockets : t # s => ~Live(t)
  BY Owners, Alone1, ConnectionAssumption
<1>5. /\ Alive(n)' <=> (b.sock = s /\ socket'[s].state # "ended")
      /\ Open(n)' <=> (b.sock = s /\ socket'[s].state = "open")
  BY <1>1, <1>3 DEF Alive, Open, Live
<1>6. Touches(n, b)
  BY <1>1, <1>3 DEF Live, Touches
<1>7. b.sock # NoSocket => b.sock \in Sockets /\ socket'[b.sock].by = n
  BY <1>1
<1>8. socket' \in [Sockets -> Socket]
  BY DEF TypeOK
<1>9. b.render \in {NoSocket, adapter[n].render} /\ (Alive(n)' => b.at = "idle" /\ ~b.timer)
      /\ b.up /\ ~b.stop /\ b.at = "idle"
  BY <1>1, <1>5
<1>10. Turns' /\ Others(n)'
  BY <1>2, <1>3, <1>6, <1>7, <1>8, <1>9, Moved
<1> QED BY <1>1, <1>3, <1>5, <1>10

LEMMA Paired == ASSUME Inv, NEW s \in Sockets, Pair(s) PROVE Inv'
<1>1. PICK l \in Links \ paired : l = CHOOSE m \in Links \ paired : TRUE
  BY DEF Pair, Inv, Turns, TypeOK
<1>0. PICK n \in Adapters : n = socket[s].by
  BY DEF Inv, Turns, TypeOK, Socket
<1> DEFINE q == [socket[s] EXCEPT !.state = "paired", !.creds = l]
<1>2. /\ socket[s].state = "connecting" /\ Live(s) /\ adapter' = adapter /\ UNCHANGED <<revoked, wipes, told, unwiped>>
      /\ dir' = l /\ paired' = paired \union {l}
  BY <1>1 DEF Pair, Live
<1>3. socket[s] \in Socket /\ q \in Socket /\ q.by = n /\ q.state = "paired" /\ q.creds = l
  BY <1>0 DEF Inv, Turns, TypeOK, Socket
<1>4. socket' = [socket EXCEPT ![s] = q]
  BY <1>1 DEF Pair, Inv, Turns, TypeOK
<1>5. /\ n \in Adapters /\ adapter[n] \in Adapter /\ adapter[n].up /\ ~adapter[n].stop /\ adapter[n].sock = s
      /\ adapter[n].at = "idle" /\ ~adapter[n].timer /\ Alive(n) /\ ~Open(n) /\ Fine(adapter[n], Alive(n), Open(n))
  BY <1>0, <1>2, Owners DEF Open
<1>7. TypeOK'
  BY <1>1, <1>2, <1>3, <1>4 DEF Inv, Turns, TypeOK
<1>8. Fine(adapter[n], TRUE, FALSE)
  BY <1>3, <1>5 DEF Fine
<1> HIDE DEF q
<1>9. /\ Turns' /\ Others(n)' /\ Alive(n)' /\ ~Open(n)'
      /\ socket'[s] = q /\ \A t \in Sockets : t # s => socket'[t] = socket[t] /\ ~Live(t)
  <2>1. socket'[s] = q /\ \A t \in Sockets : t # s => socket'[t] = socket[t]
    BY <1>4 DEF Inv, Turns, TypeOK
  <2> QED BY <1>0, <1>2, <1>3, <1>5, <1>7, <2>1, SocketMoved
<1>9a. AllFine'
  BY <1>2, <1>8, <1>9 DEF Others, AllFine, Fine, First
<1>10. DirFollows'
  <2>1. \A m \in Adapters : ~(adapter[m].at = "fetching" /\ ~adapter[m].stop)
    BY <1>2, Alone1
  <2> QED BY <1>2, <1>3, <1>9, <2>1 DEF Inv, DirFollows, Live
<1>11. Known'
  BY <1>2, <1>3, <1>9 DEF Inv, Known
<1>12. DeadCredsGo'
  BY <1>1, <1>2 DEF Inv, Turns, TypeOK, DeadCredsGo
<1> QED BY <1>9, <1>9a, <1>10, <1>11, <1>12 DEF Inv

LEMMA Opened == ASSUME Inv, NEW s \in Sockets, SocketOpen(s) PROVE Inv'
<1>0. PICK n \in Adapters : n = socket[s].by
  BY DEF Inv, Turns, TypeOK, Socket
<1> DEFINE a == adapter[n]
           q == [socket[s] EXCEPT !.state = "open"]
           b == [a EXCEPT !.status = "ready", !.attempts = 0, !.tries = 0, !.everOpen = TRUE]
<1>2. /\ socket[s].state = "connecting" /\ Live(s) /\ UNCHANGED <<dir, paired, revoked, wipes, told, unwiped>>
      /\ adapter' = [adapter EXCEPT ![n] = b]
  BY <1>0 DEF SocketOpen, Live, Update, Owner
<1>3. socket[s] \in Socket /\ q \in Socket /\ q.by = n /\ q.state = "open" /\ q.creds = socket[s].creds
  BY <1>0 DEF Inv, Turns, TypeOK, Socket
<1>4. socket' = [socket EXCEPT ![s] = q]
  BY DEF SocketOpen, Inv, Turns, TypeOK
<1>5. /\ n \in Adapters /\ a \in Adapter /\ a.up /\ ~a.stop /\ a.sock = s
      /\ a.at = "idle" /\ ~a.timer /\ Alive(n) /\ Fine(a, Alive(n), Open(n))
  BY <1>0, <1>2, Owners
<1>6. /\ b.up /\ b.status = "ready" /\ ~b.stop /\ b.attempts = 0 /\ ~b.timer
      /\ b.sock = s /\ b.render = a.render /\ b.tries = 0 /\ b.everOpen
      /\ b.spent = a.spent /\ b.at = "idle" /\ b.creds = a.creds /\ b \in Adapter
  <2>1. 0 \in 0..MaxReconnects
    BY ConnectionAssumption
  <2>2. b \in Adapter
    BY <1>5, <2>1 DEF Adapter, Status
  <2> QED BY <1>5, <2>2 DEF Adapter
<1> HIDE DEF q, b
<1>7. TypeOK'
  BY <1>2, <1>3, <1>4, <1>6 DEF Inv, Turns, TypeOK
<1>8. Fine(b, TRUE, TRUE)
  <2>1. ~a.spent
    BY <1>5 DEF Fine
  <2> QED BY <1>3, <1>6, <2>1, ConnectionAssumption DEF Fine, First
<1>9. /\ Turns' /\ Others(n)' /\ Alive(n)' /\ Open(n)'
      /\ socket'[s] = q /\ \A t \in Sockets : t # s => socket'[t] = socket[t] /\ ~Live(t)
      /\ adapter'[n] = b /\ \A m \in Adapters : m # n => adapter'[m] = adapter[m]
  <2>1. socket'[s] = q /\ \A t \in Sockets : t # s => socket'[t] = socket[t]
    BY <1>4 DEF Inv, Turns, TypeOK
  <2>2. adapter'[n] = b /\ \A m \in Adapters : m # n => adapter'[m] = adapter[m]
    BY <1>2 DEF Inv, Turns, TypeOK
  <2> QED BY <1>0, <1>2, <1>3, <1>5, <1>6, <1>7, <2>1, <2>2, SocketMoved
<1>9a. AllFine'
  BY <1>8, <1>9 DEF Others, AllFine, Fine, First
<1>10. DirFollows'
  BY <1>2, <1>3, <1>6, <1>9 DEF Inv, DirFollows, Live
<1>11. Known'
  BY <1>2, <1>3, <1>6, <1>9 DEF Inv, Known
<1>12. DeadCredsGo'
  BY <1>2 DEF Inv, DeadCredsGo
<1> QED BY <1>9, <1>9a, <1>10, <1>11, <1>12 DEF Inv

LEMMA ClosedForGood == ASSUME Inv, NEW s \in Sockets, CloseLoggedOut(s) PROVE Inv'
<1>0. PICK n \in Adapters : n = socket[s].by
  BY DEF Inv, Turns, TypeOK, Socket
<1> DEFINE a == adapter[n]
           q == [socket[s] EXCEPT !.state = "ended"]
           b == [a EXCEPT !.status = "disconnected", !.sock = NoSocket]
           w == [by |-> n, seen |-> dir]
<1>2. /\ Live(s) /\ socket[s].creds \in revoked /\ UNCHANGED <<dir, paired, revoked, unwiped>>
      /\ adapter' = [adapter EXCEPT ![n] = b]
      /\ wipes' = wipes \union {w} /\ told' = told \union {socket[s].creds}
  BY <1>0 DEF CloseLoggedOut, LoggedOut, Update, Owner
<1>3. socket[s] \in Socket /\ q \in Socket /\ q.by = n /\ q.state = "ended" /\ q.creds = socket[s].creds
  BY <1>0 DEF Inv, Turns, TypeOK, Socket
<1>4. socket' = [socket EXCEPT ![s] = q]
  BY DEF CloseLoggedOut, Ended, Inv, Turns, TypeOK
<1>5. /\ a \in Adapter /\ a.up /\ ~a.stop /\ a.sock = s
      /\ a.at = "idle" /\ ~a.timer /\ Fine(a, Alive(n), Open(n))
  BY <1>0, <1>2, Owners
<1>6. /\ b.up /\ b.status = "disconnected" /\ ~b.stop /\ b.attempts = a.attempts /\ ~b.timer
      /\ b.sock = NoSocket /\ b.render = a.render /\ b.tries = a.tries /\ b.everOpen = a.everOpen
      /\ b.spent = a.spent /\ b.late = a.late /\ b.at = "idle" /\ b.creds = a.creds /\ b \in Adapter
  BY <1>5 DEF Adapter, Status
<1>w. w \in [by: Adapters, seen: Links \union {NoLink}] /\ w.seen = dir
  BY DEF Inv, Turns, TypeOK
<1> HIDE DEF q, b, w
<1>7. TypeOK'
  BY <1>2, <1>3, <1>4, <1>6, <1>w DEF Inv, Turns, TypeOK
<1>8. Fine(b, FALSE, FALSE)
  BY <1>5, <1>6 DEF Fine, First
<1>9. /\ Turns' /\ Others(n)' /\ ~Alive(n)' /\ ~Open(n)'
      /\ socket'[s] = q /\ \A t \in Sockets : t # s => socket'[t] = socket[t] /\ ~Live(t)
      /\ adapter'[n] = b /\ \A m \in Adapters : m # n => adapter'[m] = adapter[m]
  <2>1. socket'[s] = q /\ \A t \in Sockets : t # s => socket'[t] = socket[t]
    BY <1>4 DEF Inv, Turns, TypeOK
  <2>2. adapter'[n] = b /\ \A m \in Adapters : m # n => adapter'[m] = adapter[m]
    BY <1>2 DEF Inv, Turns, TypeOK
  <2>3. q.state # "ended" => FALSE
    BY <1>3
  <2> QED BY <1>0, <1>2, <1>3, <1>5, <1>6, <1>7, <2>1, <2>2, <2>3, SocketMoved
<1>9a. AllFine'
  BY <1>8, <1>9 DEF Others, AllFine, Fine, First
<1>10. DirFollows'
  <2>1. dir \in revoked \union {NoLink}
    BY <1>2 DEF Inv, DirFollows
  <2>2. \A t \in Sockets : ~Live(t)'
    BY <1>3, <1>9 DEF Live
  <2>3. \A m \in Adapters : ~(adapter[m].at = "fetching" /\ ~adapter[m].stop)
    BY <1>2, Alone1
  <2> QED BY <1>2, <1>6, <1>9, <1>w, <2>1, <2>2, <2>3 DEF Inv, DirFollows
<1>11. Known'
  BY <1>2, <1>3, <1>6, <1>9 DEF Inv, Known
<1>12. DeadCredsGo'
  BY <1>2 DEF DeadCredsGo
<1> QED BY <1>9, <1>9a, <1>10, <1>11, <1>12 DEF Inv

LEMMA Closed == ASSUME Inv, NEW s \in Sockets, CloseTransient(s) PROVE Inv'
<1>0. PICK n \in Adapters : n = socket[s].by
  BY DEF Inv, Turns, TypeOK, Socket
<1> DEFINE a == adapter[n]
           q == [socket[s] EXCEPT !.state = "ended"]
           b == Dropped(a)
<1>2. /\ Live(s) /\ UNCHANGED <<dir, paired, revoked, wipes, told, unwiped>>
      /\ adapter' = [adapter EXCEPT ![n] = b]
  BY <1>0 DEF CloseTransient, Update, Owner
<1>3. socket[s] \in Socket /\ q \in Socket /\ q.by = n /\ q.state = "ended" /\ q.creds = socket[s].creds
  BY <1>0 DEF Inv, Turns, TypeOK, Socket
<1>4. socket' = [socket EXCEPT ![s] = q]
  BY DEF CloseTransient, Ended, Inv, Turns, TypeOK
<1>5. /\ a \in Adapter /\ a.up /\ ~a.stop /\ a.sock = s /\ Alive(n)
      /\ a.at = "idle" /\ ~a.timer /\ Fine(a, Alive(n), Open(n))
  BY <1>0, <1>2, Owners
<1>a. /\ a.tries = a.attempts + First(a) /\ ~a.spent /\ a.attempts \in Nat /\ a.attempts <= MaxReconnects
      /\ a.tries \in Nat /\ First(a) \in Nat /\ MaxReconnects \in Nat
  BY <1>5, ConnectionAssumption DEF Fine, First, Adapter
<1>6. /\ b.up /\ ~b.stop /\ b.sock = s /\ b.render = a.render /\ b.tries = a.tries /\ b.everOpen = a.everOpen
      /\ b.late = a.late /\ b.at = "idle" /\ b.creds = a.creds /\ b \in Adapter
      /\ \/ a.attempts = MaxReconnects /\ b.status = "failed" /\ b.spent /\ ~b.timer
         \/ b.attempts = a.attempts + 1 /\ b.status = a.status /\ ~b.spent /\ b.timer
  <2>1. CASE Exhausted(a)
    <3>1. b = [a EXCEPT !.status = "failed", !.spent = TRUE] /\ a.attempts = MaxReconnects
      BY <1>a, <2>1 DEF Dropped, Exhausted
    <3> HIDE DEF b
    <3> QED BY <1>5, <3>1 DEF Adapter, Status
  <2>2. CASE ~Exhausted(a)
    <3>1. b = [a EXCEPT !.attempts = @ + 1, !.timer = TRUE] /\ a.attempts + 1 \in 0..MaxReconnects
      BY <1>a, <2>2 DEF Dropped, Exhausted
    <3> HIDE DEF b
    <3>2. b \in Adapter
      BY <1>5, <3>1 DEF Adapter
    <3> QED BY <1>5, <1>a, <3>1, <3>2 DEF Adapter
  <2> QED BY <2>1, <2>2
<1> HIDE DEF q, b
<1>7. TypeOK'
  BY <1>2, <1>3, <1>4, <1>6 DEF Inv, Turns, TypeOK
<1>8. Fine(b, FALSE, FALSE)
  <2>1. First(b) = First(a)
    BY <1>6 DEF First
  <2> QED BY <1>5, <1>6, <1>a, <2>1 DEF Fine
<1>9. /\ Turns' /\ Others(n)' /\ ~Alive(n)' /\ ~Open(n)'
      /\ socket'[s] = q /\ \A t \in Sockets : t # s => socket'[t] = socket[t] /\ ~Live(t)
      /\ adapter'[n] = b /\ \A m \in Adapters : m # n => adapter'[m] = adapter[m]
  <2>1. socket'[s] = q /\ \A t \in Sockets : t # s => socket'[t] = socket[t]
    BY <1>4 DEF Inv, Turns, TypeOK
  <2>2. adapter'[n] = b /\ \A m \in Adapters : m # n => adapter'[m] = adapter[m]
    BY <1>2 DEF Inv, Turns, TypeOK
  <2>3. q.state # "ended" => FALSE
    BY <1>3
  <2> QED BY <1>0, <1>2, <1>3, <1>5, <1>6, <1>7, <2>1, <2>2, <2>3, SocketMoved
<1>9a. AllFine'
  BY <1>8, <1>9 DEF Others, AllFine, Fine, First
<1>10. DirFollows'
  <2>2. \A t \in Sockets : ~Live(t)'
    BY <1>3, <1>9 DEF Live
  <2> QED BY <1>2, <1>6, <1>9, <2>2 DEF Inv, DirFollows
<1>11. Known'
  BY <1>2, <1>3, <1>6, <1>9 DEF Inv, Known
<1>12. DeadCredsGo'
  BY <1>2 DEF Inv, DeadCredsGo
<1> QED BY <1>9, <1>9a, <1>10, <1>11, <1>12 DEF Inv

LEMMA Disconnected == ASSUME Inv, NEW n \in Adapters, Disconnect(n) PROVE Inv'
<1> DEFINE a == adapter[n]
           b == [a EXCEPT !.stop = TRUE, !.timer = FALSE, !.sock = NoSocket, !.status = "disconnected"]
<1>1. /\ a.up /\ ~a.stop /\ UNCHANGED <<dir, paired, revoked, wipes, told, unwiped>>
      /\ adapter' = [adapter EXCEPT ![n] = b]
      /\ socket' = [t \in Sockets |-> IF t = a.sock THEN [socket[t] EXCEPT !.state = "ended"] ELSE socket[t]]
  BY DEF Disconnect, Stopped
<1>2. /\ a \in Adapter /\ Fine(a, Alive(n), Open(n))
      /\ a.sock # NoSocket => a.sock \in Sockets /\ socket[a.sock].by = n
  BY DEF Inv, Turns, TypeOK, AllFine, Mine, Adapter
<1>3. /\ b.up /\ b.stop /\ ~b.timer /\ b.sock = NoSocket /\ b.status = "disconnected" /\ b.attempts = a.attempts
      /\ b.render = a.render /\ b.tries = a.tries /\ b.everOpen = a.everOpen /\ b.spent = a.spent
      /\ b.late = a.late /\ b.at = a.at /\ b.creds = a.creds /\ b \in Adapter
  BY <1>1, <1>2 DEF Adapter, Status
<1> HIDE DEF b
<1>4. \A t \in Sockets :
        /\ socket[t] \in Socket /\ socket'[t] \in Socket
        /\ socket'[t].by = socket[t].by /\ socket'[t].creds = socket[t].creds
        /\ IF t = a.sock THEN socket'[t].state = "ended" ELSE socket'[t] = socket[t]
  <2>1. SUFFICES ASSUME NEW t \in Sockets
                 PROVE /\ socket[t] \in Socket /\ socket'[t] \in Socket
                       /\ socket'[t].by = socket[t].by /\ socket'[t].creds = socket[t].creds
                       /\ IF t = a.sock THEN socket'[t].state = "ended" ELSE socket'[t] = socket[t]
    OBVIOUS
  <2>2. socket[t] \in Socket /\ socket'[t] = IF t = a.sock THEN [socket[t] EXCEPT !.state = "ended"] ELSE socket[t]
    BY <1>1 DEF Inv, Turns, TypeOK
  <2> QED BY <2>2 DEF Socket
<1>5. socket' \in [Sockets -> Socket]
  BY <1>1, <1>4
<1>6. TypeOK'
  BY <1>1, <1>3, <1>5 DEF Inv, Turns, TypeOK
<1>7. \A t \in Sockets : Live(t)' => t # a.sock /\ Live(t) /\ socket[t].by # n /\ socket'[t] = socket[t]
  <2>1. SUFFICES ASSUME NEW t \in Sockets, Live(t)' PROVE t # a.sock /\ Live(t) /\ socket[t].by # n /\ socket'[t] = socket[t]
    OBVIOUS
  <2>2. t # a.sock /\ Live(t) /\ socket'[t] = socket[t]
    BY <1>4, <2>1 DEF Live
  <2> QED BY <2>2, Owners
<1>8. Touches(n, b)
  BY <1>2, <1>4, <1>7, ConnectionAssumption DEF Touches, Live
<1>9. adapter'[n] = b /\ ~Alive(n)' /\ ~Open(n)'
  BY <1>1, <1>3 DEF Inv, Turns, TypeOK, Alive, Open
<1>10. ~(b.at # "idle" /\ b.timer) /\ b.render \in {NoSocket, adapter[n].render} /\ ~Alive(n)'
  BY <1>3, <1>9
<1>11. Turns' /\ (\A m \in Adapters : m # n => adapter'[m] = adapter[m]) /\ Others(n)'
  BY <1>1, <1>3, <1>5, <1>6, <1>8, <1>10, Moved
<1>12. Fine(b, FALSE, FALSE)
  BY <1>2, <1>3 DEF Fine, First
<1>13. AllFine'
  BY <1>9, <1>11, <1>12 DEF Others, AllFine, Fine, First
<1>14. DirFollows'
  <2>1. \A t \in Sockets : Live(t)' => dir' \in {socket'[t].creds, NoLink}
    BY <1>1, <1>7 DEF Inv, DirFollows
  <2>2. \A m \in Adapters : adapter'[m].at = "fetching" /\ ~adapter'[m].stop => dir' \in {adapter'[m].creds, NoLink}
    BY <1>1, <1>3, <1>9, <1>11 DEF Inv, DirFollows
  <2>3. \A w \in wipes' : w.seen \in revoked' \union {NoLink}
    BY <1>1 DEF Inv, DirFollows
  <2> QED BY <2>1, <2>2, <2>3 DEF DirFollows
<1>15. Known'
  BY <1>1, <1>3, <1>4, <1>9, <1>11 DEF Inv, Known
<1>16. DeadCredsGo'
  BY <1>1 DEF Inv, DeadCredsGo
<1> QED BY <1>11, <1>13, <1>14, <1>15, <1>16 DEF Inv

\* What becomes of the directory and of the links alone leaves the turns as they are.
LEMMA Still ==
  ASSUME Inv, UNCHANGED <<adapter, socket>>, TypeOK'
  PROVE Turns' /\ AllFine'
  BY DEF Inv, Turns, InTurn, Owned, Owner, Live, Mine, OneThing, Alive, Open, AllFine, Fine, First

LEMMA Revoked == ASSUME Inv, NEW l \in Links, Revoke(l) PROVE Inv'
<1>1. l \in paired /\ revoked' = revoked \union {l} /\ UNCHANGED <<adapter, socket, dir, paired, wipes, told, unwiped>>
  BY ConnectionAssumption DEF Revoke, Inv, Known
<1>2. TypeOK'
  BY <1>1 DEF Inv, Turns, TypeOK
<1>3. DirFollows' /\ Known' /\ DeadCredsGo'
  BY <1>1 DEF Inv, DirFollows, Known, DeadCredsGo, Live
<1> QED BY <1>1, <1>2, <1>3, Still DEF Inv

LEMMA Wiped == ASSUME Inv, NEW w \in wipes, ClearAuthState(w) PROVE Inv'
<1>1. /\ wipes' = wipes \ {w} /\ UNCHANGED <<adapter, socket, paired, revoked, told>>
      /\ \/ dir' = NoLink /\ unwiped' = unwiped
         \/ dir' = dir /\ unwiped' = TRUE
  BY DEF ClearAuthState
<1>2. TypeOK'
  BY <1>1 DEF Inv, Turns, TypeOK
<1>3. DirFollows' /\ Known'
  BY <1>1 DEF Inv, DirFollows, Known, Live
<1>4. NoLink \notin told
  BY ConnectionAssumption DEF Inv, Turns, TypeOK
<1>5. DeadCredsGo'
  BY <1>1, <1>4 DEF DeadCredsGo
<1> QED BY <1>1, <1>2, <1>3, <1>5, Still DEF Inv

-----------------------------------------------------------------------------
LEMMA InitInv == Init => Inv
<1> SUFFICES ASSUME Init PROVE Inv
  OBVIOUS
<1>1. /\ \A n \in Adapters : adapter[n] = Fresh
      /\ \A s \in Sockets : socket[s] = [state |-> "ended", by |-> 1, creds |-> NoLink]
      /\ dir = NoLink /\ paired = {} /\ revoked = {} /\ wipes = {} /\ told = {} /\ unwiped = FALSE
  BY DEF Init
<1>2. Fresh \in Adapter
  <2>1. 0 \in 0..MaxReconnects
    BY ConnectionAssumption
  <2> QED BY <2>1 DEF Fresh, Adapter, Status
<1>3. 1 \in Adapters
  BY ConnectionAssumption DEF Adapters
<1>4. TypeOK
  BY <1>2, <1>3 DEF Init, TypeOK, Socket
<1>5. InTurn /\ OneThing /\ Mine
  <2>1. Fresh.up = FALSE /\ Fresh.stop = FALSE /\ Fresh.timer = FALSE /\ Fresh.sock = NoSocket
        /\ Fresh.render = NoSocket /\ Fresh.at = "idle"
    BY DEF Fresh
  <2> QED BY <1>1, <2>1 DEF InTurn, OneThing, Mine, Alive
<1>6. Owned /\ DirFollows /\ Known /\ DeadCredsGo
  BY <1>1 DEF Owned, DirFollows, Known, DeadCredsGo, Live, Fresh
<1>7. AllFine
  BY <1>1, ConnectionAssumption DEF Fresh, AllFine, Fine, First, Alive, Open
<1> QED BY <1>4, <1>5, <1>6, <1>7 DEF Inv, Turns

\* Every step keeps the invariant, an action at a time.
LEMMA NextInv == Inv /\ [Next]_vars => Inv'
<1> SUFFICES ASSUME Inv, [Next]_vars PROVE Inv'
  OBVIOUS
<1>1. ASSUME NEW n \in Adapters, Initialize(n) PROVE Inv'
  BY <1>1, Initialized
<1>2. ASSUME NEW n \in Adapters, ConnectStep(n) PROVE Inv'
  <2>1. CASE LoadCreds(n)
    BY <2>1, Loaded
  <2>2. CASE ConnectInner(n)
    <3>1. CASE adapter[n].stop
      <4>1. adapter[n].at = "fetching" /\ Alone(n, [adapter[n] EXCEPT !.at = "idle"])
        BY <2>2, <3>1 DEF ConnectInner, Alone, Inv, Turns, TypeOK
      <4> QED BY <3>1, <4>1, Aborted
    <3>2. CASE ~adapter[n].stop
      <4>1. /\ adapter[n].at = "fetching" /\ NewSocket(n)
            /\ UNCHANGED <<dir, paired, revoked, wipes, told, unwiped>>
        BY <2>2, <3>2 DEF ConnectInner
      <4> QED BY <3>2, <4>1, Made
    <3> QED BY <3>1, <3>2
  <2>3. CASE ConnectFails(n)
    BY <2>3, Failed
  <2> QED BY <1>2, <2>1, <2>2, <2>3 DEF ConnectStep
<1>3. ASSUME NEW n \in Adapters, HandleQrCode(n) \/ ReconnectTimer(n) \/ Disconnect(n) PROVE Inv'
  BY <1>3, QrHandled, Fired, Disconnected
<1>4. ASSUME NEW s \in Sockets, SocketStep(s) PROVE Inv'
  BY <1>4, Connects, QrCame, Opened, ClosedForGood, Closed, Paired DEF SocketStep
<1>5. ASSUME NEW l \in Links, Revoke(l) PROVE Inv'
  BY <1>5, Revoked
<1>6. ASSUME NEW w \in wipes, ClearAuthState(w) PROVE Inv'
  BY <1>6, Wiped
<1>7. CASE UNCHANGED vars
  <2>1. TypeOK'
    BY <1>7 DEF Inv, Turns, TypeOK, vars
  <2>2. DirFollows' /\ Known' /\ DeadCredsGo'
    BY <1>7 DEF Inv, DirFollows, Known, DeadCredsGo, Live, vars
  <2> QED BY <1>7, <2>1, <2>2, Still DEF Inv, vars
<1> QED BY <1>1, <1>2, <1>3, <1>4, <1>5, <1>6, <1>7 DEF Next

LEMMA Invariance == Spec => []Inv
<1> QED BY InitInv, NextInv, PTL DEF Spec

-----------------------------------------------------------------------------
\* Never two live sockets on the session's credentials: connectInner, the timer and the stops
\* of baileys.adapter.ts, in whatever order their awaits end.
THEOREM OneSocketOnly == Spec => []OneSocket
<1>1. Inv => OneSocket
  BY TurnsGiveOneSocket DEF Inv
<1> QED BY <1>1, Invariance, PTL

\* What an adapter shows and counts is true: something will bring on whoever waits, READY is an
\* open socket or its backoff, and an adapter gives up after exactly its budget.
THEOREM StatusIsHonest == Spec => []StatusHonest
<1>1. Inv => StatusHonest
  <2> SUFFICES ASSUME Inv PROVE StatusHonest
    OBVIOUS
  <2>1. \A n \in Adapters : Fine(adapter[n], Alive(n), Open(n)) /\ adapter[n] \in Adapter
    BY DEF Inv, AllFine, Turns, TypeOK
  <2>2. NotStuck
    BY <2>1 DEF NotStuck, Fine, Alive
  <2>3. ReadyHonest
    BY <2>1 DEF ReadyHonest, Fine, Open
  <2>4. ExactBudget
    <3>1. SUFFICES ASSUME NEW n \in Adapters
                   PROVE LET a == adapter[n]
                             allowed == IF a.everOpen THEN MaxReconnects ELSE MaxReconnects + 1
                         IN  a.tries <= allowed /\ (a.spent => a.tries = allowed)
      BY DEF ExactBudget
    <3> QED BY <2>1, <3>1, ConnectionAssumption DEF Fine, First
  <2>5. TypeOK
    BY DEF Inv, Turns
  <2> QED BY <2>2, <2>3, <2>4, <2>5 DEF StatusHonest
<1> QED BY <1>1, Invariance, PTL

\* A step takes the credentials of a living link only by a removal that saw others.
LEMMA StaysStep ==
  ASSUME Inv, [Next]_vars
  PROVE (dir \in Links \ revoked /\ dir' # dir) => (\E w \in wipes \ wipes' : w.seen # dir)
<1> SUFFICES ASSUME dir \in Links \ revoked, dir' # dir PROVE \E w \in wipes \ wipes' : w.seen # dir
  OBVIOUS
<1>1. ASSUME NEW s \in Sockets, Pair(s) PROVE FALSE
  <2>1. Live(s) /\ socket[s].creds = NoLink
    BY <1>1 DEF Pair, Live
  <2> QED BY <2>1, ConnectionAssumption DEF Inv, DirFollows
<1>2. ASSUME NEW w \in wipes, ClearAuthState(w) PROVE \E v \in wipes \ wipes' : v.seen # dir
  <2>1. w \in wipes \ wipes' /\ w.seen \in revoked \union {NoLink}
    BY <1>2 DEF ClearAuthState, Inv, DirFollows
  <2> QED BY <2>1, ConnectionAssumption
<1>3. (\E s \in Sockets : Pair(s)) \/ (\E w \in wipes : ClearAuthState(w))
  BY DEF Next, vars, Initialize, ConnectStep, LoadCreds, ConnectInner, ConnectFails, HandleQrCode, ReconnectTimer,
         Disconnect, SocketStep, SocketConnecting, QrReceived, SocketOpen, CloseLoggedOut, CloseTransient, Revoke
<1> QED BY <1>1, <1>2, <1>3

\* The auth directory loses its credentials when their link is gone and only then: the pairing,
\* the logged-out close and clearAuthState of successive adapters of a session.
THEOREM CredentialsFollow == Spec => CredentialsFollowLink
<1>1. Inv => DeadCredsGo
  BY DEF Inv
<1>2. Inv /\ [Next]_vars => [(dir \in Links \ revoked /\ dir' # dir) => (\E w \in wipes \ wipes' : w.seen # dir)]_vars
  BY StaysStep
<1> QED BY <1>1, <1>2, Invariance, PTL DEF Spec, CredentialsFollowLink, LivingCredsStay

-----------------------------------------------------------------------------
\* A set of numbers has a smallest one, and a bounded one a largest.

LEMMA Smallest ==
  ASSUME NEW S, S \subseteq Nat, S # {} PROVE \E x \in S : \A y \in S : x <= y
<1>1. PICK x \in S : \A y \in S : <<y, x>> \notin OpToRel(<, Nat)
  BY NatLessThanWellFounded, WFMin
<1>2. \A y \in S : ~(y < x)
  BY <1>1 DEF OpToRel
<1> QED BY <1>2

LEMMA Largest ==
  ASSUME NEW n \in Nat, NEW S, \A y \in S : y \in 0..n, S # {}
  PROVE \E x \in S : \A y \in S : y <= x
<1> DEFINE T == {n - y : y \in S}
<1>1. \A y \in S : n - y \in Nat /\ n - y \in T
  OBVIOUS
<1>2. T \subseteq Nat /\ T # {}
  BY <1>1
<1> HIDE DEF T
<1>3. PICK t \in T : \A y \in T : t <= y
  BY <1>2, Smallest
<1>4. PICK x \in S : t = n - x
  BY <1>3 DEF T
<1>5. ASSUME NEW y \in S PROVE y <= x
  <2>1. n - x <= n - y
    BY <1>1, <1>3, <1>4
  <2>2. x \in 0..n /\ y \in 0..n
    OBVIOUS
  <2> QED BY <2>1, <2>2
<1> QED BY <1>4, <1>5

-----------------------------------------------------------------------------
\* Types, those of the limiter apart.

LimiterTyped ==
  /\ active \in 0..MaxDownloads
  /\ waiters \in Seq(Messages) /\ holding \subseteq Messages
  /\ at \in [Messages -> Places]
StoreTyped ==
  /\ DOMAIN rows \subseteq Messages /\ \A m \in DOMAIN rows : rows[m] \in 1..clock
  /\ clock \in Nat /\ puts \subseteq Put /\ unevicted \in BOOLEAN
DataTyped ==
  /\ engine \in {"baileys", "wwebjs"} /\ kind \in Mixes
  /\ download \in [Messages -> Downloads] /\ loose \subseteq Messages
  /\ last \in Messages \union {NoMessage}
  /\ lidToPn \in [Lids -> Phones \union {NoPhone}]
  /\ lidToPhone \in [Lids -> Phones \union {NoPhone}]
  /\ phoneToLids \in [Phones -> SUBSET Lids]
  /\ order \in Seq(Messages)
  /\ emitted \in [Messages -> Phones \union {NoPhone}] /\ dropped \subseteq Messages
  /\ returned \subseteq Messages

LEMMA TypeParts == InboundTypeOK <=> LimiterTyped /\ DataTyped /\ StoreTyped
  BY DEF InboundTypeOK, LimiterTyped, DataTyped, StoreTyped

\* A new row is the newest, and its put has its eviction to come.
LEMMA Upserted ==
  ASSUME StoreTyped, NEW m \in Messages, NEW by \in {"event", "send"}, Upsert(m, by)
  PROVE StoreTyped'
<1>1. CASE UNCHANGED store
  BY <1>1 DEF store, StoreTyped
<1>2. CASE ~UNCHANGED store
  <2>1. /\ rows' = [k \in DOMAIN rows \union {m} |-> IF k = m THEN clock + 1 ELSE rows[k]]
        /\ clock' = clock + 1 /\ unevicted' = unevicted
        /\ puts' = puts \union {[msg |-> m, by |-> by, at |-> "find", cut |-> 0]}
    BY <1>2 DEF Upsert
  <2>2. puts' \subseteq Put
    BY <2>1 DEF StoreTyped, Put
  <2>3. \A k \in DOMAIN rows' : rows'[k] \in 1..clock'
    BY <2>1 DEF StoreTyped
  <2> QED BY <2>1, <2>2, <2>3 DEF StoreTyped
<1> QED BY <1>1, <1>2

\* The cutoff is the newest of the messages that have to go.
LEMMA CutoffIsNewest ==
  ASSUME StoreTyped, Cutoff # {}
  PROVE \E n \in Cutoff :
          /\ rows[n] = CHOOSE c \in {rows[m] : m \in Cutoff} : \A m \in Cutoff : rows[m] <= c
          /\ \A m \in Cutoff : rows[m] <= rows[n]
          /\ rows[n] \in Nat
<1> DEFINE C == {rows[m] : m \in Cutoff}
           c0 == CHOOSE c \in C : \A m \in Cutoff : rows[m] <= c
<1>0. \A m \in Cutoff : m \in DOMAIN rows
  BY DEF Cutoff
<1>1. \A m \in Cutoff : rows[m] \in C /\ rows[m] \in 0..clock
  BY <1>0 DEF StoreTyped
<1>2. \A c \in C : c \in 0..clock
  BY <1>1
<1>3. C # {} /\ clock \in Nat
  BY DEF StoreTyped
<1> HIDE DEF C
<1>4. \E x \in C : \A y \in C : y <= x
  BY <1>2, <1>3, Largest
<1>5. \E c \in C : \A m \in Cutoff : rows[m] <= c
  BY <1>1, <1>4
<1>6. c0 \in C /\ \A m \in Cutoff : rows[m] <= c0
  BY <1>5
<1> QED BY <1>6, <1>2 DEF C

LEMMA StoreStep == StoreTyped /\ [InboundNext]_inboundVars => StoreTyped'
<1> SUFFICES ASSUME StoreTyped, [InboundNext]_inboundVars PROVE StoreTyped'
  OBVIOUS
<1>1. CASE UNCHANGED store
  BY <1>1 DEF store, StoreTyped
<1>2. ASSUME NEW m \in Messages, Arrives(m) \/ Wakes(m) \/ ProcessInboundMessage(m) \/ Deadline(m)
               \/ Drop(m) \/ StreamOpens(m) \/ DownloadEnds(m)
      PROVE StoreTyped'
  BY <1>1, <1>2 DEF Arrives, Wakes, ProcessInboundMessage, Deadline, Drop, StreamOpens, DownloadEnds
<1>3. ASSUME NEW m \in Messages, Emit(m) \/ SendReturns(m) PROVE StoreTyped'
  <2>1. UNCHANGED store \/ Upsert(m, "event") \/ Upsert(m, "send")
    BY <1>3 DEF Emit, SendReturns
  <2> QED BY <2>1, <1>1, Upserted
<1>4. ASSUME NEW l \in Lids, NEW p \in Phones \union {NoPhone}, SharedRemember(l, p) PROVE StoreTyped'
  BY <1>1, <1>4 DEF SharedRemember
<1>5. ASSUME NEW p \in puts, FindCutoff(p) PROVE StoreTyped'
  <2>1. puts' \subseteq Put
    <3>1. CASE Cutoff = {}
      BY <1>5, <3>1 DEF FindCutoff, StoreTyped
    <3>2. CASE Cutoff # {}
      <4>1. PICK n \in Cutoff : puts' = (puts \ {p}) \union {[p EXCEPT !.at = "delete", !.cut = rows[n]]}
                               /\ rows[n] \in Nat
        BY <1>5, <3>2, CutoffIsNewest DEF FindCutoff
      <4> QED BY <4>1 DEF StoreTyped, Put
    <3> QED BY <3>1, <3>2
  <2> QED BY <1>5, <2>1 DEF FindCutoff, StoreTyped
<1>6. ASSUME NEW p \in puts, Evict(p) PROVE StoreTyped'
  BY <1>6 DEF Evict, StoreTyped
<1>7. ASSUME NEW p \in puts, EvictionFails(p) PROVE StoreTyped'
  BY <1>7 DEF EvictionFails, StoreTyped
<1> QED BY <1>1, <1>2, <1>3, <1>4, <1>5, <1>6, <1>7 DEF InboundNext, MessageStep, inboundVars

-----------------------------------------------------------------------------
\* The limiter: its inductive invariant, in parts.

Running(m) == download[m] \in {"asking", "streaming"}

\* Who has a slot: under Baileys a message from its turn to its end, under whatsapp-web.js
\* one that was handed a slot, and a download as long as it runs.
HasSlot(m) ==
  IF engine = "baileys" THEN at[m] \in {"woken", "start", "media", "mapping"}
  ELSE at[m] = "woken" \/ Running(m)

Counted == IsFiniteSet(holding) /\ active = Cardinality(holding)
Held == \A m \in Messages : m \in holding <=> HasSlot(m)
Parked ==
  /\ NobodyForgotten
  /\ \A i, j \in DOMAIN waiters : waiters[i] = waiters[j] => i = j

\* Nothing is downloaded before its turn; a download of Baileys is awaited, or was left loose.
Staged == \A m \in Messages :
  /\ at[m] \in {"new", "waiting", "woken"} => download[m] = "none"
  /\ engine = "wwebjs" => at[m] # "start" /\ loose = {}
  /\ engine = "baileys" /\ Running(m) /\ m \notin loose => at[m] = "media"

LimiterInv == InboundTypeOK /\ Counted /\ Held /\ Parked /\ Staged

-----------------------------------------------------------------------------
\* What Admit and Release do to slots and line.

LEMMA Domain == ASSUME NEW S, NEW q \in Seq(S) PROVE DOMAIN q = 1..Len(q) /\ Len(q) \in Nat
  BY LenProperties

\* A message that was not in yet has a slot or is the last of the line.
LEMMA Admitted ==
  ASSUME LimiterInv, NEW m \in Messages, NEW place \in {"start", "media"},
         at[m] = "new", Admit(m, place)
  PROVE /\ at' \in [Messages -> Places] /\ active' \in 0..MaxDownloads
        /\ waiters' \in Seq(Messages) /\ holding' \subseteq Messages
        /\ Counted' /\ Parked'
        /\ \A k \in Messages : k # m => at'[k] = at[k] /\ (k \in holding' <=> k \in holding)
        /\ IF active < MaxDownloads THEN at'[m] = place /\ m \in holding'
           ELSE at'[m] = "waiting" /\ m \notin holding'
<1> USE DEF Places
<1>1. m \notin holding
  BY DEF LimiterInv, Held, HasSlot, Staged, InboundTypeOK, Running
<1>2. DOMAIN waiters = 1..Len(waiters) /\ Len(waiters) \in Nat
  BY Domain DEF LimiterInv, InboundTypeOK
<1>3. CASE active < MaxDownloads
  <2>1. /\ active' = active + 1 /\ holding' = holding \union {m}
        /\ at' = [at EXCEPT ![m] = place] /\ waiters' = waiters
    BY <1>3 DEF Admit
  <2>2. Counted'
    BY <1>1, <2>1, FS_AddElement DEF LimiterInv, Counted
  <2>3. Parked'
    BY <1>3, <2>1, <1>2, InboundAssumption DEF LimiterInv, Parked, NobodyForgotten, InboundTypeOK
  <2> QED BY <1>3, <2>1, <2>2, <2>3, InboundAssumption DEF LimiterInv, InboundTypeOK
<1>4. CASE ~(active < MaxDownloads)
  <2>1. /\ waiters' = Append(waiters, m) /\ at' = [at EXCEPT ![m] = "waiting"]
        /\ active' = active /\ holding' = holding
    BY <1>4 DEF Admit
  <2>2. /\ waiters' \in Seq(Messages) /\ Len(waiters') = Len(waiters) + 1
        /\ \A i \in 1..Len(waiters) : waiters'[i] = waiters[i]
        /\ waiters'[Len(waiters) + 1] = m
    BY <2>1, AppendProperties DEF LimiterInv, InboundTypeOK
  <2>3. DOMAIN waiters' = 1..(Len(waiters) + 1)
    BY <2>2, Domain
  <2>4. \A i \in DOMAIN waiters : waiters[i] # m
    BY DEF LimiterInv, Parked, NobodyForgotten
  <2>5. active = MaxDownloads
    BY <1>4, InboundAssumption DEF LimiterInv, InboundTypeOK
  <2>6. NobodyForgotten'
    <3>1. SUFFICES ASSUME NEW k \in Messages
                   PROVE at'[k] = "waiting" <=> \E i \in DOMAIN waiters' : waiters'[i] = k
      BY <2>1, <2>5 DEF NobodyForgotten
    <3>2. CASE k = m
      <4>1. at'[k] = "waiting"
        BY <3>2, <2>1 DEF LimiterInv, InboundTypeOK
      <4>2. Len(waiters) + 1 \in DOMAIN waiters'
        BY <2>3, <1>2
      <4> QED BY <3>2, <4>1, <4>2, <2>2
    <3>3. CASE k # m
      <4>1. at'[k] = at[k]
        BY <3>3, <2>1 DEF LimiterInv, InboundTypeOK
      <4>2. (\E i \in DOMAIN waiters' : waiters'[i] = k) <=> (\E i \in DOMAIN waiters : waiters[i] = k)
        BY <3>3, <2>2, <2>3, <1>2
      <4> QED BY <4>1, <4>2 DEF LimiterInv, Parked, NobodyForgotten
    <3> QED BY <3>2, <3>3
  <2>7. \A i, j \in DOMAIN waiters' : waiters'[i] = waiters'[j] => i = j
    BY <2>2, <2>3, <2>4, <1>2 DEF LimiterInv, Parked
  <2>8. Counted'
    BY <2>1 DEF LimiterInv, Counted
  <2> QED BY <1>1, <1>4, <2>1, <2>2, <2>6, <2>7, <2>8 DEF LimiterInv, InboundTypeOK, Parked
<1> QED BY <1>3, <1>4

\* The slot of a message that is through goes to the first of the line, or is free.
LEMMA Released ==
  ASSUME LimiterInv, NEW m \in Messages, m \in holding,
         at[m] \in Places \ {"new", "waiting", "woken"},
         NEW moved \in [Messages -> Places],
         \A k \in Messages : k # m => moved[k] = at[k],
         moved[m] \notin {"new", "waiting", "woken"},
         Release(m, moved)
  PROVE /\ at' \in [Messages -> Places] /\ active' \in 0..MaxDownloads
        /\ waiters' \in Seq(Messages) /\ holding' \subseteq Messages
        /\ Counted' /\ Parked'
        /\ \A k \in Messages :
             \/ at'[k] = moved[k] /\ (k \in holding' <=> k # m /\ k \in holding)
             \/ k # m /\ at[k] = "waiting" /\ at'[k] = "woken" /\ k \in holding'
<1> USE DEF Places
<1>1. DOMAIN waiters = 1..Len(waiters) /\ Len(waiters) \in Nat
  BY Domain DEF LimiterInv, InboundTypeOK
<1>2. CASE waiters = <<>>
  <2>1. /\ active' = active - 1 /\ holding' = holding \ {m}
        /\ at' = moved /\ waiters' = waiters
    BY <1>2 DEF Release
  <2>2. Counted' /\ active' \in 0..MaxDownloads
    <3>1. IsFiniteSet(holding) /\ active = Cardinality(holding)
      BY DEF LimiterInv, Counted
    <3>2. Cardinality(holding \ {m}) = Cardinality(holding) - 1 /\ IsFiniteSet(holding \ {m})
      BY <3>1, FS_RemoveElement
    <3>3. Cardinality(holding \ {m}) \in Nat
      BY <3>2, FS_CardinalityType
    <3> QED BY <3>1, <3>2, <3>3, <2>1, InboundAssumption DEF Counted, LimiterInv, InboundTypeOK
  <2>3. Parked'
    BY <1>2, <2>1 DEF LimiterInv, Parked, NobodyForgotten
  <2> QED BY <2>1, <2>2, <2>3 DEF LimiterInv, InboundTypeOK
<1>3. CASE waiters # <<>>
  <2> DEFINE h == Head(waiters)
  <2>1. /\ active' = active
        /\ holding' = (holding \ {m}) \union {h}
        /\ waiters' = Tail(waiters)
        /\ at' = [moved EXCEPT ![h] = "woken"]
    BY <1>3 DEF Release
  <2>2. /\ h \in Messages /\ h = waiters[1] /\ 1 \in DOMAIN waiters
        /\ waiters' \in Seq(Messages) /\ Len(waiters') = Len(waiters) - 1
        /\ \A i \in 1..(Len(waiters) - 1) : waiters'[i] = waiters[i + 1]
    <3>1. waiters \in Seq(Messages)
      BY DEF LimiterInv, InboundTypeOK
    <3> QED BY <3>1, <1>3, <1>1, <2>1, HeadTailProperties, EmptySeq
  <2>3. DOMAIN waiters' = 1..(Len(waiters) - 1)
    BY <2>2, Domain
  <2>4. at[h] = "waiting" /\ h # m
    BY <2>2 DEF LimiterInv, Parked, NobodyForgotten
  <2>5. h \notin holding
    BY <2>2, <2>4 DEF LimiterInv, Held, HasSlot, Staged, Running
  <2>6. Counted'
    <3>1. IsFiniteSet(holding) /\ active = Cardinality(holding)
      BY DEF LimiterInv, Counted
    <3>2. Cardinality(holding \ {m}) = Cardinality(holding) - 1 /\ IsFiniteSet(holding \ {m})
      BY <3>1, FS_RemoveElement
    <3>3. /\ IsFiniteSet((holding \ {m}) \union {h})
          /\ Cardinality((holding \ {m}) \union {h}) = Cardinality(holding \ {m}) + 1
      BY <3>2, <2>5, FS_AddElement
    <3>4. Cardinality(holding) \in Nat
      BY <3>1, FS_CardinalityType
    <3> QED BY <3>1, <3>2, <3>3, <3>4, <2>1 DEF Counted
  <2>7. active = MaxDownloads
    BY <1>3 DEF LimiterInv, Parked, NobodyForgotten
  <2>8. NobodyForgotten'
    <3>1. SUFFICES ASSUME NEW k \in Messages
                   PROVE at'[k] = "waiting" <=> \E i \in DOMAIN waiters' : waiters'[i] = k
      BY <2>1, <2>7 DEF NobodyForgotten
    <3>2. CASE k = h
      <4>1. at'[k] = "woken"
        BY <3>2, <2>1, <2>2
      <4>2. \A i \in DOMAIN waiters' : waiters'[i] # k
        BY <3>2, <2>2, <2>3, <1>1 DEF LimiterInv, Parked
      <4> QED BY <4>1, <4>2
    <3>3. CASE k # h
      <4>1. at'[k] = "waiting" <=> at[k] = "waiting"
        BY <3>3, <2>1, <2>2
      <4>2. (\E i \in DOMAIN waiters' : waiters'[i] = k) <=> (\E i \in DOMAIN waiters : waiters[i] = k)
        <5>1. ASSUME NEW i \in DOMAIN waiters, waiters[i] = k
              PROVE \E n \in DOMAIN waiters' : waiters'[n] = k
          <6>1. i - 1 \in 1..(Len(waiters) - 1) /\ waiters'[i - 1] = waiters[(i - 1) + 1]
            BY <5>1, <3>3, <2>2, <1>1
          <6> QED BY <6>1, <5>1, <2>3, <1>1
        <5>2. ASSUME NEW i \in DOMAIN waiters', waiters'[i] = k
              PROVE \E n \in DOMAIN waiters : waiters[n] = k
          BY <5>2, <2>2, <2>3, <1>1
        <5> QED BY <5>1, <5>2
      <4> QED BY <4>1, <4>2 DEF LimiterInv, Parked, NobodyForgotten
    <3> QED BY <3>2, <3>3
  <2>9. \A i, j \in DOMAIN waiters' : waiters'[i] = waiters'[j] => i = j
    BY <2>2, <2>3, <1>1 DEF LimiterInv, Parked
  <2>10. \A k \in Messages :
             \/ at'[k] = moved[k] /\ (k \in holding' <=> k # m /\ k \in holding)
             \/ k # m /\ at[k] = "waiting" /\ at'[k] = "woken" /\ k \in holding'
    BY <2>1, <2>2, <2>4
  <2> QED BY <2>1, <2>2, <2>6, <2>8, <2>9, <2>10 DEF LimiterInv, InboundTypeOK, Parked
<1> QED BY <1>2, <1>3

-----------------------------------------------------------------------------
\* The limiter's invariant is kept.

LEMMA NothingStored == DOMAIN <<>> = {}
  BY EmptySeq, Domain

LEMMA LimiterInit == InboundInit => LimiterInv
<1> SUFFICES ASSUME InboundInit PROVE LimiterInv
  OBVIOUS
<1>1. InboundTypeOK
  <2>1. <<>> \in Seq(Messages)
    BY EmptySeq
  <2>2. LimiterTyped
    BY <2>1, InboundAssumption DEF InboundInit, LimiterTyped, Places
  <2>3. DataTyped
    BY <2>1 DEF InboundInit, DataTyped, Downloads
  <2>4. StoreTyped
    <3>1. DOMAIN rows = {}
      BY NothingStored DEF InboundInit
    <3> QED BY <3>1 DEF InboundInit, StoreTyped
  <2> QED BY <2>2, <2>3, <2>4, TypeParts
<1>2. Counted
  BY FS_EmptySet DEF InboundInit, Counted
<1>3. Held /\ Parked /\ Staged
  BY DEF InboundInit, Held, HasSlot, Running, Parked, NobodyForgotten, Staged
<1> QED BY <1>1, <1>2, <1>3 DEF LimiterInv

LEMMA DataStep == InboundTypeOK /\ [InboundNext]_inboundVars => DataTyped'
<1> SUFFICES ASSUME InboundTypeOK, [InboundNext]_inboundVars PROVE DataTyped'
  OBVIOUS
<1> USE TypeParts DEF DataTyped, Downloads
<1>1. CASE UNCHANGED inboundVars
  BY <1>1 DEF inboundVars, lids
<1>2. ASSUME NEW m \in Messages, Arrives(m) \/ Wakes(m) PROVE DataTyped'
  BY <1>2 DEF Arrives, Wakes, lids
<1>3. ASSUME NEW m \in Messages, StreamOpens(m) \/ DownloadEnds(m) \/ Deadline(m) PROVE DataTyped'
  BY <1>3 DEF StreamOpens, DownloadEnds, Deadline, lids
<1>4. ASSUME NEW m \in Messages, ProcessInboundMessage(m) PROVE DataTyped'
  <2>1. LidOf[m] \in Lids /\ PhoneOf[m] \in Phones
    BY InboundAssumption
  <2>2. /\ lidToPn' \in [Lids -> Phones \union {NoPhone}]
        /\ lidToPhone' \in [Lids -> Phones \union {NoPhone}]
        /\ phoneToLids' \in [Phones -> SUBSET Lids]
    <3>1. lidToPn' = [lidToPn EXCEPT ![LidOf[m]] = PhoneOf[m]] /\ Remember(LidOf[m], PhoneOf[m])
      BY <1>4 DEF ProcessInboundMessage, Learn
    <3>2. CASE UNCHANGED <<lidToPhone, phoneToLids>>
      BY <2>1, <3>1, <3>2
    <3>3. CASE Index(LidOf[m], PhoneOf[m])
      BY <2>1, <3>1, <3>3 DEF Index
    <3> QED BY <3>1, <3>2, <3>3 DEF Remember
  <2>3. order' \in Seq(Messages)
    BY <1>4, AppendProperties DEF ProcessInboundMessage
  <2>4. emitted' \in [Messages -> Phones \union {NoPhone}] /\ download' \in [Messages -> Downloads]
    BY <1>4, <2>1, <2>2 DEF ProcessInboundMessage
  <2> QED BY <1>4, <2>2, <2>3, <2>4 DEF ProcessInboundMessage
<1>5. ASSUME NEW m \in Messages, SendReturns(m) \/ Drop(m) PROVE DataTyped'
  BY <1>5 DEF SendReturns, Drop, lids
<1>6. ASSUME NEW m \in Messages, Emit(m) PROVE DataTyped'
  <2>1. LidOf[m] \in Lids
    BY InboundAssumption
  <2> QED BY <1>6, <2>1 DEF Emit, Newest, lids
<1>7. ASSUME NEW l \in Lids, NEW p \in Phones \union {NoPhone}, SharedRemember(l, p) PROVE DataTyped'
  BY <1>7 DEF SharedRemember, Remember, Index
<1>8. ASSUME NEW p \in puts, FindCutoff(p) \/ Evict(p) \/ EvictionFails(p) PROVE DataTyped'
  BY <1>8 DEF FindCutoff, Evict, EvictionFails, lids
<1> QED BY <1>1, <1>2, <1>3, <1>4, <1>5, <1>6, <1>7, <1>8 DEF InboundNext, MessageStep

\* A step that is not of the limiter, or that leaves slots and line alone.
LEMMA SlotsAlone ==
  ASSUME LimiterInv, UNCHANGED limiter, UNCHANGED engine,
         \A k \in Messages : at'[k] = "waiting" <=> at[k] = "waiting"
  PROVE Counted' /\ Parked'
<1>1. active' = active /\ waiters' = waiters /\ holding' = holding
  BY DEF limiter
<1> QED BY <1>1 DEF LimiterInv, Counted, Parked, NobodyForgotten

LEMMA LimiterStep == LimiterInv /\ [InboundNext]_inboundVars => LimiterInv'
<1> SUFFICES ASSUME LimiterInv, [InboundNext]_inboundVars PROVE LimiterInv'
  OBVIOUS
<1> USE DEF Places, Downloads
<1>0. /\ StoreTyped' /\ DataTyped'
      /\ engine \in {"baileys", "wwebjs"}
      /\ at \in [Messages -> Places] /\ download \in [Messages -> Downloads]
      /\ LimiterTyped /\ loose \subseteq Messages
  BY StoreStep, DataStep, TypeParts DEF LimiterInv, InboundTypeOK
<1> SUFFICES LimiterTyped' /\ Counted' /\ Parked' /\ Held' /\ Staged'
  BY <1>0 DEF LimiterInv, InboundTypeOK, LimiterTyped, DataTyped, StoreTyped
<1>a. Held /\ Staged
  BY DEF LimiterInv
<1>1. CASE UNCHANGED inboundVars
  BY <1>1, <1>0, <1>a, SlotsAlone
     DEF inboundVars, limiter, LimiterTyped, Held, HasSlot, Running, Staged
<1>2. ASSUME NEW m \in Messages, Arrives(m) PROVE LimiterTyped' /\ Counted' /\ Parked' /\ Held' /\ Staged'
  <2>1. at[m] = "new" /\ download[m] = "none" /\ m \notin holding /\ engine' = engine /\ loose' = loose
    BY <1>2, <1>0, <1>a DEF Arrives, Held, HasSlot, Staged, Running
  <2>2. CASE engine = "baileys"
    <3>1. Admit(m, "start") /\ download' = download
      BY <1>2, <2>2 DEF Arrives
    <3> QED BY <1>0, <1>a, <2>1, <2>2, <3>1, Admitted
            DEF LimiterTyped, Held, HasSlot, Running, Staged
  <2>3. CASE engine = "wwebjs" /\ kind[m] = "media"
    <3>1. /\ Admit(m, "media")
          /\ download' = IF active < MaxDownloads THEN [download EXCEPT ![m] = "asking"] ELSE download
      BY <1>2, <2>3 DEF Arrives
    <3> QED BY <1>0, <1>a, <2>1, <2>3, <3>1, Admitted
            DEF LimiterTyped, Held, HasSlot, Running, Staged
  <2>4. CASE engine = "wwebjs" /\ kind[m] # "media"
    <3>1. /\ at' = [at EXCEPT ![m] = "mapping"] /\ UNCHANGED limiter /\ download' = download
      BY <1>2, <2>4 DEF Arrives
    <3>2. Counted' /\ Parked'
      BY <1>0, <2>1, <3>1, SlotsAlone
    <3> QED BY <1>0, <1>a, <2>1, <2>4, <3>1, <3>2
            DEF limiter, LimiterTyped, Held, HasSlot, Running, Staged
  <2> QED BY <1>0, <2>2, <2>3, <2>4
<1>3. ASSUME NEW m \in Messages, Wakes(m) PROVE LimiterTyped' /\ Counted' /\ Parked' /\ Held' /\ Staged'
  <2>1. Counted' /\ Parked'
    BY <1>3, <1>0, SlotsAlone DEF Wakes
  <2> QED BY <1>3, <1>0, <1>a, <2>1 DEF Wakes, limiter, LimiterTyped, Held, HasSlot, Running, Staged
<1>4. ASSUME NEW m \in Messages, ProcessInboundMessage(m)
      PROVE LimiterTyped' /\ Counted' /\ Parked' /\ Held' /\ Staged'
  <2>1. at[m] = "start" /\ engine = "baileys" /\ engine' = engine /\ loose' = loose /\ m \in holding
    BY <1>4, <1>0, <1>a DEF ProcessInboundMessage, Held, HasSlot, Staged
  <2>2. CASE kind[m] = "reaction"
    <3>1. Release(m, [at EXCEPT ![m] = "done"]) /\ download' = download
      BY <1>4, <2>2 DEF ProcessInboundMessage
    <3> DEFINE moved == [at EXCEPT ![m] = "done"]
    <3>2. /\ moved \in [Messages -> Places] /\ moved[m] = "done"
          /\ \A k \in Messages : k # m => moved[k] = at[k]
      BY <1>0
    <3> HIDE DEF moved
    <3>3. /\ LimiterTyped' /\ Counted' /\ Parked'
          /\ \A k \in Messages :
             \/ at'[k] = moved[k] /\ (k \in holding' <=> k # m /\ k \in holding)
             \/ k # m /\ at[k] = "waiting" /\ at'[k] = "woken" /\ k \in holding'
      BY <3>1, <3>2, <2>1, Released DEF LimiterTyped, moved
    <3> QED BY <1>0, <1>a, <2>1, <3>1, <3>2, <3>3 DEF Held, HasSlot, Running, Staged
  <2>3. CASE kind[m] # "reaction"
    <3>1. /\ at' = [at EXCEPT ![m] = IF kind[m] = "media" THEN "media" ELSE "mapping"]
          /\ download' = IF kind[m] = "media" THEN [download EXCEPT ![m] = "asking"] ELSE download
          /\ UNCHANGED limiter
      BY <1>4, <2>3 DEF ProcessInboundMessage
    <3>2. Counted' /\ Parked'
      BY <1>0, <2>1, <3>1, SlotsAlone
    <3> QED BY <1>0, <1>a, <2>1, <3>1, <3>2 DEF limiter, LimiterTyped, Held, HasSlot, Running, Staged
  <2> QED BY <2>2, <2>3
<1>5. ASSUME NEW m \in Messages, Deadline(m) PROVE LimiterTyped' /\ Counted' /\ Parked' /\ Held' /\ Staged'
  <2>1. Counted' /\ Parked'
    BY <1>5, <1>0, SlotsAlone DEF Deadline
  <2> QED BY <1>5, <1>0, <1>a, <2>1 DEF Deadline, limiter, LimiterTyped, Held, HasSlot, Running, Staged
<1>6. ASSUME NEW m \in Messages, StreamOpens(m) PROVE LimiterTyped' /\ Counted' /\ Parked' /\ Held' /\ Staged'
  <2>1. Counted' /\ Parked'
    BY <1>6, <1>0, SlotsAlone DEF StreamOpens
  <2> QED BY <1>6, <1>0, <1>a, <2>1 DEF StreamOpens, limiter, LimiterTyped, Held, HasSlot, Running, Staged
<1>7. ASSUME NEW m \in Messages, DownloadEnds(m)
      PROVE LimiterTyped' /\ Counted' /\ Parked' /\ Held' /\ Staged'
  <2> DEFINE moved == IF at[m] = "media" THEN [at EXCEPT ![m] = "mapping"] ELSE at
  <2>1. /\ Running(m) /\ download' = [download EXCEPT ![m] = "ended"]
        /\ engine' = engine /\ loose' = loose
        /\ at[m] \in Places \ {"new", "waiting", "woken"}
    BY <1>7, <1>0, <1>a DEF DownloadEnds, Running, Staged
  <2>2. /\ moved \in [Messages -> Places] /\ moved[m] \notin {"new", "waiting", "woken"}
        /\ moved[m] = IF at[m] = "media" THEN "mapping" ELSE at[m]
        /\ \A k \in Messages : k # m => moved[k] = at[k]
    BY <1>0, <2>1
  <2>3. IF engine = "wwebjs" THEN Release(m, moved) ELSE at' = moved /\ UNCHANGED limiter
    BY <1>7 DEF DownloadEnds
  <2> HIDE DEF moved
  <2>4. CASE engine = "wwebjs"
    <3>1. m \in holding
      BY <1>a, <2>1, <2>4 DEF Held, HasSlot
    <3>2. /\ LimiterTyped' /\ Counted' /\ Parked'
          /\ \A k \in Messages :
             \/ at'[k] = moved[k] /\ (k \in holding' <=> k # m /\ k \in holding)
             \/ k # m /\ at[k] = "waiting" /\ at'[k] = "woken" /\ k \in holding'
      BY <2>1, <2>2, <2>3, <2>4, <3>1, Released DEF LimiterTyped
    <3> QED BY <1>0, <1>a, <2>1, <2>2, <2>4, <3>2 DEF Held, HasSlot, Running, Staged
  <2>5. CASE engine = "baileys"
    <3>1. at' = moved /\ UNCHANGED limiter
      BY <2>3, <2>5
    <3>2. Counted' /\ Parked'
      BY <1>0, <2>1, <2>2, <3>1, SlotsAlone
    <3> QED BY <1>0, <1>a, <2>1, <2>2, <2>5, <3>1, <3>2
            DEF limiter, LimiterTyped, Held, HasSlot, Running, Staged
  <2> QED BY <1>0, <2>4, <2>5
<1>8. ASSUME NEW m \in Messages, Emit(m) \/ Drop(m)
      PROVE LimiterTyped' /\ Counted' /\ Parked' /\ Held' /\ Staged'
  <2> DEFINE moved == [at EXCEPT ![m] = "done"]
  <2>1. /\ at[m] = "mapping" /\ engine' = engine /\ loose' = loose /\ download' = download
        /\ IF engine = "baileys" THEN Release(m, moved) ELSE at' = moved /\ UNCHANGED limiter
    BY <1>8 DEF Emit, Drop
  <2>2. /\ moved \in [Messages -> Places] /\ moved[m] = "done"
        /\ \A k \in Messages : k # m => moved[k] = at[k]
    BY <1>0
  <2> HIDE DEF moved
  <2>3. CASE engine = "baileys"
    <3>1. m \in holding
      BY <1>a, <2>1, <2>3 DEF Held, HasSlot
    <3>2. /\ LimiterTyped' /\ Counted' /\ Parked'
          /\ \A k \in Messages :
             \/ at'[k] = moved[k] /\ (k \in holding' <=> k # m /\ k \in holding)
             \/ k # m /\ at[k] = "waiting" /\ at'[k] = "woken" /\ k \in holding'
      BY <2>1, <2>2, <2>3, <3>1, Released DEF LimiterTyped
    <3> QED BY <1>0, <1>a, <2>1, <2>2, <2>3, <3>2 DEF Held, HasSlot, Running, Staged
  <2>4. CASE engine = "wwebjs"
    <3>1. at' = moved /\ UNCHANGED limiter
      BY <2>1, <2>4
    <3>2. Counted' /\ Parked'
      BY <1>0, <2>1, <2>2, <3>1, SlotsAlone
    <3> QED BY <1>0, <1>a, <2>1, <2>2, <2>4, <3>1, <3>2
            DEF limiter, LimiterTyped, Held, HasSlot, Running, Staged
  <2> QED BY <1>0, <2>3, <2>4
<1>9. ASSUME UNCHANGED <<engine, limiter, at, download, loose>>
      PROVE LimiterTyped' /\ Counted' /\ Parked' /\ Held' /\ Staged'
  BY <1>9, <1>0, <1>a, SlotsAlone DEF limiter, LimiterTyped, Held, HasSlot, Running, Staged
<1>10. ASSUME NEW m \in Messages, SendReturns(m) PROVE UNCHANGED <<engine, limiter, at, download, loose>>
  BY <1>10 DEF SendReturns
<1>11. ASSUME NEW l \in Lids, NEW p \in Phones \union {NoPhone}, SharedRemember(l, p)
       PROVE UNCHANGED <<engine, limiter, at, download, loose>>
  BY <1>11 DEF SharedRemember
<1>12. ASSUME NEW p \in puts, FindCutoff(p) \/ Evict(p) \/ EvictionFails(p)
       PROVE UNCHANGED <<engine, limiter, at, download, loose>>
  BY <1>12 DEF FindCutoff, Evict, EvictionFails
<1> QED
  BY <1>1, <1>2, <1>3, <1>4, <1>5, <1>6, <1>7, <1>8, <1>9, <1>10, <1>11, <1>12 DEF InboundNext, MessageStep

\* Whoever downloads and was not left loose has a slot.
LEMMA LimiterInvIsExact == LimiterInv => LimiterExact
<1> SUFFICES ASSUME LimiterInv PROVE LimiterExact
  OBVIOUS
<1> DEFINE D == {m \in Messages \ loose : download[m] \in {"asking", "streaming"}}
<1>1. D \subseteq holding
  BY DEF LimiterInv, Held, HasSlot, Running, Staged, InboundTypeOK
<1>2. Cardinality(D) <= Cardinality(holding) /\ Cardinality(D) \in Nat /\ Cardinality(holding) \in Nat
  BY <1>1, FS_Subset, FS_CardinalityType DEF LimiterInv, Counted
<1>3. active = Cardinality(holding) /\ active <= MaxDownloads /\ active \in Nat
  BY InboundAssumption DEF LimiterInv, Counted, InboundTypeOK
<1>4. engine = "wwebjs" => loose = {}
  BY DEF LimiterInv, Staged, InboundTypeOK
<1>5. Cardinality(D) <= MaxDownloads
  BY <1>2, <1>3, InboundAssumption
<1> QED BY <1>3, <1>4, <1>5 DEF LimiterExact, SlotsExact, DownloadsBounded, LimiterInv, Parked

\* The count of the limiter is exact and within its bound, whoever arrives while a woken
\* waiter has its slot but not yet its turn; nobody is parked while a slot is free; and no
\* more downloads run than the bound allows, those left loose by a deadline apart.
THEOREM LimiterIsExact == InboundSpec => []LimiterExact
<1>1. InboundInit => LimiterInv
  BY LimiterInit
<1>2. LimiterInv /\ [InboundNext]_inboundVars => LimiterInv'
  BY LimiterStep
<1>3. LimiterInv => LimiterExact
  BY LimiterInvIsExact
<1> QED BY <1>1, <1>2, <1>3, PTL DEF InboundSpec

-----------------------------------------------------------------------------
\* Messages that overtake each other.

\* The phone is the one of the message's own key, or of a key read later.
FromKey(m, phone) ==
  \E i, j \in DOMAIN order : order[i] = m /\ i <= j /\ phone = PhoneOf[order[j]]

\* A message whose key was read would be emitted with such a phone.
Current == \A m \in Messages : at[m] \in {"media", "mapping"} => FromKey(m, lidToPn[LidOf[m]])

FreshKeys ==
  /\ Current
  /\ \A m \in Messages : at[m] = "done" /\ m \notin dropped => FromKey(m, emitted[m])
  /\ LastIsNewest

\* No key is read and no message ends.
KeysStill ==
  /\ UNCHANGED <<engine, kind, order, lidToPn, emitted, dropped, last>>
  /\ \A m \in Messages :
       \/ at'[m] \in {"new", "waiting", "woken", "start"}
       \/ at'[m] = at[m]
       \/ at[m] = "media" /\ at'[m] = "mapping"

LEMMA StillFresh == FreshKeys /\ KeysStill => FreshKeys'
  BY DEF FreshKeys, KeysStill, Current, FromKey, LastIsNewest, Through

\* A key more is a later key.
LEMMA KeyRead ==
  ASSUME InboundTypeOK, NEW m \in Messages, order' = Append(order, m)
  PROVE /\ \A k \in Messages : \A p : FromKey(k, p) => FromKey(k, p)'
        /\ FromKey(m, PhoneOf[m])'
        /\ \A k \in Messages : \A p : FromKey(k, p) => FromKey(k, PhoneOf[m])'
<1>1. /\ DOMAIN order = 1..Len(order) /\ Len(order) \in Nat
      /\ order' \in Seq(Messages) /\ Len(order') = Len(order) + 1
      /\ \A i \in 1..Len(order) : order'[i] = order[i]
      /\ order'[Len(order) + 1] = m
  BY Domain, AppendProperties DEF InboundTypeOK
<1>2. DOMAIN order' = 1..(Len(order) + 1)
  BY <1>1, Domain
<1>3. FromKey(m, PhoneOf[m])'
  BY <1>1, <1>2 DEF FromKey
<1>4. ASSUME NEW k \in Messages, NEW p, FromKey(k, p)
      PROVE FromKey(k, p)' /\ FromKey(k, PhoneOf[m])'
  <2>1. PICK i, j \in 1..Len(order) : order[i] = k /\ i <= j /\ p = PhoneOf[order[j]]
    BY <1>1, <1>4 DEF FromKey
  <2>2. i \in DOMAIN order' /\ j \in DOMAIN order' /\ Len(order) + 1 \in DOMAIN order'
        /\ i <= Len(order) + 1
    BY <1>1, <1>2
  <2>3. FromKey(k, p)'
    BY <1>1, <2>1, <2>2 DEF FromKey
  <2>4. FromKey(k, PhoneOf[m])'
    BY <1>1, <2>1, <2>2 DEF FromKey
  <2> QED BY <2>3, <2>4
<1> QED BY <1>3, <1>4

\* A slot that is handed on changes the place of a waiter only.
LEMMA HandedOn ==
  ASSUME LimiterInv, NEW m \in Messages, m \in holding, at[m] \in {"start", "mapping"},
         Release(m, [at EXCEPT ![m] = "done"])
  PROVE /\ at'[m] = "done"
        /\ \A k \in Messages : k # m => at'[k] = at[k] \/ at'[k] = "woken"
<1> DEFINE moved == [at EXCEPT ![m] = "done"]
<1>1. /\ moved \in [Messages -> Places] /\ moved[m] = "done"
      /\ \A k \in Messages : k # m => moved[k] = at[k]
  BY DEF LimiterInv, InboundTypeOK, Places
<1> HIDE DEF moved
<1>2. \A k \in Messages :
        \/ at'[k] = moved[k] /\ (k \in holding' <=> k # m /\ k \in holding)
        \/ k # m /\ at[k] = "waiting" /\ at'[k] = "woken" /\ k \in holding'
  BY <1>1, Released DEF moved, Places
<1> QED BY <1>1, <1>2

LEMMA FreshStep ==
  ASSUME LimiterInv, [InboundNext]_inboundVars, engine = "baileys", FreshKeys PROVE FreshKeys'
<1>0. /\ at \in [Messages -> Places] /\ lidToPn \in [Lids -> Phones \union {NoPhone}]
      /\ emitted \in [Messages -> Phones \union {NoPhone}] /\ LidOf \in [Messages -> Lids]
      /\ last \in Messages \union {NoMessage} /\ Timestamp \in [Messages -> Nat]
      /\ InboundTypeOK /\ Held /\ NoMessage \notin Messages
  BY InboundAssumption DEF LimiterInv, InboundTypeOK
<1>1. ASSUME NEW m \in Messages, Arrives(m) PROVE FreshKeys'
  <2>1. Admit(m, "start") /\ UNCHANGED <<engine, kind, order, lidToPn, emitted, dropped, last>>
    BY <1>1 DEF Arrives, lids
  <2>2. at' = [at EXCEPT ![m] = "start"] \/ at' = [at EXCEPT ![m] = "waiting"]
    BY <2>1 DEF Admit
  <2>3. KeysStill
    BY <1>0, <2>1, <2>2 DEF KeysStill
  <2> QED BY <2>3, StillFresh
<1>2. ASSUME NEW m \in Messages, Wakes(m) \/ StreamOpens(m) \/ DownloadEnds(m) \/ Deadline(m) \/ SendReturns(m)
      PROVE FreshKeys'
  <2>1. UNCHANGED <<engine, kind, order, lidToPn, emitted, dropped, last>>
    BY <1>2 DEF Wakes, StreamOpens, DownloadEnds, Deadline, SendReturns, lids
  <2>2. \/ at' = at \/ at' = [at EXCEPT ![m] = "start"]
        \/ at[m] = "media" /\ at' = [at EXCEPT ![m] = "mapping"]
    BY <1>2 DEF Wakes, StreamOpens, DownloadEnds, Deadline, SendReturns
  <2>3. KeysStill
    BY <1>0, <2>1, <2>2 DEF KeysStill
  <2> QED BY <2>3, StillFresh
<1>3. ASSUME NEW l \in Lids, NEW p \in Phones \union {NoPhone}, SharedRemember(l, p) PROVE FreshKeys'
  <2>1. KeysStill
    BY <1>3 DEF SharedRemember, KeysStill
  <2> QED BY <2>1, StillFresh
<1>4. ASSUME NEW p \in puts, FindCutoff(p) \/ Evict(p) \/ EvictionFails(p) PROVE FreshKeys'
  <2>1. KeysStill
    BY <1>4 DEF FindCutoff, Evict, EvictionFails, KeysStill, lids
  <2> QED BY <2>1, StillFresh
<1>5. CASE UNCHANGED inboundVars
  <2>1. KeysStill
    BY <1>5 DEF inboundVars, KeysStill, lids
  <2> QED BY <2>1, StillFresh
<1>6. ASSUME NEW m \in Messages, ProcessInboundMessage(m) PROVE FreshKeys'
  <2>1. /\ at[m] = "start" /\ order' = Append(order, m)
        /\ lidToPn' = [lidToPn EXCEPT ![LidOf[m]] = PhoneOf[m]]
        /\ UNCHANGED <<engine, kind, dropped, last>>
    BY <1>6 DEF ProcessInboundMessage, Learn
  <2>2. /\ \A k \in Messages : k # m => at'[k] = at[k] \/ at'[k] = "woken"
        /\ \/ at'[m] = "done" /\ emitted' = [emitted EXCEPT ![m] = PhoneOf[m]]
              /\ kind[m] = "reaction"
           \/ at'[m] # "done" /\ emitted' = emitted
    <3>1. CASE kind[m] = "reaction"
      <4>1. m \in holding
        BY <1>0, <2>1 DEF Held, HasSlot
      <4>2. /\ Release(m, [at EXCEPT ![m] = "done"])
            /\ emitted' = [emitted EXCEPT ![m] = lidToPn'[LidOf[m]]]
        BY <1>6, <3>1 DEF ProcessInboundMessage
      <4>3. lidToPn'[LidOf[m]] = PhoneOf[m]
        BY <1>0, <2>1
      <4> QED BY <3>1, <4>1, <4>2, <4>3, <2>1, HandedOn
    <3>2. CASE kind[m] # "reaction"
      <4>1. /\ at' = [at EXCEPT ![m] = IF kind[m] = "media" THEN "media" ELSE "mapping"]
            /\ emitted' = emitted
        BY <1>6, <3>2 DEF ProcessInboundMessage
      <4> QED BY <4>1, <1>0
    <3> QED BY <3>1, <3>2
  <2>3. /\ \A k \in Messages : \A p : FromKey(k, p) => FromKey(k, p)' /\ FromKey(k, PhoneOf[m])'
        /\ FromKey(m, PhoneOf[m])'
    BY <1>0, <2>1, KeyRead
  <2>4. Current'
    <3>1. SUFFICES ASSUME NEW k \in Messages, at'[k] \in {"media", "mapping"}
                   PROVE FromKey(k, lidToPn[LidOf[k]])'
      BY DEF Current
    <3>2. lidToPn'[LidOf[k]] = IF LidOf[k] = LidOf[m] THEN PhoneOf[m] ELSE lidToPn[LidOf[k]]
      BY <1>0, <2>1
    <3>3. CASE k = m
      BY <3>2, <3>3, <2>3 DEF FromKey
    <3>4. CASE k # m
      <4>1. FromKey(k, lidToPn[LidOf[k]])
        BY <3>1, <3>4, <2>2 DEF FreshKeys, Current
      <4>2. FromKey(k, lidToPn[LidOf[k]])' <=>
              \E i, j \in DOMAIN order' : order'[i] = k /\ i <= j /\ lidToPn'[LidOf[k]] = PhoneOf[order'[j]]
        BY DEF FromKey
      <4> QED BY <4>1, <4>2, <3>2, <2>3 DEF FromKey
    <3> QED BY <3>3, <3>4
  <2>5. \A k \in Messages : at'[k] = "done" /\ k \notin dropped' => FromKey(k, emitted[k])'
    <3>1. SUFFICES ASSUME NEW k \in Messages, at'[k] = "done", k \notin dropped
                   PROVE \E i, j \in DOMAIN order' : order'[i] = k /\ i <= j /\ emitted'[k] = PhoneOf[order'[j]]
      BY <2>1 DEF FromKey
    <3>2. CASE k = m
      BY <3>1, <3>2, <2>2, <2>3, <1>0 DEF FromKey
    <3>3. CASE k # m
      <4>1. FromKey(k, emitted[k]) /\ emitted'[k] = emitted[k]
        BY <3>1, <3>3, <2>2, <1>0 DEF FreshKeys
      <4> QED BY <4>1, <2>3 DEF FromKey
    <3> QED BY <3>2, <3>3
  <2>6. LastIsNewest'
    BY <2>1, <2>2 DEF FreshKeys, LastIsNewest, Through
  <2> QED BY <2>4, <2>5, <2>6 DEF FreshKeys
<1>7. ASSUME NEW m \in Messages, Emit(m) PROVE FreshKeys'
  <2>1. /\ at[m] = "mapping" /\ UNCHANGED <<engine, kind, dropped, order, lidToPn>>
        /\ Release(m, [at EXCEPT ![m] = "done"])
        /\ emitted' = [emitted EXCEPT ![m] = lidToPn[LidOf[m]]]
        /\ last' = Newest(m)
    BY <1>7 DEF Emit, lids
  <2>2. m \in holding
    BY <1>0, <2>1 DEF Held, HasSlot
  <2>3. at'[m] = "done" /\ \A k \in Messages : k # m => at'[k] = at[k] \/ at'[k] = "woken"
    BY <2>1, <2>2, HandedOn
  <2>4. Current'
    BY <2>1, <2>3 DEF FreshKeys, Current, FromKey
  <2>5. \A k \in Messages : at'[k] = "done" /\ k \notin dropped' => FromKey(k, emitted[k])'
    <3>1. SUFFICES ASSUME NEW k \in Messages, at'[k] = "done", k \notin dropped
                   PROVE FromKey(k, emitted'[k])
      BY <2>1 DEF FromKey
    <3>2. CASE k = m
      BY <3>2, <2>1, <1>0 DEF FreshKeys, Current
    <3>3. CASE k # m
      BY <3>1, <3>3, <2>1, <2>3, <1>0 DEF FreshKeys
    <3> QED BY <3>2, <3>3
  <2>6. LastIsNewest'
    <3>1. SUFFICES ASSUME NEW k \in Messages, Through(k)'
                   PROVE last' # NoMessage /\ Timestamp[last'] >= Timestamp[k]
      BY DEF LastIsNewest
    <3>2. CASE k = m
      BY <3>2, <2>1, <1>0 DEF Newest
    <3>3. CASE k # m
      <4>1. Through(k)
        BY <3>1, <3>3, <2>1, <2>3 DEF Through
      <4>2. last # NoMessage /\ last \in Messages /\ Timestamp[last] >= Timestamp[k]
        BY <4>1, <1>0 DEF FreshKeys, LastIsNewest
      <4> QED BY <4>2, <2>1, <1>0 DEF Newest
    <3> QED BY <3>2, <3>3
  <2> QED BY <2>4, <2>5, <2>6 DEF FreshKeys
<1>8. ASSUME NEW m \in Messages, Drop(m) PROVE FreshKeys'
  <2>1. /\ at[m] = "mapping" /\ UNCHANGED <<engine, kind, emitted, order, lidToPn, last>>
        /\ Release(m, [at EXCEPT ![m] = "done"])
        /\ dropped' = dropped \union {m}
    BY <1>8 DEF Drop, lids
  <2>2. m \in holding
    BY <1>0, <2>1 DEF Held, HasSlot
  <2>3. at'[m] = "done" /\ \A k \in Messages : k # m => at'[k] = at[k] \/ at'[k] = "woken"
    BY <2>1, <2>2, HandedOn
  <2> QED BY <2>1, <2>3 DEF FreshKeys, Current, FromKey, LastIsNewest, Through
<1> QED BY <1>1, <1>2, <1>3, <1>4, <1>5, <1>6, <1>7, <1>8 DEF InboundNext, MessageStep

\* The phones of the index and their lids change together: the entry under the phone before
\* is the only one there was.
LEMMA Indexed ==
  ASSUME DataTyped, ReverseExact, NEW l \in Lids, NEW p \in Phones \union {NoPhone}, Remember(l, p)
  PROVE ReverseExact'
<1>1. CASE UNCHANGED <<lidToPhone, phoneToLids>>
  BY <1>1 DEF ReverseExact
<1>2. CASE Index(l, p)
  <2>1. /\ lidToPhone' = [lidToPhone EXCEPT ![l] = p]
        /\ phoneToLids' = [q \in Phones |->
             IF q = p THEN phoneToLids[q] \union {l}
             ELSE IF q = lidToPhone[l] THEN phoneToLids[q] \ {l} ELSE phoneToLids[q]]
    BY <1>2 DEF Index
  <2>2. SUFFICES ASSUME NEW q \in Phones PROVE phoneToLids'[q] = {k \in Lids : lidToPhone'[k] = q}
    BY DEF ReverseExact
  <2>3. phoneToLids[q] = {k \in Lids : lidToPhone[k] = q}
    BY DEF ReverseExact
  <2>4. \A k \in Lids : lidToPhone'[k] = IF k = l THEN p ELSE lidToPhone[k]
    BY <2>1 DEF DataTyped
  <2>5. q # p /\ q # lidToPhone[l] => l \notin phoneToLids[q]
    BY <2>3
  <2> QED BY <2>1, <2>3, <2>4, <2>5
<1> QED BY <1>1, <1>2 DEF Remember

LEMMA ReverseStep == DataTyped /\ ReverseExact /\ [InboundNext]_inboundVars => ReverseExact'
<1> SUFFICES ASSUME DataTyped, ReverseExact, [InboundNext]_inboundVars PROVE ReverseExact'
  OBVIOUS
<1>1. \/ UNCHANGED lids
      \/ \E l \in Lids, p \in Phones \union {NoPhone} : SharedRemember(l, p)
      \/ \E m \in Messages : ProcessInboundMessage(m)
  BY DEF InboundNext, MessageStep, Arrives, Wakes, Deadline, Emit, Drop, StreamOpens, DownloadEnds,
         SendReturns, FindCutoff, Evict, EvictionFails, inboundVars
<1>2. CASE UNCHANGED lids
  BY <1>2 DEF lids, ReverseExact
<1>3. ASSUME NEW l \in Lids, NEW p \in Phones \union {NoPhone}, SharedRemember(l, p) PROVE ReverseExact'
  BY <1>3, Indexed DEF SharedRemember
<1>4. ASSUME NEW m \in Messages, ProcessInboundMessage(m) PROVE ReverseExact'
  <2>1. LidOf[m] \in Lids /\ PhoneOf[m] \in Phones
    BY InboundAssumption
  <2> QED BY <1>4, <2>1, Indexed DEF ProcessInboundMessage, Learn
<1> QED BY <1>1, <1>2, <1>3, <1>4

FreshInv == LimiterInv /\ ReverseExact /\ (engine = "baileys" => FreshKeys)

\* A message is emitted with the phone of its own key or of one read later, the chat shows the
\* newest of the messages that came through, and the reverse index is the inverse of the index,
\* whatever overtakes what.
THEOREM StaysUpToDate == InboundSpec => []UpToDate
<1>1. InboundInit => FreshInv
  <2> SUFFICES ASSUME InboundInit PROVE FreshInv
    OBVIOUS
  <2>1. ReverseExact
    BY InboundAssumption DEF InboundInit, ReverseExact
  <2>2. FreshKeys
    BY DEF InboundInit, FreshKeys, Current, LastIsNewest, Through
  <2> QED BY <2>1, <2>2, LimiterInit DEF FreshInv
<1>2. FreshInv /\ [InboundNext]_inboundVars => FreshInv'
  <2> SUFFICES ASSUME FreshInv, [InboundNext]_inboundVars PROVE FreshInv'
    OBVIOUS
  <2>1. LimiterInv' /\ ReverseExact'
    BY LimiterStep, ReverseStep, TypeParts DEF FreshInv, LimiterInv
  <2>2. engine' = engine
    BY DEF InboundNext, MessageStep, Arrives, Wakes, ProcessInboundMessage, Deadline, Emit, Drop, StreamOpens,
           DownloadEnds, SendReturns, SharedRemember, FindCutoff, Evict, EvictionFails, inboundVars
  <2> QED BY <2>1, <2>2, FreshStep DEF FreshInv
<1>3. FreshInv => UpToDate
  BY DEF FreshInv, FreshKeys, FromKey, UpToDate, EmittedUpToDate, LastIsNewest, Through
<1> QED BY <1>1, <1>2, <1>3, PTL DEF InboundSpec

-----------------------------------------------------------------------------
\* The stored messages.

Newer(c) == {k \in DOMAIN rows : rows[k] > c}

\* No two rows are as new, and there are finitely many.
Rows ==
  /\ IsFiniteSet(DOMAIN rows)
  /\ \A k, l \in DOMAIN rows : rows[k] = rows[l] => k = l

\* What an eviction will delete is still older than Limit messages.
CutsAreOld == \A p \in puts : p.at = "delete" => Cardinality(Newer(p.cut)) >= Limit

\* A store above its limit has an eviction that looks, one that is about to delete what is too
\* much, or one that failed last.
Cared ==
  \/ unevicted
  \/ \E p \in puts : p.at = "find" \/ Cardinality(Newer(p.cut)) <= Limit
  \/ Cardinality(DOMAIN rows) <= Limit

StoreInv == StoreTyped /\ Rows /\ CutsAreOld /\ Cared

LEMMA NewerIsFinite ==
  ASSUME Rows, NEW c
  PROVE IsFiniteSet(Newer(c)) /\ Cardinality(Newer(c)) \in Nat /\ Cardinality(DOMAIN rows) \in Nat
<1>1. Newer(c) \subseteq DOMAIN rows
  BY DEF Newer
<1> QED BY <1>1, FS_Subset, FS_CardinalityType DEF Rows

\* Messages none of which has to go are no more than Limit: all but the oldest are newer than it.
LEMMA NoneToGo ==
  ASSUME StoreTyped, Rows, NEW c \in Nat, Newer(c) \intersect Cutoff = {}
  PROVE Cardinality(Newer(c)) <= Limit
<1>1. CASE Newer(c) = {}
  BY <1>1, FS_EmptySet, InboundAssumption
<1>2. CASE Newer(c) # {}
  <2> DEFINE V == {rows[k] : k \in Newer(c)}
  <2>1. \A k \in Newer(c) : k \in DOMAIN rows /\ rows[k] \in V /\ rows[k] \in Nat /\ rows[k] > c
    BY DEF Newer, StoreTyped
  <2>2. V \subseteq Nat /\ V # {}
    BY <1>2, <2>1
  <2>3. \E v \in V : \A w \in V : v <= w
    <3> HIDE DEF V
    <3> QED BY <2>2, Smallest
  <2>4. PICK k \in Newer(c) : \A l \in Newer(c) : rows[k] <= rows[l]
    BY <2>1, <2>3
  <2>5. \A l \in DOMAIN rows : l \in Newer(rows[k]) <=> l \in Newer(c) /\ l # k
    BY <2>1, <2>4 DEF Newer, Rows, StoreTyped
  <2>6. Newer(rows[k]) = Newer(c) \ {k}
    BY <2>5 DEF Newer
  <2>7. ~(Cardinality(Newer(rows[k])) >= Limit)
    BY <2>1 DEF Cutoff, Newer
  <2>8. Cardinality(Newer(c) \ {k}) = Cardinality(Newer(c)) - 1
    BY NewerIsFinite, FS_RemoveElement
  <2> QED BY <2>6, <2>7, <2>8, NewerIsFinite, InboundAssumption
<1> QED BY <1>1, <1>2

\* A row more, or a row renewed, takes nothing from what is newer than a cut.
LEMMA UpsertKeeps ==
  ASSUME StoreInv, NEW m \in Messages, NEW by \in {"event", "send"}, Upsert(m, by)
  PROVE Rows' /\ CutsAreOld' /\ Cared'
<1>1. CASE UNCHANGED store
  BY <1>1 DEF store, StoreInv, Rows, CutsAreOld, Cared, Newer
<1>2. CASE ~UNCHANGED store
  <2>1. /\ rows' = [k \in DOMAIN rows \union {m} |-> IF k = m THEN clock + 1 ELSE rows[k]]
        /\ clock' = clock + 1 /\ unevicted' = unevicted
        /\ puts' = puts \union {[msg |-> m, by |-> by, at |-> "find", cut |-> 0]}
    BY <1>2 DEF Upsert
  <2>2. /\ DOMAIN rows' = DOMAIN rows \union {m} /\ rows'[m] = clock + 1
        /\ \A k \in DOMAIN rows : k # m => rows'[k] = rows[k]
        /\ \A k \in DOMAIN rows : rows[k] \in 1..clock
        /\ clock \in Nat
    BY <2>1 DEF StoreInv, StoreTyped
  <2>3. Rows'
    <3>1. IsFiniteSet(DOMAIN rows')
      BY <2>2, FS_AddElement DEF StoreInv, Rows
    <3>2. \A k, l \in DOMAIN rows' : rows'[k] = rows'[l] => k = l
      BY <2>2 DEF StoreInv, Rows
    <3> QED BY <3>1, <3>2 DEF Rows
  <2>4. ASSUME NEW p \in puts', p.at = "delete"
        PROVE Cardinality(Newer(p.cut))' >= Limit
    <3>1. p \in puts /\ p.cut \in Nat
      BY <2>1, <2>4 DEF StoreInv, StoreTyped, Put
    <3> DEFINE N == {k \in DOMAIN rows' : rows'[k] > p.cut}
    <3>2. Newer(p.cut) \subseteq N
      BY <2>2, <3>1 DEF Newer
    <3>3. IsFiniteSet(N)
      BY <2>3, FS_Subset DEF Rows
    <3>4. Cardinality(Newer(p.cut)) <= Cardinality(N)
      BY <3>2, <3>3, FS_Subset
    <3>5. Cardinality(Newer(p.cut)) >= Limit
      BY <3>1, <2>4 DEF StoreInv, CutsAreOld
    <3>6. Cardinality(Newer(p.cut)) \in Nat /\ Cardinality(N) \in Nat /\ Limit \in Nat
      BY <3>3, FS_CardinalityType, NewerIsFinite, InboundAssumption DEF StoreInv
    <3>7. Cardinality(N) >= Limit
      BY <3>4, <3>5, <3>6
    <3> QED BY <3>7 DEF Newer
  <2>5. CutsAreOld'
    BY <2>4 DEF CutsAreOld
  <2>6. Cared'
    <3> DEFINE q == [msg |-> m, by |-> by, at |-> "find", cut |-> 0]
    <3>1. q \in puts' /\ q.at = "find"
      BY <2>1
    <3> HIDE DEF q
    <3> QED BY <3>1 DEF Cared
  <2> QED BY <2>3, <2>5, <2>6
<1> QED BY <1>1, <1>2

LEMMA StoreInvStep == StoreInv /\ [InboundNext]_inboundVars => StoreInv'
<1> SUFFICES ASSUME StoreInv, [InboundNext]_inboundVars PROVE Rows' /\ CutsAreOld' /\ Cared'
  BY StoreStep DEF StoreInv
<1>1. CASE UNCHANGED store
  BY <1>1 DEF store, StoreInv, Rows, CutsAreOld, Cared, Newer
<1>2. ASSUME NEW m \in Messages, Emit(m) \/ SendReturns(m) PROVE Rows' /\ CutsAreOld' /\ Cared'
  <2>1. UNCHANGED store \/ Upsert(m, "event") \/ Upsert(m, "send")
    BY <1>2 DEF Emit, SendReturns
  <2> QED BY <2>1, <1>1, UpsertKeeps
<1>3. ASSUME NEW p \in puts, FindCutoff(p) PROVE Rows' /\ CutsAreOld' /\ Cared'
  <2>1. p.at = "find" /\ rows' = rows
    BY <1>3 DEF FindCutoff
  <2>2. Rows'
    BY <2>1 DEF StoreInv, Rows
  <2>3. CASE Cutoff = {}
    <3>1. puts' \subseteq puts
      BY <1>3, <2>3 DEF FindCutoff
    <3>2. CutsAreOld'
      BY <2>1, <3>1 DEF StoreInv, CutsAreOld, Newer
    <3>3. Newer(0) = DOMAIN rows
      BY DEF Newer, StoreInv, StoreTyped
    <3>4. Cardinality(DOMAIN rows) <= Limit
      BY <2>3, <3>3, NoneToGo DEF StoreInv
    <3> QED BY <2>1, <2>2, <3>2, <3>4 DEF Cared
  <2>4. CASE Cutoff # {}
    <3>1. PICK n \in Cutoff :
            /\ puts' = (puts \ {p}) \union {[p EXCEPT !.at = "delete", !.cut = rows[n]]}
            /\ \A m \in Cutoff : rows[m] <= rows[n]
            /\ rows[n] \in Nat
      BY <1>3, <2>4, CutoffIsNewest DEF FindCutoff, StoreInv
    <3> DEFINE q == [p EXCEPT !.at = "delete", !.cut = rows[n]]
    <3>2. q.cut = rows[n] /\ q \in puts'
      BY <3>1 DEF StoreInv, StoreTyped, Put
    <3> HIDE DEF q
    <3>3. n \in DOMAIN rows /\ Cardinality(Newer(rows[n])) >= Limit
      BY DEF Cutoff, Newer
    <3>4. \A r \in puts' : r \in puts \/ r.cut = rows[n]
      BY <3>1, <3>2 DEF q
    <3>5. CutsAreOld'
      BY <2>1, <3>3, <3>4 DEF StoreInv, CutsAreOld, Newer
    <3>6. Newer(rows[n]) \intersect Cutoff = {}
      <4>1. \A k \in Newer(rows[n]) : k \in DOMAIN rows /\ rows[k] > rows[n] /\ rows[k] \in Nat
        BY DEF Newer, StoreInv, StoreTyped
      <4>2. \A k \in Cutoff : ~(rows[k] > rows[n]) \/ rows[k] \notin Nat
        BY <3>1
      <4> QED BY <4>1, <4>2
    <3>7. Cardinality(Newer(rows[n])) <= Limit
      BY <3>1, <3>6, NoneToGo DEF StoreInv
    <3>8. Cared'
      BY <2>1, <3>2, <3>7 DEF Cared, Newer
    <3> QED BY <2>2, <3>5, <3>8
  <2> QED BY <2>3, <2>4
<1>4. ASSUME NEW p \in puts, Evict(p) PROVE Rows' /\ CutsAreOld' /\ Cared'
  <2>1. /\ p.at = "delete" /\ p.cut \in Nat /\ puts' = puts \ {p} /\ unevicted' = unevicted
        /\ rows' = [m \in Newer(p.cut) |-> rows[m]]
    BY <1>4 DEF Evict, StoreInv, StoreTyped, Put, Newer
  <2>2. DOMAIN rows' = Newer(p.cut) /\ \A m \in Newer(p.cut) : rows'[m] = rows[m] /\ m \in DOMAIN rows
    BY <2>1 DEF Newer
  <2>3. Rows'
    BY <2>2, NewerIsFinite DEF StoreInv, Rows
  <2>4. \A r \in puts : r.cut \in Nat /\ Newer(r.cut)' = {k \in Newer(p.cut) : rows[k] > r.cut}
    BY <2>2 DEF Newer, StoreInv, StoreTyped, Put
  <2>5. ASSUME NEW r \in puts', r.at = "delete" PROVE Cardinality(Newer(r.cut)') >= Limit
    <3>1. r \in puts /\ r.cut \in Nat
      BY <2>1, <2>4
    <3>2. Newer(r.cut)' = Newer(p.cut) \/ Newer(r.cut)' = Newer(r.cut)
      <4>1. CASE r.cut <= p.cut
        <5>1. \A k \in Newer(p.cut) : rows[k] > r.cut
          BY <2>1, <3>1, <4>1 DEF Newer, StoreInv, StoreTyped
        <5> QED BY <5>1, <3>1, <2>4
      <4>2. CASE p.cut <= r.cut
        <5>1. \A k \in DOMAIN rows : rows[k] > r.cut => rows[k] > p.cut
          BY <2>1, <3>1, <4>2 DEF StoreInv, StoreTyped
        <5> QED BY <5>1, <3>1, <2>4 DEF Newer
      <4> QED BY <4>1, <4>2, <3>1, <2>1
    <3>3. Cardinality(Newer(p.cut)) >= Limit /\ Cardinality(Newer(r.cut)) >= Limit
      BY <2>1, <2>5, <3>1 DEF StoreInv, CutsAreOld
    <3> QED BY <3>2, <3>3
  <2>6. CutsAreOld'
    BY <2>5 DEF CutsAreOld
  <2>7. Cared'
    <3>1. CASE unevicted
      BY <2>1, <3>1 DEF Cared
    <3>2. ASSUME NEW r \in puts, r.at = "find" \/ Cardinality(Newer(r.cut)) <= Limit PROVE Cared'
      <4>1. CASE r = p
        BY <2>1, <2>2, <3>2, <4>1 DEF Cared
      <4>2. CASE r # p
        <5>1. r \in puts' /\ Newer(r.cut)' \subseteq Newer(r.cut)
          BY <2>1, <2>4, <4>2 DEF Newer
        <5>2. Cardinality(Newer(r.cut)') <= Cardinality(Newer(r.cut)) /\ Cardinality(Newer(r.cut)') \in Nat
          BY <5>1, NewerIsFinite, FS_Subset, FS_CardinalityType DEF StoreInv
        <5>3. Cardinality(Newer(r.cut)) <= Limit => Cardinality(Newer(r.cut)') <= Limit
          BY <5>2, NewerIsFinite, InboundAssumption DEF StoreInv
        <5> QED BY <3>2, <5>1, <5>3 DEF Cared
      <4> QED BY <4>1, <4>2
    <3>3. CASE Cardinality(DOMAIN rows) <= Limit
      <4>1. DOMAIN rows' \subseteq DOMAIN rows
        BY <2>2
      <4>2. /\ Cardinality(DOMAIN rows') <= Cardinality(DOMAIN rows)
            /\ Cardinality(DOMAIN rows') \in Nat /\ Cardinality(DOMAIN rows) \in Nat
        BY <4>1, FS_Subset, FS_CardinalityType DEF StoreInv, Rows
      <4> QED BY <3>3, <4>2, InboundAssumption DEF Cared
    <3> QED BY <3>1, <3>2, <3>3 DEF StoreInv, Cared
  <2> QED BY <2>3, <2>6, <2>7
<1>5. ASSUME NEW p \in puts, EvictionFails(p) PROVE Rows' /\ CutsAreOld' /\ Cared'
  BY <1>5 DEF EvictionFails, StoreInv, Rows, CutsAreOld, Cared, Newer
<1>6. \/ UNCHANGED store
      \/ \E m \in Messages : Emit(m) \/ SendReturns(m)
      \/ \E p \in puts : FindCutoff(p) \/ Evict(p) \/ EvictionFails(p)
  BY DEF InboundNext, MessageStep, Arrives, Wakes, ProcessInboundMessage, Deadline, Drop, StreamOpens,
         DownloadEnds, SharedRemember, inboundVars
<1> QED BY <1>1, <1>2, <1>3, <1>4, <1>5, <1>6

\* Whoever goes is older than Limit messages: only an eviction deletes, and its cut is old.
LEMMA TheNewestStay ==
  ASSUME StoreInv, [InboundNext]_inboundVars, NEW m \in DOMAIN rows, m \notin DOMAIN rows'
  PROVE Cardinality({k \in DOMAIN rows : rows[k] > rows[m]}) >= Limit
<1>1. \/ DOMAIN rows \subseteq DOMAIN rows'
      \/ \E p \in puts : Evict(p)
  BY DEF InboundNext, MessageStep, Arrives, Wakes, ProcessInboundMessage, Deadline, Drop, StreamOpens,
         DownloadEnds, SharedRemember, Emit, SendReturns, Upsert, FindCutoff, EvictionFails, store, inboundVars
<1>2. PICK p \in puts : Evict(p)
  BY <1>1
<1>3. p.at = "delete" /\ p.cut \in Nat /\ rows[m] <= p.cut
  BY <1>2 DEF Evict, StoreInv, StoreTyped, Put
<1>4. Newer(p.cut) \subseteq Newer(rows[m])
  BY <1>3 DEF Newer, StoreInv, StoreTyped
<1>5. /\ Cardinality(Newer(p.cut)) <= Cardinality(Newer(rows[m]))
      /\ Cardinality(Newer(p.cut)) \in Nat /\ Cardinality(Newer(rows[m])) \in Nat
  BY <1>4, NewerIsFinite, FS_Subset DEF StoreInv
<1>6. Cardinality(Newer(p.cut)) >= Limit
  BY <1>3 DEF StoreInv, CutsAreOld
<1> QED BY <1>5, <1>6, InboundAssumption DEF Newer

\* No eviction takes a message that is among the newest, however old the cutoff it acts on; and
\* with none due the store is within its limit, unless the last one failed.
THEOREM StoreIsExact == InboundSpec => StoreExact
<1>1. InboundInit => StoreInv
  <2> SUFFICES ASSUME InboundInit PROVE StoreInv
    OBVIOUS
  <2>1. DOMAIN rows = {} /\ puts = {} /\ clock = 0 /\ unevicted = FALSE
    BY NothingStored DEF InboundInit
  <2>2. StoreTyped /\ CutsAreOld
    BY <2>1 DEF StoreTyped, CutsAreOld
  <2>3. Rows /\ Cared
    BY <2>1, FS_EmptySet, InboundAssumption DEF Rows, Cared
  <2> QED BY <2>2, <2>3 DEF StoreInv
<1>2. StoreInv /\ [InboundNext]_inboundVars => StoreInv'
  BY StoreInvStep
<1>3. StoreInv => StoreBounded
  BY DEF StoreInv, Cared, StoreBounded
<1>4. StoreInv /\ [InboundNext]_inboundVars =>
        [\A m \in DOMAIN rows : m \notin DOMAIN rows' =>
           Cardinality({k \in DOMAIN rows : rows[k] > rows[m]}) >= Limit]_inboundVars
  BY TheNewestStay
<1> QED BY <1>1, <1>2, <1>3, <1>4, PTL DEF InboundSpec, StoreExact, KeepsNewest
=============================================================================
