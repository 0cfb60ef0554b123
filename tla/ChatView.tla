------------------------------ MODULE ChatView ------------------------------
(***************************************************************************)
(* The threads of the dashboard's chat page (dashboard/src/pages/          *)
(* Chats.tsx): the cached thread of each chat (useChatMessages.ts,         *)
(* chatMessages.ts), loaded once from the database and the engine and kept *)
(* up to date by socket events (useWebSocket.ts), and the bubble a send    *)
(* shows before its answer.  The server is its rows, its engine and the    *)
(* rooms of the events gateway (events.gateway.ts), as far as the page     *)
(* sees them.                                                              *)
(***************************************************************************)
EXTENDS Integers, Sequences, SequencesExt, FiniteSets

CONSTANTS
  Sessions, Chats, SessionOf,
  Messages, ChatOf,
  Own,          \* the messages that are sent; the others come in
  Absent,       \* no cached thread
  NoChat, NoMessage,
  MaxRequests   \* bound: subscription requests on their way or being decided

ASSUME ChatViewAssumption ==
  /\ SessionOf \in [Chats -> Sessions] /\ ChatOf \in [Messages -> Chats]
  /\ Own \subseteq Messages
  /\ NoChat \notin Chats /\ NoMessage \notin Messages
  /\ MaxRequests \in Nat \ {0}

VARIABLES
  selected, active, \* selectedSessionId, activeChat
  thread,    \* the React Query cache: the bubbles of a chat
  load,      \* its fetch: whether the rows were read, and which
  landed,    \* threads that hold what the database was asked for (history)
  sending,   \* the message whose send is not answered
  online, up, joining, joined, \* the socket, its requests, subscriptions being decided, granted
  wire,      \* events on their way to the page
  at,        \* where a message is at the server
  announced, \* its event was emitted
  acked,     \* the receipts of a sent message
  missed     \* messages whose event did not get into a thread or overtook its fetch (history)

page == <<selected, active, thread, load, landed, sending>>
socket == <<online, up, joining, joined>>
server == <<at, announced, acked>>
viewVars == <<page, socket, wire, server, missed>>

Receipts == {"delivered", "read"}
Ticks == Receipts \union {"pending", "sent", "failed"}
\* What identifies a bubble: the WhatsApp id, a row that has none yet, the placeholder's own.
Bubble == [kind : {"wa", "row", "temp"}, msg : Messages, tick : Ticks]
ASSUME AbsentAssumption == Absent \notin Seq(Bubble)

Load == [st : {"none", "asked", "failed", "read"}, rows : SUBSET Bubble]
Idle == [st |-> "none", rows |-> {}]
Asked == [st |-> "asked", rows |-> {}]
Failed == [st |-> "failed", rows |-> {}]

\* none, row: the row of a send that has no id.  engine: WhatsApp has it.  stored: a row
\* with its id.  refused: the engine threw.
Stages == {"none", "row", "engine", "stored", "refused"}

ViewTypeOK ==
  /\ selected \in Sessions /\ active \in Chats \union {NoChat}
  /\ thread \in [Chats -> Seq(Bubble) \union {Absent}]
  /\ load \in [Chats -> Load] /\ landed \subseteq Chats
  /\ sending \in Own \union {NoMessage}
  /\ online \in BOOLEAN /\ joining \subseteq Sessions /\ joined \subseteq Sessions
  /\ up \in Seq({"on", "off"} \X Sessions)
  /\ wire \subseteq ({"message"} \union Receipts) \X Messages
  /\ at \in [Messages -> Stages] /\ announced \subseteq Messages
  /\ acked \in [Own -> SUBSET Receipts] /\ missed \subseteq Messages

ViewInit ==
  /\ selected \in Sessions /\ active = NoChat
  /\ thread = [c \in Chats |-> Absent] /\ load = [c \in Chats |-> Idle] /\ landed = {}
  /\ sending = NoMessage
  /\ online = FALSE /\ up = <<>> /\ joining = {} /\ joined = {} /\ wire = {}
  /\ at = [m \in Messages |-> "none"] /\ announced = {} /\ acked = [m \in Own |-> {}]
  /\ missed = {}

-----------------------------------------------------------------------------
\* Threads.

Rank == [pending |-> 0, sent |-> 1, delivered |-> 2, read |-> 3]
\* Variant: the last word counts.
LastTick(tick, new) == new
MergeDeliveryStatus(tick, new) ==
  IF tick = "failed" THEN tick
  ELSE IF new = "failed" THEN IF tick \in {"pending", "sent"} THEN new ELSE tick
  ELSE IF Rank[new] >= Rank[tick] THEN new ELSE tick

Key(b) == <<b.kind, b.msg>>
Wa(m, tick) == [kind |-> "wa", msg |-> m, tick |-> tick]
Temp(m) == [kind |-> "temp", msg |-> m, tick |-> "pending"]
In(b, list) == \E i \in DOMAIN list : list[i] = b
Shows(list, m) == \E i \in DOMAIN list : list[i].msg = m
Held(list, key) == list # Absent /\ \E i \in DOMAIN list : Key(list[i]) = key

WithTick(list, key, tick) ==
  [i \in DOMAIN list |->
     IF Key(list[i]) = key THEN [list[i] EXCEPT !.tick = MergeDeliveryStatus(@, tick)] ELSE list[i]]
MergeOrAppend(list, b) ==
  IF Held(list, Key(b)) THEN WithTick(list, Key(b), b.tick)
                       ELSE Append(list, b)

\* Variant: only the chat on screen is kept up to date.
AppendOnScreen(c, b) ==
  [thread EXCEPT ![c] = IF @ = Absent \/ c # active THEN @ ELSE MergeOrAppend(@, b)]
\* A thread that is not cached stays so.
AppendMessage(c, b) == [thread EXCEPT ![c] = IF @ = Absent THEN @ ELSE MergeOrAppend(@, b)]

\* The updaters of an answered send begin with an empty thread when there is none.
Cached(c) == IF thread[c] = Absent THEN <<>> ELSE thread[c]

-----------------------------------------------------------------------------
\* What the page does not get to know: an event that is lost or ignored while the thread is
\* cached, and one that comes after the rows of a fetch under way were read without it.

Loading(c) == load[c] # Idle
Overtook(m) ==
  load[ChatOf[m]].st = "read" /\ \A b \in load[ChatOf[m]].rows : b.msg # m
Lost(m) == thread[ChatOf[m]] # Absent \/ Overtook(m)
MessagesIn(events) == {e[2] : e \in {x \in events : x[1] = "message"}}

-----------------------------------------------------------------------------
\* The user.

\* A subscription goes through the socket, if it is connected.
Ask(requests) == up' = IF online THEN up \o requests ELSE up

SelectSession(s) ==
  /\ s # selected /\ Len(up) + Cardinality(joining) + 2 <= MaxRequests
  /\ selected' = s /\ active' = NoChat
  /\ Ask(<<<<"off", selected>>, <<"on", s>>>>)
  /\ UNCHANGED <<thread, load, landed, sending, online, joining, joined, wire, server, missed>>

\* A chat is opened, or the window is focused again: a thread that is not cached is fetched.
OpenChat(c) ==
  LET fetch == thread[c] = Absent /\ ~Loading(c) IN
  /\ SessionOf[c] = selected /\ (active # c \/ fetch)
  /\ active' = c
  /\ load' = IF fetch THEN [load EXCEPT ![c] = Asked] ELSE load
  /\ UNCHANGED <<selected, thread, landed, sending, socket, wire, server, missed>>

CloseChat ==
  /\ active # NoChat
  /\ active' = NoChat
  /\ UNCHANGED <<selected, thread, load, landed, sending, socket, wire, server, missed>>

\* handleSend up to its request; a placeholder has an id of its own.
HandleSend(m) ==
  /\ m \in Own /\ at[m] = "none" /\ active = ChatOf[m] /\ sending = NoMessage
  /\ ~Held(thread[active], <<"temp", m>>)
  /\ sending' = m
  /\ thread' = AppendMessage(active, Temp(m))
  /\ UNCHANGED <<selected, active, load, landed, socket, wire, server, missed>>

\* The cache lets go of a thread nobody has looked at for five minutes.
Evict(c) ==
  /\ c # active /\ thread[c] # Absent /\ ~Loading(c)
  /\ thread' = [thread EXCEPT ![c] = Absent] /\ landed' = landed \ {c}
  /\ missed' = {m \in missed : ChatOf[m] # c}
  /\ UNCHANGED <<selected, active, load, sending, socket, wire, server>>

-----------------------------------------------------------------------------
\* The fetch of a thread.

\* A row shows the highest receipt.
Reached(m) == IF "read" \in acked[m] THEN "read" ELSE IF "delivered" \in acked[m] THEN "delivered" ELSE "sent"
RowOf(m) ==
  CASE at[m] = "stored" -> Wa(m, IF m \in Own THEN Reached(m) ELSE "sent")
    [] at[m] = "refused" -> [kind |-> "row", msg |-> m, tick |-> "failed"]
    [] OTHER -> [kind |-> "row", msg |-> m, tick |-> "pending"]
HasRow(m) == at[m] \in (IF m \in Own THEN Stages \ {"none"} ELSE {"stored"})

ReadRows(c) ==
  /\ load[c] = Asked
  /\ \/ load' = [load EXCEPT ![c] = Failed]
     \/ load' = [load EXCEPT ![c] =
                   [st |-> "read", rows |-> {RowOf(m) : m \in {x \in Messages : ChatOf[x] = c /\ HasRow(x)}}]]
  /\ UNCHANGED <<selected, active, thread, landed, sending, socket, wire, server, missed>>

\* What the engine remembers of a chat when it is asked, at any moment of the fetch: some of
\* what it has by now (mapEngineHistoryMessage: it counts as read).  Nothing, if that fails.
Histories(c) ==
  SUBSET {Wa(m, "read") : m \in {x \in Messages : ChatOf[x] = c /\ at[x] \in {"engine", "stored"}}}

\* mergeChatMessages: the row wins.
MergeChatMessages(db, history) ==
  SetToSeq(db \union {h \in history : \A b \in db : Key(b) # Key(h)})

\* Rows and history have settled, and not both failed: the answer replaces the thread,
\* whatever it holds by now.
Land(c) ==
  \E history \in Histories(c) :
    LET list == MergeChatMessages(load[c].rows, history) IN
    /\ load[c].st \in {"read", "failed"}
    /\ thread' = [thread EXCEPT ![c] = list]
    /\ load' = [load EXCEPT ![c] = Idle]
    /\ landed' = IF load[c].st = "read" THEN landed \union {c} ELSE landed \ {c}
    /\ missed' = {m \in missed : ~(ChatOf[m] = c /\ Shows(list, m))}
    /\ UNCHANGED <<selected, active, sending, socket, wire, server>>

LoadFails(c) ==
  /\ load[c] = Failed
  /\ load' = [load EXCEPT ![c] = Idle]
  /\ UNCHANGED <<selected, active, thread, landed, sending, socket, wire, server, missed>>

-----------------------------------------------------------------------------
\* The answer of a send.

Renamed(list, m) ==
  [i \in DOMAIN list |-> IF Key(list[i]) = <<"temp", m>> THEN Wa(m, "sent") ELSE list[i]]
\* Variant: the placeholder is renamed whether or not the echo is there.
ResolvedUnguarded(list, m) == Renamed(list, m)
\* The filter drops one bubble: an id is in a list once (ShownOnce).
Resolved(list, m) ==
  IF Held(list, <<"wa", m>>) THEN RemoveFirstMatch(list, LAMBDA b : Key(b) = <<"temp", m>>)
                             ELSE Renamed(list, m)

\* The server answers after its second save, which may have failed.
SendAnswered(m) ==
  /\ sending = m /\ at[m] \in {"engine", "stored"}
  /\ sending' = NoMessage
  /\ thread' = [thread EXCEPT ![ChatOf[m]] = Resolved(Cached(ChatOf[m]), m)]
  /\ UNCHANGED <<selected, active, load, landed, socket, wire, server, missed>>

\* The send was refused, or its answer was lost, or the request never came.
SendFails(m) ==
  /\ sending = m
  /\ sending' = NoMessage
  /\ thread' = [thread EXCEPT ![ChatOf[m]] = WithTick(Cached(ChatOf[m]), <<"temp", m>>, "failed")]
  /\ UNCHANGED <<selected, active, load, landed, socket, wire, server, missed>>

-----------------------------------------------------------------------------
\* The server.

\* emitToRooms: an event reaches the socket if it is in the room.
Emit(e) ==
  LET s == SessionOf[ChatOf[e[2]]] IN
  /\ wire' = IF s \in joined THEN wire \union {e} ELSE wire
  /\ missed' = IF s \notin joined /\ e[1] = "message" /\ Lost(e[2]) THEN missed \union {e[2]} ELSE missed

Becomes(m, from, to) == at[m] = from /\ at' = [at EXCEPT ![m] = to]

\* A send's first save, by the page or by another client; the engine's word on it; its
\* second save.
RowSaved(m) == Becomes(m, "none", "row")
EngineSends(m) == Becomes(m, "row", "engine")
EngineRefuses(m) == Becomes(m, "row", "refused")
RowNamed(m) == Becomes(m, "engine", "stored")
SendStep(m) ==
  /\ m \in Own
  /\ RowSaved(m) \/ EngineSends(m) \/ EngineRefuses(m) \/ RowNamed(m)
  /\ UNCHANGED <<page, socket, wire, announced, acked, missed>>

\* message.sent, once its hook has returned.
Echo(m) ==
  /\ m \in Own /\ at[m] \in {"engine", "stored"} /\ m \notin announced
  /\ announced' = announced \union {m}
  /\ Emit(<<"message", m>>)
  /\ UNCHANGED <<page, socket, at, acked>>

Ack(m, t) ==
  /\ m \in Own /\ at[m] \in {"engine", "stored"} /\ t \notin acked[m]
  /\ acked' = [acked EXCEPT ![m] = @ \union {t}]
  /\ Emit(<<t, m>>)
  /\ UNCHANGED <<page, socket, at, announced>>

\* A message comes in, and is announced when its row is in.
Receive(m) ==
  /\ m \notin Own /\ Becomes(m, "none", "engine")
  /\ UNCHANGED <<page, socket, wire, announced, acked, missed>>
Inserted(m) ==
  /\ m \notin Own /\ Becomes(m, "engine", "stored")
  /\ announced' = announced \union {m}
  /\ Emit(<<"message", m>>)
  /\ UNCHANGED <<page, socket, acked>>

-----------------------------------------------------------------------------
\* The socket.

\* handleIncomingMessage, handleIncomingMessageAck: an event of another session is ignored.
Handle(e) ==
  LET m == e[2]
      c == ChatOf[m]
      mine == SessionOf[c] = selected
  IN
  /\ e \in wire
  /\ wire' = wire \ {e}
  /\ \/ /\ e[1] = "message"
        /\ thread' = IF mine THEN AppendMessage(c, Wa(m, "sent")) ELSE thread
        /\ missed' = IF (IF mine THEN Overtook(m) ELSE Lost(m)) THEN missed \union {m} ELSE missed
     \/ /\ e[1] \in Receipts
        /\ thread' = IF mine /\ thread[c] # Absent
                     THEN [thread EXCEPT ![c] = WithTick(@, <<"wa", m>>, e[1])] ELSE thread
        /\ UNCHANGED missed
  /\ UNCHANGED <<selected, active, load, landed, sending, socket, server>>

Disconnect ==
  /\ online
  /\ online' = FALSE /\ up' = <<>> /\ joining' = {} /\ joined' = {} /\ wire' = {}
  /\ missed' = missed \union {m \in MessagesIn(wire) : Lost(m)}
  /\ UNCHANGED <<page, server>>

\* Variant: the subscription is left to the next choice of a session.
ConnectSilently ==
  /\ ~online
  /\ online' = TRUE
  /\ UNCHANGED <<page, up, joining, joined, wire, server, missed>>
\* The effect on isConnected subscribes.
Connect ==
  /\ ~online
  /\ online' = TRUE /\ up' = <<<<"on", selected>>>>
  /\ UNCHANGED <<page, joining, joined, wire, server, missed>>

\* handleSubscribe awaits the key's validation before it joins; handleUnsubscribe leaves.
Serve ==
  /\ up # <<>>
  /\ up' = Tail(up)
  /\ LET s == Head(up)[2] IN
     \/ Head(up)[1] = "on" /\ joining' = joining \union {s} /\ UNCHANGED joined
     \/ Head(up)[1] = "off" /\ joined' = joined \ {s} /\ UNCHANGED joining
  /\ UNCHANGED <<page, online, wire, server, missed>>

Join(s) ==
  /\ s \in joining
  /\ joining' = joining \ {s} /\ joined' = joined \union {s}
  /\ UNCHANGED <<page, online, up, wire, server, missed>>

-----------------------------------------------------------------------------
ViewNext ==
  \/ \E s \in Sessions : SelectSession(s) \/ Join(s)
  \/ \E c \in Chats :
       OpenChat(c) \/ Evict(c) \/ ReadRows(c) \/ Land(c) \/ LoadFails(c)
  \/ \E m \in Messages :
       \/ HandleSend(m) \/ SendAnswered(m) \/ SendFails(m)
       \/ SendStep(m) \/ Echo(m) \/ Receive(m) \/ Inserted(m)
       \/ \E t \in Receipts : Ack(m, t)
  \/ \E e \in wire : Handle(e)
  \/ CloseChat \/ Disconnect \/ Connect \/ Serve

ViewSpec == ViewInit /\ [][ViewNext]_viewVars

-----------------------------------------------------------------------------
\* Properties.

\* The race guard of handleSend and the merge of mergeOrAppend: whichever of a send's answer,
\* its echo and the fetch of its thread comes first, a thread never shows a message twice
\* under its WhatsApp id, and a placeholder that still waits is of the send under way.
ShownOnce ==
  \A c \in Chats : thread[c] # Absent =>
    /\ \A i, j \in DOMAIN thread[c] : Key(thread[c][i]) = Key(thread[c][j]) => i = j
    /\ \A m \in Own : In(Temp(m), thread[c]) => sending = m

\* "staleTime: Infinity; realtime updates flow through useChatMessagesActions, not refetches":
\* the rows that were read and the events since make a whole thread.  Every message that was
\* announced is shown, on its way, or one whose event was lost, ignored or overtook the fetch.
NothingMissing ==
  \A m \in announced :
    ChatOf[m] \in landed =>
      Shows(thread[ChatOf[m]], m) \/ <<"message", m>> \in wire \/ m \in missed

\* After a reconnect or a change of session, when its requests are answered, the page is
\* subscribed to the session it shows.
Listening == online /\ up = <<>> /\ joining = {} => selected \in joined

Advances(old, new) ==
  \/ new = old
  \/ new = "failed" /\ old \in {"pending", "sent"}
  \/ "failed" \notin {old, new} /\ Rank[new] > Rank[old]
\* Ticks only advance, and a message that is shown stays: no event and no answer, however
\* late or out of order, takes either back.  Only a fetch or the cache replaces a thread.
TicksAdvance ==
  [][\A c \in Chats :
       thread[c] # Absent /\ thread'[c] # Absent /\ load'[c] = load[c] =>
         \A i \in DOMAIN thread[c] :
           \E j \in DOMAIN thread'[c] :
             /\ thread'[c][j].msg = thread[c][i].msg
             /\ thread[c][i].kind \in {"wa", thread'[c][j].kind} => thread'[c][j].kind = thread[c][i].kind
             /\ thread[c][i].kind = thread'[c][j].kind =>
                  Advances(thread[c][i].tick, thread'[c][j].tick)]_viewVars

\* The state is of its type, and a thread is what one send, one echo and one fetch make of it.
ThreadsConsistent == ViewTypeOK /\ ShownOnce

\* The page keeps up: it is told of what happens in the session it shows, and shows it.
KeepsUp == NothingMissing /\ Listening

=============================================================================
