---------------------------- MODULE MessageStore ----------------------------
(***************************************************************************)
(* The messages table of one session and everything that writes it:        *)
(* MessageService's two-phase send, the engine callbacks of SessionService *)
(* (message, history, ack, reaction, revoke), and the session's deletion.  *)
(* Handlers are cut at their awaits.  repository.save re-reads the row and *)
(* writes every column that differs from the entity, or inserts the entity *)
(* when the row is gone: one step that leaves the row equal to the entity. *)
(***************************************************************************)
EXTENDS Integers, FiniteSets, Sequences

CONSTANTS
  Outgoing,   \* messages sent through the API
  Incoming,   \* messages the engine fires `message` for
  Historic,   \* messages that history batches carry
  Reacted,    \* messages that are reacted to
  Revocable,  \* messages that are deleted for everyone
  Senders,    \* who reacts
  PerSender,  \* bound: reactions of one sender to one message
  Fires,      \* bound: times the engine fires `message` for one message
  NoRow,      \* there is no such row
  Faults      \* TRUE: writes may reject

ASSUME StoreAssumption ==
  /\ Outgoing \intersect Incoming = {}
  /\ Historic \union Reacted \union Revocable \subseteq Outgoing \union Incoming
  /\ PerSender \in Nat /\ Fires \in Nat
  /\ Faults \in BOOLEAN

VARIABLES
  row,        \* messages: the row saveOutgoingMessage made, the one made under the id
  send, ent,  \* a send: its await, and the message entity it holds
  accepted,   \* messages WhatsApp has
  rejected,   \* sends whose engine call threw (history)
  receipts,   \* receipts that have come for a message
  retry,      \* receipts whose reconcile timer is pending
  lost,       \* messages one of whose receipts was lost (history)
  hooks,      \* onMessage: the handlers that await their hook,
  inserting,  \* the ones that await their insert,
  due,        \* and the ones that will dispatch
  fired,      \* bound: how often `message` was fired
  dispatched, \* message.received webhooks of a message (history)
  unsaved,    \* of these, the ones whose insert had failed (history)
  stopped,    \* messages a plugin handled itself, or that came to a retired engine (history)
  history,    \* persistHistoryMessages: whether its SELECT has seen the message
  chain,      \* reactionChains: the reactions to a message, in order
  applying,   \* applyReaction: the row that was read, with the reaction in it
  last,       \* the last reaction of each sender (history)
  excused,    \* reactions that found no row, or whose save failed (history)
  live,       \* the engine is the registered one
  deleted     \* the session is deleted

sends == <<send, ent, accepted, rejected>>
acks == <<receipts, retry, lost>>
handlers == <<hooks, inserting, due>>
inbound == <<handlers, fired, dispatched, unsaved, stopped>>
reactions == <<chain, applying, last, excused>>
vars == <<row, sends, acks, inbound, history, reactions, live, deleted>>

Messages == Outgoing \union Incoming
Keys == Messages \X {"api", "copy"}
MessageStatus == {"pending", "sent", "delivered", "read", "failed"}
Receipts == {"delivered", "read", "failed"}
Reaction == [to : Reacted, by : Senders, nr : 1..PerSender]
Row == [status : MessageStatus, linked : BOOLEAN, revoked : BOOLEAN,
        reacted : [Senders -> 0..PerSender]]
Entity == [key : Keys, row : Row]
ASSUME NoRowAssumption == NoRow \notin Row \union Entity

\* Type correctness of the table, the handlers and the history.
TypeOK ==
  /\ row \in [Keys -> Row \union {NoRow}]
  /\ send \in [Outgoing -> {"none", "sending", "saving", "done"}]
  /\ ent \in [Outgoing -> Row]
  /\ accepted \subseteq Outgoing /\ rejected \subseteq Outgoing
  /\ receipts \in [Outgoing -> SUBSET Receipts]
  /\ retry \subseteq Outgoing \X Receipts /\ lost \subseteq Outgoing
  /\ inserting \in [Incoming -> 0..Fires] /\ due \in [Incoming -> 0..Fires]
  /\ fired \in [Incoming -> 0..Fires] /\ hooks \in [Incoming -> 0..Fires]
  /\ dispatched \in [Incoming -> 0..Fires] /\ unsaved \in [Incoming -> 0..Fires]
  /\ stopped \subseteq Incoming
  /\ history \in [Historic -> {"none", "unseen", "done"}]
  /\ chain \in [Reacted -> Seq(Reaction)]
  /\ applying \in [Reaction -> Entity \union {NoRow}]
  /\ last \in [Reacted -> [Senders -> 0..PerSender]]
  /\ excused \subseteq Reaction
  /\ live \in BOOLEAN /\ deleted \in BOOLEAN

NoReactions == [s \in Senders |-> 0]
NewRow(st, linked) == [status |-> st, linked |-> linked, revoked |-> FALSE, reacted |-> NoReactions]

Init ==
  /\ row = [k \in Keys |-> NoRow]
  /\ send = [o \in Outgoing |-> "none"]
  /\ ent = [o \in Outgoing |-> NewRow("pending", FALSE)]
  /\ accepted = {} /\ rejected = {}
  /\ receipts = [o \in Outgoing |-> {}]
  /\ retry = {} /\ lost = {}
  /\ inserting = [i \in Incoming |-> 0] /\ due = [i \in Incoming |-> 0]
  /\ fired = [i \in Incoming |-> 0] /\ hooks = [i \in Incoming |-> 0]
  /\ dispatched = [i \in Incoming |-> 0] /\ unsaved = [i \in Incoming |-> 0]
  /\ stopped = {}
  /\ history = [m \in Historic |-> "none"]
  /\ chain = [m \in Reacted |-> <<>>]
  /\ applying = [r \in Reaction |-> NoRow]
  /\ last = [m \in Reacted |-> NoReactions]
  /\ excused = {}
  /\ live = TRUE /\ deleted = FALSE

\* The rows that carry a message's id; UNIQUE(sessionId, waMessageId) allows one.
Known(m) == {k \in {m} \X {"api", "copy"} : row[k] # NoRow /\ row[k].linked}

-----------------------------------------------------------------------------
\* MessageService.send*: a PENDING row, the engine, then SENT with the id, or FAILED.

Send(o) ==
  /\ send[o] = "none" /\ live
  /\ \/ /\ row' = [row EXCEPT ![<<o, "api">>] = NewRow("pending", FALSE)]
        /\ send' = [send EXCEPT ![o] = "sending"]
     \/ Faults /\ send' = [send EXCEPT ![o] = "done"] /\ UNCHANGED row
  /\ UNCHANGED <<ent, accepted, rejected, acks, inbound, history, reactions, live, deleted>>

Accept(o) ==
  /\ send[o] = "sending"
  /\ accepted' = accepted \union {o}
  /\ UNCHANGED <<row, send, ent, rejected, acks, inbound, history, reactions, live, deleted>>

\* The engine call resolves, with the id or (some forwards) without it, or throws, which
\* it may do although WhatsApp has the message.
EngineSent(o) ==
  /\ send[o] = "sending" /\ o \in accepted
  /\ \E linked \in BOOLEAN : ent' = [ent EXCEPT ![o].status = "sent", ![o].linked = linked]
  /\ send' = [send EXCEPT ![o] = "saving"]
  /\ UNCHANGED <<row, accepted, rejected, acks, inbound, history, reactions, live, deleted>>

EngineThrew(o) ==
  /\ send[o] = "sending"
  /\ ent' = [ent EXCEPT ![o].status = "failed"]
  /\ rejected' = rejected \union {o}
  /\ send' = [send EXCEPT ![o] = "saving"]
  /\ UNCHANGED <<row, accepted, acks, inbound, history, reactions, live, deleted>>

\* A save that would give a second row the id is rejected.
Persistable(k, r) == r.linked => Known(k[1]) \subseteq {k}

\* persistSentState and saveFailedMessage: the save lands, or its rejection changes nothing.
Saved(o) ==
  /\ send[o] = "saving"
  /\ \/ Persistable(<<o, "api">>, ent[o]) /\ row' = [row EXCEPT ![<<o, "api">>] = ent[o]]
     \/ (Faults \/ ~Persistable(<<o, "api">>, ent[o])) /\ UNCHANGED row
  /\ send' = [send EXCEPT ![o] = "done"]
  /\ UNCHANGED <<ent, accepted, rejected, acks, inbound, history, reactions, live, deleted>>

-----------------------------------------------------------------------------
\* onMessageAck.

\* ackStatusTransitionFrom.  Variant: a receipt overwrites any status.
AnyStatus(st) == MessageStatus
AckStatusTransitionFrom(st) ==
  IF st = "read" THEN {"pending", "sent", "delivered"} ELSE {"pending", "sent"}

\* The rows the guarded UPDATE matches.
Matched(o, st) == {k \in Known(o) : row[k].status \in AckStatusTransitionFrom(st)}
Advanced(o, st) ==
  [k \in Keys |-> IF k \in Matched(o, st) THEN [row[k] EXCEPT !.status = st] ELSE row[k]]

\* A receipt that matches no row is tried once more after ACK_RECONCILE_DELAY_MS.
\* Variant: it is given up at once.
NoRetry(o, st) == {}
Unmatched(o, st) == IF Matched(o, st) = {} THEN {<<o, st>>} ELSE {}

\* The UPDATE and what is to be done about its outcome.  One that rejects is only logged
\* (onAckError), and its receipt is lost.
Receipt(o, st) ==
  /\ live /\ o \in accepted /\ st \notin receipts[o]
  /\ receipts' = [receipts EXCEPT ![o] = @ \union {st}]
  /\ \/ /\ row' = Advanced(o, st)
        /\ retry' = retry \union Unmatched(o, st)
        /\ UNCHANGED lost
     \/ /\ Faults
        /\ lost' = lost \union {o}
        /\ UNCHANGED <<row, retry>>
  /\ UNCHANGED <<sends, inbound, history, reactions, live, deleted>>

\* The second and last UPDATE, which may come before the send has written the id.
ReceiptRetries(o, st) ==
  /\ <<o, st>> \in retry
  /\ retry' = retry \ {<<o, st>>}
  /\ \/ /\ row' = Advanced(o, st)
        /\ lost' = IF Known(o) = {} THEN lost \union {o} ELSE lost
     \/ /\ Faults
        /\ lost' = lost \union {o}
        /\ UNCHANGED row
  /\ UNCHANGED <<receipts, sends, inbound, history, reactions, live, deleted>>

-----------------------------------------------------------------------------
\* onMessage, and the history batches that are stored without dispatch.

MessageFires(i) ==
  /\ live /\ fired[i] < Fires
  /\ fired' = [fired EXCEPT ![i] = @ + 1]
  /\ hooks' = [hooks EXCEPT ![i] = @ + 1]
  /\ UNCHANGED <<row, sends, acks, inserting, due, dispatched, unsaved, stopped, history, reactions,
                 live, deleted>>

\* The message:received hook says stop, or the engine was retired meanwhile.
MessageDropped(i) ==
  /\ hooks[i] > 0
  /\ hooks' = [hooks EXCEPT ![i] = @ - 1]
  /\ stopped' = stopped \union {i}
  /\ UNCHANGED <<row, sends, acks, inserting, due, fired, dispatched, unsaved, history, reactions,
                 live, deleted>>

\* Back from the hook with the engine still registered, it begins its insert: nothing asks
\* again.  Variant: the engine is not looked up after the hook.
MessagePasses(i) ==
  /\ hooks[i] > 0
  /\ hooks' = [hooks EXCEPT ![i] = @ - 1]
  /\ inserting' = [inserting EXCEPT ![i] = @ + 1]
  /\ UNCHANGED <<row, sends, acks, due, fired, dispatched, unsaved, stopped, history, reactions,
                 live, deleted>>
MessageChecked(i) == live /\ MessagePasses(i)

\* An insert ends, and leaves n dispatches due.
Inserted(i, n) ==
  /\ inserting[i] > 0
  /\ inserting' = [inserting EXCEPT ![i] = @ - 1]
  /\ due' = [due EXCEPT ![i] = @ + n]
  /\ UNCHANGED <<sends, acks, hooks, fired, dispatched, stopped, history, reactions, live, deleted>>

\* The insert decides: a new row is dispatched, and so is a message whose insert failed
\* for another reason than its being there already.  Variant: a duplicate
\* is dispatched.
MessageStored(i) ==
  /\ Known(i) = {}
  /\ row' = [row EXCEPT ![<<i, "copy">>] = NewRow("sent", TRUE)]
  /\ Inserted(i, 1) /\ UNCHANGED unsaved

DuplicateDispatched(i) == Known(i) # {} /\ Inserted(i, 1) /\ UNCHANGED <<row, unsaved>>
MessageDuplicate(i) == Known(i) # {} /\ Inserted(i, 0) /\ UNCHANGED <<row, unsaved>>

MessageUnstored(i) ==
  /\ Faults
  /\ unsaved' = [unsaved EXCEPT ![i] = @ + 1]
  /\ Inserted(i, 1) /\ UNCHANGED row

MessageDispatched(i) ==
  /\ due[i] > 0
  /\ due' = [due EXCEPT ![i] = @ - 1]
  /\ dispatched' = [dispatched EXCEPT ![i] = @ + 1]
  /\ UNCHANGED <<row, sends, acks, hooks, inserting, fired, unsaved, stopped, history, reactions,
                 live, deleted>>

\* persistHistoryMessages: the SELECT of the stored ids, then INSERT OR IGNORE.
HistorySelects(m) ==
  /\ live /\ history[m] = "none" /\ m \in accepted \union Incoming
  /\ history' = [history EXCEPT ![m] = IF Known(m) = {} THEN "unseen" ELSE "done"]
  /\ UNCHANGED <<row, sends, acks, inbound, reactions, live, deleted>>

HistoryInserts(m) ==
  /\ history[m] = "unseen"
  /\ history' = [history EXCEPT ![m] = "done"]
  /\ row' = IF Known(m) = {} THEN [row EXCEPT ![<<m, "copy">>] = NewRow("sent", TRUE)] ELSE row
  /\ UNCHANGED <<sends, acks, inbound, reactions, live, deleted>>

-----------------------------------------------------------------------------
\* onMessageReaction and applyReaction, onMessageRevoked, delete().

React(r) ==
  /\ live /\ r.to \in accepted \union Incoming
  /\ last[r.to][r.by] = r.nr - 1
  /\ chain' = [chain EXCEPT ![r.to] = Append(@, r)]
  /\ last' = [last EXCEPT ![r.to][r.by] = r.nr]
  /\ excused' = IF Known(r.to) = {} THEN excused \union {r} ELSE excused
  /\ UNCHANGED <<row, sends, acks, inbound, history, applying, live, deleted>>

\* Each reaction waits for the one before it, and makes way for the next when it is done.
Turn(r) == chain[r.to] # <<>> /\ Head(chain[r.to]) = r
Unchain(r) == chain' = [chain EXCEPT ![r.to] = Tail(@)]

\* findOne, and the reaction is set in what it read; without a row nothing happens.
ReactionReads(r) ==
  /\ Turn(r) /\ applying[r] = NoRow
  /\ IF Known(r.to) = {}
     THEN Unchain(r) /\ excused' = excused \union {r} /\ UNCHANGED applying
     ELSE /\ applying' = [applying EXCEPT ![r] =
               LET k == CHOOSE k \in Known(r.to) : TRUE
               IN  [key |-> k, row |-> [row[k] EXCEPT !.reacted[r.by] = r.nr]]]
          /\ UNCHANGED <<chain, excused>>
  /\ UNCHANGED <<row, sends, acks, inbound, history, last, live, deleted>>

\* save() writes the whole of it back, whatever has changed in the row since: a status
\* that a receipt wrote meanwhile is lost.
Reverts(r) ==
  LET k == applying[r].key IN
  r.to \in Outgoing /\ row[k] # NoRow /\ row[k].status # applying[r].row.status

ReactionSaved(r) ==
  /\ applying[r] # NoRow
  /\ \/ /\ Persistable(applying[r].key, applying[r].row)
        /\ row' = [row EXCEPT ![applying[r].key] = applying[r].row]
        /\ lost' = IF Reverts(r) THEN lost \union {r.to} ELSE lost
        /\ UNCHANGED excused
     \/ /\ Faults \/ ~Persistable(applying[r].key, applying[r].row)
        /\ excused' = excused \union {r}
        /\ UNCHANGED <<row, lost>>
  /\ applying' = [applying EXCEPT ![r] = NoRow]
  /\ Unchain(r)
  /\ UNCHANGED <<sends, receipts, retry, inbound, history, last, live, deleted>>

\* Revoked by its sender, or deleted for everyone through the API.
Revoke(m) ==
  /\ live /\ Known(m) # {}
  /\ row' = [k \in Keys |-> IF k \in Known(m) THEN [row[k] EXCEPT !.revoked = TRUE] ELSE row[k]]
  /\ UNCHANGED <<sends, acks, inbound, history, reactions, live, deleted>>

\* The engine is retired; a deletion then removes the rows of the session.
Retire ==
  /\ live /\ live' = FALSE
  /\ UNCHANGED <<row, sends, acks, inbound, history, reactions, deleted>>

Delete ==
  /\ ~live /\ ~deleted
  /\ deleted' = TRUE
  /\ row' = [k \in Keys |-> NoRow]
  /\ UNCHANGED <<sends, acks, inbound, history, reactions, live>>

-----------------------------------------------------------------------------
SendStep(o) == Send(o) \/ Accept(o) \/ EngineSent(o) \/ EngineThrew(o) \/ Saved(o)
AckStep(o, st) == Receipt(o, st) \/ ReceiptRetries(o, st)
InboundStep(i) ==
  \/ MessageFires(i) \/ MessageDropped(i) \/ MessageChecked(i)
  \/ MessageStored(i) \/ MessageDuplicate(i) \/ MessageUnstored(i) \/ MessageDispatched(i)
HistoryStep(m) == HistorySelects(m) \/ HistoryInserts(m)
ReactionStep(r) == React(r) \/ ReactionReads(r) \/ ReactionSaved(r)

Next ==
  \/ \E o \in Outgoing : SendStep(o) \/ \E st \in Receipts : AckStep(o, st)
  \/ \E i \in Incoming : InboundStep(i)
  \/ \E m \in Historic : HistoryStep(m)
  \/ \E r \in Reaction : ReactionStep(r)
  \/ \E m \in Revocable : Revoke(m)
  \/ Retire \/ Delete

Spec == Init /\ [][Next]_vars

-----------------------------------------------------------------------------
\* What a stored message may become: its delivery status only moves forward, a failure
\* and a revocation are final.
Later(st) ==
  IF st = "pending" THEN MessageStatus
  ELSE IF st = "sent" THEN MessageStatus \ {"pending"}
  ELSE IF st = "delivered" THEN {"delivered", "read"} ELSE {st}

Forward(v, w) == w.status \in Later(v.status) /\ (v.revoked => w.revoked)
Restores(r, k) ==
  /\ applying[r] # NoRow /\ applying'[r] = NoRow
  /\ applying[r].key = k /\ row'[k] = applying[r].row

\* However receipts, saves, reactions and revocations of a message interleave, no write takes
\* its row back, except the save of a reaction, which restores the row as it was when the
\* reaction read it.
Advances ==
  \A k \in Keys : row[k] # NoRow /\ row'[k] # NoRow =>
    Forward(row[k], row'[k]) \/ \E r \in Reaction : Restores(r, k)

\* No step takes the table back, but for that.
RowAdvances == [][Advances]_vars

\* A receipt is not lost to the send it races: once it is through, the row of its id shows it.
\* Lost is a receipt whose UPDATE rejected, whose second try still found no row, or that the
\* save of a reaction overwrote.
AckLands ==
  \A o \in Outgoing \ lost : \A k \in Known(o) :
    {o} \X Receipts \intersect retry = {} /\ receipts[o] # {} /\ ~deleted
    => /\ row[k].status \in receipts[o]
       /\ "read" \in receipts[o] /\ "failed" \notin receipts[o] => row[k].status = "read"

\* A message is stored as FAILED only if its engine call threw or a receipt said so: a
\* delivered message whose SENT row could not be written is not reported as failed.
FailedHonest ==
  \A k \in Keys : row[k] # NoRow /\ row[k].status = "failed" =>
    k[1] \in rejected \/ "failed" \in receipts[k[1]]

\* An inbound message is dispatched once however often the engine fires it: every other
\* time is the price of an insert that failed, or of one that ended after the session's
\* deletion had removed the row.
DispatchedOnce ==
  \A i \in Incoming : dispatched[i] - unsaved[i] <= IF deleted THEN 2 ELSE 1

\* And it is dispatched, unless a plugin handled it, its engine was retired or a history
\* batch had stored it.
NotDropped ==
  \A i \in Incoming :
    /\ fired[i] > 0 /\ hooks[i] + inserting[i] + due[i] = 0
    /\ i \notin stopped /\ (i \in Historic => history[i] = "none")
    => dispatched[i] > 0

\* Once an engine is retired, no message is taken on for its session: what is still
\* dispatched was past the check, in its insert, when the engine went.
TakenOn(i) == inserting[i] + due[i] + dispatched[i]
RetiredIsSilent == [][~live => \A i \in Incoming : TakenOn(i)' <= TakenOn(i)]_vars

\* Reactions are not lost to each other: when the chain of a message has run out, its row
\* shows the last reaction of every sender.
ReactionsKept ==
  \A m \in Reacted : chain[m] = <<>> /\ ~deleted =>
    \A s \in Senders :
      LET r == [to |-> m, by |-> s, nr |-> last[m][s]] IN
      r.nr > 0 /\ r \notin excused => \E k \in Known(m) : row[k].reacted[s] = r.nr

\* The state is of its type, and a message's row shows what became of it: of its send, of its
\* receipts and of the reactions to it.
OutcomeShown == TypeOK /\ AckLands /\ FailedHonest /\ ReactionsKept

\* An inbound message is dispatched, and once.
InboundOnce == DispatchedOnce /\ NotDropped

\* No step takes back what a row says, or takes a message on for a session that is gone.
OnlyForward == RowAdvances /\ RetiredIsSilent

=============================================================================
