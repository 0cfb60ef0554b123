------------------------------ MODULE Inbound ------------------------------
(***************************************************************************)
(* Inbound messages of one session, from the engine's event to the         *)
(* callback: the ConcurrencyLimiter (concurrency-limiter.ts) with the      *)
(* whole processing under it for Baileys (baileys.adapter.ts) and the      *)
(* download alone for whatsapp-web.js (whatsapp-web-js.adapter.ts), the    *)
(* deadline of a download (inbound-media-cap.ts), and what Baileys keeps   *)
(* of a message: the stored proto with its eviction                        *)
(* (baileys-message-store.service.ts), the newest of the chat and the      *)
(* phone behind a privacy id (baileys-session-store.ts), the latter also   *)
(* in the index the sessions share (lid-mapping-store.service.ts).         *)
(***************************************************************************)
EXTENDS Integers, Sequences, FiniteSets

\* A message whose media is downloaded, a text, a reaction or revocation, or the event of a
\* message this session sent, which the send stores when it returns, too.
Kinds == {"media", "text", "reaction", "sent"}

CONSTANTS
  Messages, NoMessage,
  Mixes,      \* bound: the mixes of messages that are looked at
  Timestamp,  \* when a message was sent
  Lids, LidOf, Phones, PhoneOf, \* the privacy id a message's key carries, and its phone
  NoPhone,
  MaxDownloads, \* INBOUND_MEDIA_CONCURRENCY
  Limit         \* BAILEYS_MESSAGE_STORE_LIMIT

ASSUME InboundAssumption ==
  /\ Mixes \subseteq [Messages -> Kinds] /\ Mixes # {}
  /\ Timestamp \in [Messages -> Nat]
  /\ LidOf \in [Messages -> Lids] /\ PhoneOf \in [Messages -> Phones]
  /\ NoPhone \notin Phones /\ NoMessage \notin Messages
  /\ MaxDownloads \in Nat \ {0} /\ Limit \in Nat \ {0}

VARIABLES
  engine, kind, \* which of the two engines, and what the messages are
  active,   \* ConcurrencyLimiter: its count
  waiters,  \* and those it has parked, in order
  holding,  \* messages that hold a slot, or were handed one
  at,       \* where the processing of a message stands
  download, \* the download itself, which its deadline may leave running
  loose,    \* Baileys downloads whose deadline came before their stream (history)
  last,     \* lastMessages: the newest message of the chat
  lidToPn,  \* the phone behind a lid, as the session knows it
  lidToPhone, phoneToLids, \* the index of LidMappingStore and its reverse
  order,    \* messages in the order their keys were read (history)
  emitted,  \* the phone a message was emitted with
  dropped,  \* messages whose mapping threw
  returned, \* messages whose send has returned
  rows,     \* stored messages and their createdAt
  clock, puts,
  unevicted \* an eviction failed and none has looked since (history)

limiter == <<active, waiters, holding>>
lids == <<lidToPn, lidToPhone, phoneToLids>>
store == <<rows, clock, puts, unevicted>>
inboundVars == <<engine, kind, limiter, at, download, loose, last, lids, order, emitted, dropped,
  returned, store>>

Places == {"new", "waiting", "woken", "start", "media", "mapping", "done"}
Downloads == {"none", "asking", "streaming", "ended"}
\* A put under way, by the event or by the send that returned; cut: the newest createdAt its
\* eviction will delete.
Put == [msg: Messages, by: {"event", "send"}, at: {"find", "delete"}, cut: Nat]

InboundTypeOK ==
  /\ engine \in {"baileys", "wwebjs"} /\ kind \in Mixes
  /\ active \in 0..MaxDownloads
  /\ waiters \in Seq(Messages) /\ holding \subseteq Messages
  /\ at \in [Messages -> Places] /\ download \in [Messages -> Downloads]
  /\ loose \subseteq Messages
  /\ last \in Messages \union {NoMessage}
  /\ lidToPn \in [Lids -> Phones \union {NoPhone}]
  /\ lidToPhone \in [Lids -> Phones \union {NoPhone}]
  /\ phoneToLids \in [Phones -> SUBSET Lids]
  /\ order \in Seq(Messages)
  /\ emitted \in [Messages -> Phones \union {NoPhone}] /\ dropped \subseteq Messages
  /\ returned \subseteq Messages
  /\ DOMAIN rows \subseteq Messages /\ \A m \in DOMAIN rows : rows[m] \in 1..clock
  /\ clock \in Nat /\ puts \subseteq Put /\ unevicted \in BOOLEAN

InboundInit ==
  /\ engine \in {"baileys", "wwebjs"} /\ kind \in Mixes
  /\ active = 0 /\ waiters = <<>> /\ holding = {}
  /\ at = [m \in Messages |-> "new"] /\ download = [m \in Messages |-> "none"]
  /\ loose = {} /\ last = NoMessage
  /\ lidToPn = [l \in Lids |-> NoPhone]
  /\ lidToPhone = [l \in Lids |-> NoPhone]
  /\ phoneToLids = [p \in Phones |-> {}]
  /\ order = <<>> /\ emitted = [m \in Messages |-> NoPhone] /\ dropped = {}
  /\ returned = {}
  /\ rows = <<>> /\ clock = 0 /\ puts = {} /\ unevicted = FALSE

-----------------------------------------------------------------------------
\* ConcurrencyLimiter.run: its head.
Admit(m, place) ==
  IF active < MaxDownloads
  THEN /\ active' = active + 1
       /\ holding' = holding \union {m}
       /\ at' = [at EXCEPT ![m] = place]
       /\ UNCHANGED waiters
  ELSE /\ waiters' = Append(waiters, m)
       /\ at' = [at EXCEPT ![m] = "waiting"]
       /\ UNCHANGED <<active, holding>>

\* And its finally: the slot goes to the first waiter, whose turn comes later, or is freed.
\* Variants: the slot is freed as well as handed over; the waiter is not handed it.
ReleaseTwice(m, moved) ==
  /\ active' = active - 1
  /\ IF waiters = <<>>
     THEN holding' = holding \ {m} /\ at' = moved /\ UNCHANGED waiters
     ELSE /\ holding' = (holding \ {m}) \union {Head(waiters)}
          /\ waiters' = Tail(waiters)
          /\ at' = [moved EXCEPT ![Head(waiters)] = "woken"]
ReleaseWakesNobody(m, moved) ==
  /\ active' = active - 1
  /\ holding' = holding \ {m}
  /\ at' = moved
  /\ UNCHANGED waiters
Release(m, moved) ==
  IF waiters = <<>>
  THEN /\ active' = active - 1
       /\ holding' = holding \ {m}
       /\ at' = moved
       /\ UNCHANGED waiters
  ELSE /\ holding' = (holding \ {m}) \union {Head(waiters)}
       /\ waiters' = Tail(waiters)
       /\ at' = [moved EXCEPT ![Head(waiters)] = "woken"]
       /\ UNCHANGED active

\* The event: handleMessagesUpsert puts every message under the limiter; whatsapp-web.js
\* only its media download (capInboundMediaFor).
Arrives(m) ==
  /\ at[m] = "new"
  /\ IF engine = "baileys" THEN Admit(m, "start") /\ UNCHANGED download
     ELSE IF kind[m] = "media"
     THEN /\ Admit(m, "media")
          /\ download' = IF active < MaxDownloads THEN [download EXCEPT ![m] = "asking"] ELSE download
     ELSE at' = [at EXCEPT ![m] = "mapping"] /\ UNCHANGED <<limiter, download>>
  /\ UNCHANGED <<engine, kind, loose, last, lids, order, emitted, dropped, returned, store>>

\* A waiter goes on with the slot it was handed.
Wakes(m) ==
  /\ at[m] = "woken"
  /\ IF engine = "baileys" THEN at' = [at EXCEPT ![m] = "start"] /\ UNCHANGED download
     ELSE at' = [at EXCEPT ![m] = "media"] /\ download' = [download EXCEPT ![m] = "asking"]
  /\ UNCHANGED <<engine, kind, limiter, loose, last, lids, order, emitted, dropped, returned, store>>

-----------------------------------------------------------------------------
\* LidMappingStore.index: the entry under the previous phone goes, and only that one.
\* Variant: it stays.
IndexKeepsStale(l, p) ==
  /\ lidToPhone' = [lidToPhone EXCEPT ![l] = p]
  /\ phoneToLids' = [q \in Phones |-> IF q = p THEN phoneToLids[q] \union {l} ELSE phoneToLids[q]]
Index(l, p) ==
  /\ lidToPhone' = [lidToPhone EXCEPT ![l] = p]
  /\ phoneToLids' = [q \in Phones |->
       IF q = p THEN phoneToLids[q] \union {l}
       ELSE IF q = lidToPhone[l] THEN phoneToLids[q] \ {l} ELSE phoneToLids[q]]

\* remember: an unseen or changed phone alone is indexed.
Remember(l, p) ==
  IF lidToPhone[l] = p THEN UNCHANGED <<lidToPhone, phoneToLids>> ELSE Index(l, p)

\* addLidMappings with the pair of a key.
Learn(l, p) ==
  /\ lidToPn' = [lidToPn EXCEPT ![l] = p]
  /\ Remember(l, p)

\* Another session, or a send of whatsapp-web.js, tells the shared index; remember takes a
\* lid without a phone as well.
SharedRemember(l, p) ==
  /\ lidToPhone[l] # p
  /\ Remember(l, p)
  /\ UNCHANGED <<engine, kind, limiter, at, download, loose, last, lidToPn, order, emitted, dropped, returned,
                 store>>

\* processInboundMessage learns the pair of the key first; a reaction or a revocation is
\* then passed on at once.
ProcessInboundMessage(m) ==
  /\ at[m] = "start"
  /\ Learn(LidOf[m], PhoneOf[m])
  /\ order' = Append(order, m)
  /\ IF kind[m] = "reaction"
     THEN /\ emitted' = [emitted EXCEPT ![m] = lidToPn'[LidOf[m]]]
          /\ Release(m, [at EXCEPT ![m] = "done"])
          /\ UNCHANGED download
     ELSE /\ at' = [at EXCEPT ![m] = IF kind[m] = "media" THEN "media" ELSE "mapping"]
          /\ download' = IF kind[m] = "media" THEN [download EXCEPT ![m] = "asking"] ELSE download
          /\ UNCHANGED <<limiter, emitted>>
  /\ UNCHANGED <<engine, kind, loose, last, dropped, returned, store>>

-----------------------------------------------------------------------------
\* downloadInboundMediaCapped has its stream.
StreamOpens(m) ==
  /\ engine = "baileys" /\ download[m] = "asking"
  /\ download' = [download EXCEPT ![m] = "streaming"]
  /\ UNCHANGED <<engine, kind, limiter, at, loose, last, lids, order, emitted, dropped, returned, store>>

\* The download ends, with its media, without or with an error.  It may be awaited no more.
\* Under whatsapp-web.js it is what holds the slot.
DownloadEnds(m) ==
  LET moved == IF at[m] = "media" THEN [at EXCEPT ![m] = "mapping"] ELSE at IN
  /\ download[m] \in {"asking", "streaming"}
  /\ download' = [download EXCEPT ![m] = "ended"]
  /\ IF engine = "wwebjs" THEN Release(m, moved) ELSE at' = moved /\ UNCHANGED limiter
  /\ UNCHANGED <<engine, kind, loose, last, lids, order, emitted, dropped, returned, store>>

\* withInboundDownloadTimeout: the caller goes on without the media.  Baileys destroys the
\* stream, if there is one yet.
Deadline(m) ==
  /\ at[m] = "media"
  /\ at' = [at EXCEPT ![m] = "mapping"]
  /\ IF engine = "baileys" /\ download[m] = "streaming"
     THEN download' = [download EXCEPT ![m] = "ended"] /\ UNCHANGED loose
     ELSE /\ UNCHANGED download
          /\ loose' = IF engine = "baileys" THEN loose \union {m} ELSE loose
  /\ UNCHANGED <<engine, kind, limiter, last, lids, order, emitted, dropped, returned, store>>

-----------------------------------------------------------------------------
\* BaileysMessageStore.put: the upsert, or it fails (the session's row is gone, or a fault).
Upsert(m, by) ==
  \/ /\ rows' = [k \in DOMAIN rows \union {m} |-> IF k = m THEN clock + 1 ELSE rows[k]]
     /\ clock' = clock + 1
     /\ puts' = puts \union {[msg |-> m, by |-> by, at |-> "find", cut |-> 0]}
     /\ UNCHANGED unevicted
  \/ UNCHANGED store

\* The newest message after the Limit newest; what is as old goes.  Variant: one early.
CutoffEarly == {m \in DOMAIN rows : Cardinality({k \in DOMAIN rows : rows[k] > rows[m]}) >= Limit - 1}
Cutoff == {m \in DOMAIN rows : Cardinality({k \in DOMAIN rows : rows[k] > rows[m]}) >= Limit}

FindCutoff(p) ==
  /\ p.at = "find"
  /\ puts' = (puts \ {p}) \union
       (IF Cutoff = {} THEN {}
        ELSE {[p EXCEPT !.at = "delete", !.cut = CHOOSE c \in {rows[m] : m \in Cutoff} :
                                                   \A m \in Cutoff : rows[m] <= c]})
  /\ unevicted' = FALSE
  /\ UNCHANGED <<engine, kind, limiter, at, download, loose, last, lids, order, emitted, dropped, returned, rows, clock>>

\* All as old as the cutoff go.
Evict(p) ==
  /\ p.at = "delete"
  /\ rows' = [m \in {k \in DOMAIN rows : rows[k] > p.cut} |-> rows[m]]
  /\ puts' = puts \ {p}
  /\ UNCHANGED <<engine, kind, limiter, at, download, loose, last, lids, order, emitted, dropped, returned, clock, unevicted>>

EvictionFails(p) ==
  /\ puts' = puts \ {p}
  /\ unevicted' = TRUE
  /\ UNCHANGED <<engine, kind, limiter, at, download, loose, last, lids, order, emitted, dropped, returned, rows, clock>>

\* A send returns: sendTextMessage and sendContent store the message, before its event is
\* handled, while it is, or after.
SendReturns(m) ==
  /\ engine = "baileys" /\ kind[m] = "sent" /\ m \notin returned
  /\ returned' = returned \union {m}
  /\ Upsert(m, "send")
  /\ UNCHANGED <<engine, kind, limiter, at, download, loose, last, lids, order, emitted, dropped>>

\* recordMessage.
Newest(m) ==
  IF last # NoMessage /\ Timestamp[last] >= Timestamp[m] THEN last ELSE m

\* The message is mapped, passed to its callback, stored and recorded, and under Baileys
\* the slot is free again.  whatsapp-web.js passes it to its callback.
Emit(m) ==
  /\ at[m] = "mapping"
  /\ IF engine = "baileys"
     THEN /\ emitted' = [emitted EXCEPT ![m] = lidToPn[LidOf[m]]]
          /\ Upsert(m, "event")
          /\ last' = Newest(m)
          /\ Release(m, [at EXCEPT ![m] = "done"])
     ELSE at' = [at EXCEPT ![m] = "done"] /\ UNCHANGED <<limiter, emitted, store, last>>
  /\ UNCHANGED <<engine, kind, download, loose, lids, order, dropped, returned>>

\* Or the mapping throws.
Drop(m) ==
  /\ at[m] = "mapping"
  /\ dropped' = dropped \union {m}
  /\ IF engine = "baileys" THEN Release(m, [at EXCEPT ![m] = "done"])
     ELSE at' = [at EXCEPT ![m] = "done"] /\ UNCHANGED limiter
  /\ UNCHANGED <<engine, kind, download, loose, last, lids, order, emitted, returned, store>>

-----------------------------------------------------------------------------
MessageStep(m) == Wakes(m) \/ ProcessInboundMessage(m) \/ Deadline(m) \/ Emit(m) \/ Drop(m)
InboundNext ==
  \/ \E m \in Messages : Arrives(m) \/ MessageStep(m) \/ StreamOpens(m) \/ DownloadEnds(m) \/ SendReturns(m)
  \/ \E l \in Lids, p \in Phones \union {NoPhone} : SharedRemember(l, p)
  \/ \E p \in puts : FindCutoff(p) \/ Evict(p) \/ EvictionFails(p)

InboundSpec == InboundInit /\ [][InboundNext]_inboundVars

\* Tasks go on and deadlines fire.  A download of whatsapp-web.js that nobody can abort is
\* taken to end; one of Baileys may hang for ever.
InboundFairSpec ==
  /\ InboundSpec
  /\ \A m \in Messages : WF_inboundVars(MessageStep(m)) /\ WF_inboundVars(engine = "wwebjs" /\ DownloadEnds(m))

-----------------------------------------------------------------------------
\* The count is exact and below the bound, whoever arrives between a task's end and the
\* turn of the waiter it woke.
SlotsExact == active = Cardinality(holding) /\ active <= MaxDownloads

\* No more downloads run than the bound allows, deadlines or not; except that a Baileys
\* download whose deadline came before its stream goes on outside.
DownloadsBounded ==
  /\ Cardinality({m \in Messages \ loose : download[m] \in {"asking", "streaming"}}) <= MaxDownloads
  /\ engine = "wwebjs" => loose = {}

\* A waiter is parked only while every slot is taken: none is forgotten by a task that ends.
NobodyForgotten ==
  /\ waiters # <<>> => active = MaxDownloads
  /\ \A m \in Messages : at[m] = "waiting" <=> \E i \in DOMAIN waiters : waiters[i] = m

\* The phone a message is emitted with is the one of its own key or of a key read later,
\* never an older one, and never none.
EmittedUpToDate ==
  engine = "baileys" =>
    \A m \in Messages : at[m] = "done" /\ m \notin dropped =>
      \E i, j \in DOMAIN order : order[i] = m /\ i <= j /\ emitted[m] = PhoneOf[order[j]]

\* The reverse index is the inverse of the index, however the phones of a lid change, change
\* back or go, though a change clears only the entry under the phone before.
ReverseExact == \A p \in Phones : phoneToLids[p] = {l \in Lids : lidToPhone[l] = p}

\* The chat shows the newest of the messages that came through, though a slow download
\* lets newer ones overtake it.
Through(m) == engine = "baileys" /\ at[m] = "done" /\ m \notin dropped /\ kind[m] # "reaction"
LastIsNewest ==
  \A m \in Messages : Through(m) => last # NoMessage /\ Timestamp[last] >= Timestamp[m]

\* An eviction, though its cutoff may be old, takes no message that is among the newest.
KeepsNewest ==
  [][\A m \in DOMAIN rows : m \notin DOMAIN rows' =>
       Cardinality({k \in DOMAIN rows : rows[k] > rows[m]}) >= Limit]_inboundVars

\* And with no eviction due the store is within its limit, also after one has failed and
\* another came.
StoreBounded == puts = {} /\ ~unevicted => Cardinality(DOMAIN rows) <= Limit

\* Every message comes through or is dropped by its mapping: none is parked for ever.
EveryMessageEnds == \A m \in Messages : at[m] # "new" ~> at[m] = "done"

\* The limiter keeps its bound, loses no slot and forgets nobody.
LimiterExact == InboundTypeOK /\ SlotsExact /\ NobodyForgotten /\ DownloadsBounded

\* Messages that overtake each other leave the newest behind, of the chat and of the phones.
UpToDate == EmittedUpToDate /\ LastIsNewest /\ ReverseExact

\* The store keeps the newest and, with no eviction due, no more.
StoreExact == []StoreBounded /\ KeepsNewest

=============================================================================
