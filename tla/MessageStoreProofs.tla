------------------------- MODULE MessageStoreProofs -------------------------
(***************************************************************************)
(* Theorems about MessageStore, for any messages, senders and numbers of   *)
(* duplicates, whatever writes reject.                                     *)
(***************************************************************************)
EXTENDS MessageStore, TLAPS

-----------------------------------------------------------------------------
\* The part of the state the arguments are about.
Typed ==
  /\ row \in [Keys -> Row \union {NoRow}]
  /\ send \in [Outgoing -> {"none", "sending", "saving", "done"}]
  /\ ent \in [Outgoing -> Row]
  /\ applying \in [Reaction -> Entity \union {NoRow}]
  /\ dispatched \in [Incoming -> Nat] /\ due \in [Incoming -> Nat] /\ unsaved \in [Incoming -> Nat]
  /\ deleted \in BOOLEAN

\* A reaction is written back to a row that was found by its id.
ApplyingLinked == \A r \in Reaction : applying[r] # NoRow => applying[r].row.linked

\* A message is dispatched for a row that was not there before, and the deletion of the
\* session is the only thing that removes one.
Owed(i) == dispatched[i] + due[i] - unsaved[i]
Counted ==
  \A i \in Incoming : Owed(i) <= (IF deleted THEN 1 ELSE 0) + (IF Known(i) = {} THEN 0 ELSE 1)

LEMMA NewRowType ==
  ASSUME NEW st \in MessageStatus, NEW linked \in BOOLEAN
  PROVE  /\ NewRow(st, linked) \in Row /\ NewRow(st, linked) # NoRow
         /\ NewRow(st, linked).status = st /\ NewRow(st, linked).linked = linked
         /\ NewRow(st, linked).revoked = FALSE
<1>1. 0 \in 0..PerSender
  BY StoreAssumption
<1>2. NoReactions \in [Senders -> 0..PerSender]
  BY <1>1 DEF NoReactions
<1>3. NewRow(st, linked) \in Row
  BY <1>2 DEF NewRow, Row
<1> QED BY <1>3, NoRowAssumption DEF NewRow

\* A row that is rewritten in place keeps its type and its other columns.
LEMMA RowEdits ==
  ASSUME NEW w \in Row, NEW st \in MessageStatus
  PROVE  /\ [w EXCEPT !.status = st] \in Row
         /\ [w EXCEPT !.status = st].status = st
         /\ [w EXCEPT !.status = st].linked = w.linked
         /\ [w EXCEPT !.status = st].revoked = w.revoked
         /\ [w EXCEPT !.status = st].reacted = w.reacted
         /\ [w EXCEPT !.revoked = TRUE] \in Row
         /\ [w EXCEPT !.revoked = TRUE].status = w.status
         /\ [w EXCEPT !.revoked = TRUE].linked = w.linked
         /\ [w EXCEPT !.revoked = TRUE].revoked = TRUE
         /\ [w EXCEPT !.revoked = TRUE].reacted = w.reacted
  BY DEF Row

LEMMA ReactedRow ==
  ASSUME NEW w \in Row, NEW r \in Reaction
  PROVE  /\ [w EXCEPT !.reacted[r.by] = r.nr] \in Row
         /\ [w EXCEPT !.reacted[r.by] = r.nr].status = w.status
         /\ [w EXCEPT !.reacted[r.by] = r.nr].linked = w.linked
         /\ [w EXCEPT !.reacted[r.by] = r.nr].revoked = w.revoked
<1>1. r.by \in Senders /\ r.nr \in 0..PerSender
  BY StoreAssumption DEF Reaction
<1>2. DEFINE f == [w.reacted EXCEPT ![r.by] = r.nr]
<1>3. f \in [Senders -> 0..PerSender]
  BY <1>1 DEF Row
<1>4. [w EXCEPT !.reacted[r.by] = r.nr] = [w EXCEPT !.reacted = f]
  BY DEF Row
<1> HIDE DEF f
<1> QED BY <1>3, <1>4 DEF Row

LEMMA KeysOf ==
  /\ \A m \in Messages : <<m, "api">> \in Keys /\ <<m, "copy">> \in Keys
  /\ \A k \in Keys : k[1] \in Messages /\ k[2] \in {"api", "copy"} /\ k = <<k[1], k[2]>>
  /\ \A m \in Messages : \A k \in Keys :
       k \in Known(m) <=> k[1] = m /\ row[k] # NoRow /\ row[k].linked
  /\ \A m \in Messages : Known(m) \subseteq Keys
  BY DEF Known, Keys

LEMMA KeysOfNext ==
  \A m \in Messages : \A k \in Keys :
    k \in Known(m)' <=> k[1] = m /\ row'[k] # NoRow /\ row'[k].linked
  BY DEF Known, Keys

\* Writing one row.
LEMMA Put ==
  ASSUME Typed, NEW k0 \in Keys, NEW v \in Row, row' = [row EXCEPT ![k0] = v]
  PROVE  /\ row' \in [Keys -> Row \union {NoRow}]
         /\ \A k \in Keys : row'[k] = IF k = k0 THEN v ELSE row[k]
  BY DEF Typed

LEMMA AdvancedType ==
  ASSUME Typed, NEW o \in Outgoing, NEW st \in Receipts, row' = Advanced(o, st)
  PROVE  /\ row' \in [Keys -> Row \union {NoRow}]
         /\ \A k \in Keys : row'[k] = row[k] \/
              /\ k[1] = o /\ row[k] # NoRow /\ row'[k] # NoRow
              /\ row[k].linked /\ row'[k].linked /\ row'[k].revoked = row[k].revoked
              /\ row[k].status \in AckStatusTransitionFrom(st) /\ row'[k].status = st
              /\ row'[k].reacted = row[k].reacted
<1>0. o \in Messages /\ st \in MessageStatus
  BY DEF Messages, Receipts, MessageStatus
<1>1. ASSUME NEW k \in Keys
      PROVE  row'[k] = IF k \in Matched(o, st) THEN [row[k] EXCEPT !.status = st] ELSE row[k]
  BY DEF Advanced
<1>2. ASSUME NEW k \in Keys, k \in Matched(o, st)
      PROVE  /\ k[1] = o /\ row[k] # NoRow /\ row[k] \in Row /\ row[k].linked
             /\ row[k].status \in AckStatusTransitionFrom(st)
  BY <1>0, <1>2, KeysOf DEF Matched, Typed
<1>3. ASSUME NEW k \in Keys, k \in Matched(o, st)
      PROVE  /\ row'[k] \in Row /\ row'[k].status = st /\ row'[k].linked
             /\ row'[k].revoked = row[k].revoked /\ row'[k] # NoRow
             /\ row'[k].reacted = row[k].reacted
  <2>1. row[k] \in Row /\ row[k].linked
    BY <1>2, <1>3
  <2>2. DEFINE w == [row[k] EXCEPT !.status = st]
  <2>3. /\ w \in Row /\ w.status = st /\ w.linked = row[k].linked /\ w.revoked = row[k].revoked
        /\ w.reacted = row[k].reacted
    BY <1>0, <2>1, RowEdits
  <2>4. row'[k] = w
    BY <1>1, <1>3
  <2> HIDE DEF w
  <2> QED BY <2>1, <2>3, <2>4, NoRowAssumption
<1>4. row' = [k \in Keys |-> row'[k]]
  BY DEF Advanced
<1>5. \A k \in Keys : row'[k] \in Row \union {NoRow}
  BY <1>1, <1>3 DEF Typed
<1>6. row' \in [Keys -> Row \union {NoRow}]
  BY <1>4, <1>5
<1> QED BY <1>1, <1>2, <1>3, <1>6

LEMMA RevokeType ==
  ASSUME Typed, NEW m \in Messages, Revoke(m)
  PROVE  /\ row' \in [Keys -> Row \union {NoRow}]
         /\ \A k \in Keys : row'[k] = row[k] \/
              /\ k[1] = m /\ row[k] # NoRow /\ row'[k] # NoRow
              /\ row[k].linked /\ row'[k].linked /\ row'[k].status = row[k].status
              /\ row'[k].revoked /\ row'[k].reacted = row[k].reacted
<1>1. ASSUME NEW k \in Keys
      PROVE  row'[k] = IF k \in Known(m) THEN [row[k] EXCEPT !.revoked = TRUE] ELSE row[k]
  BY DEF Revoke
<1>2. ASSUME NEW k \in Keys, k \in Known(m)
      PROVE  k[1] = m /\ row[k] # NoRow /\ row[k] \in Row /\ row[k].linked
  BY <1>2, KeysOf DEF Typed
<1>3. ASSUME NEW k \in Keys, k \in Known(m)
      PROVE  /\ row'[k] \in Row /\ row'[k].status = row[k].status /\ row'[k].linked
             /\ row'[k].revoked /\ row'[k] # NoRow /\ row'[k].reacted = row[k].reacted
  <2>0. "sent" \in MessageStatus
    BY DEF MessageStatus
  <2>1. row[k] \in Row /\ row[k].linked
    BY <1>2, <1>3
  <2>2. DEFINE w == [row[k] EXCEPT !.revoked = TRUE]
  <2>3. /\ w \in Row /\ w.status = row[k].status /\ w.linked = row[k].linked /\ w.revoked
        /\ w.reacted = row[k].reacted
    BY <2>0, <2>1, RowEdits
  <2>4. row'[k] = w
    BY <1>1, <1>3
  <2> HIDE DEF w
  <2> QED BY <2>1, <2>3, <2>4, NoRowAssumption
<1>4. row' = [k \in Keys |-> row'[k]]
  BY DEF Revoke
<1>5. \A k \in Keys : row'[k] \in Row \union {NoRow}
  BY <1>1, <1>3 DEF Typed
<1>6. row' \in [Keys -> Row \union {NoRow}]
  BY <1>4, <1>5
<1> QED BY <1>1, <1>2, <1>3, <1>6

-----------------------------------------------------------------------------
\* Typing: one step per action that changes what the arguments are about.
frame == <<row, send, ent, applying, dispatched, due, unsaved, deleted>>

\* What the handler of a message may change.
LEMMA InboundWrites ==
  ASSUME NEW i \in Incoming, InboundStep(i)
  PROVE  /\ UNCHANGED <<sends, acks, history, reactions, live, deleted>>
         /\ UNCHANGED row \/ MessageStored(i)
         /\ MessageStored(i) => row' = [row EXCEPT ![<<i, "copy">>] = NewRow("sent", TRUE)]
BY DEF InboundStep, MessageFires, MessageDropped, MessageChecked, MessagePasses, MessageStored,
       MessageDuplicate, MessageUnstored, MessageDispatched, Inserted

\* The counts of a handler that the arguments are about.
LEMMA InboundCounts ==
  ASSUME Typed, NEW i \in Incoming, InboundStep(i)
  PROVE  \/ UNCHANGED <<dispatched, due, unsaved>>
         \/ MessageStored(i) /\ due' = [due EXCEPT ![i] = due[i] + 1] /\ UNCHANGED <<dispatched, unsaved>>
         \/ /\ due' = [due EXCEPT ![i] = due[i] + 1] /\ UNCHANGED dispatched
            /\ unsaved' = [unsaved EXCEPT ![i] = unsaved[i] + 1]
         \/ /\ due[i] > 0 /\ due' = [due EXCEPT ![i] = due[i] - 1] /\ UNCHANGED unsaved
            /\ dispatched' = [dispatched EXCEPT ![i] = dispatched[i] + 1]
<1>1. due[i] \in Nat /\ due = [due EXCEPT ![i] = due[i]]
  BY DEF Typed
<1>2. CASE MessageDuplicate(i)
  BY <1>1, <1>2 DEF MessageDuplicate, Inserted
<1>3. CASE MessageFires(i) \/ MessageDropped(i) \/ MessageChecked(i)
  BY <1>3 DEF MessageFires, MessageDropped, MessageChecked, MessagePasses
<1>4. CASE MessageStored(i) \/ MessageUnstored(i) \/ MessageDispatched(i)
  BY <1>4 DEF MessageStored, MessageUnstored, MessageDispatched, Inserted
<1> QED BY <1>2, <1>3, <1>4 DEF InboundStep

LEMMA TypedNext ==
  ASSUME Typed, ApplyingLinked, [Next]_vars
  PROVE  Typed' /\ ApplyingLinked'
<1> USE DEF ApplyingLinked
<1>0. CASE UNCHANGED frame
  BY <1>0 DEF frame, Typed
<1>1. ASSUME NEW o \in Outgoing, Send(o)
      PROVE  Typed' /\ ApplyingLinked'
  <2>1. "pending" \in MessageStatus /\ o \in Messages
    BY DEF MessageStatus, Messages
  <2>2. CASE row' = [row EXCEPT ![<<o, "api">>] = NewRow("pending", FALSE)]
    BY <1>1, <2>1, <2>2, KeysOf, NewRowType, Put DEF Send, reactions, inbound, handlers, Typed
  <2>3. CASE UNCHANGED row
    BY <1>1, <2>3 DEF Send, reactions, inbound, handlers, Typed
  <2> QED BY <1>1, <2>2, <2>3 DEF Send
<1>2. ASSUME NEW o \in Outgoing, Accept(o) \/ EngineSent(o) \/ EngineThrew(o)
      PROVE  Typed' /\ ApplyingLinked'
  <2>1. {"sent", "failed"} \subseteq MessageStatus
    BY DEF MessageStatus
  <2>2. ent' \in [Outgoing -> Row]
    <3>1. CASE UNCHANGED ent
      BY <3>1 DEF Typed
    <3>2. ASSUME NEW linked \in BOOLEAN,
                 ent' = [ent EXCEPT ![o].status = "sent", ![o].linked = linked]
          PROVE  ent' \in [Outgoing -> Row]
      BY <2>1, <3>2 DEF Typed, Row
    <3>3. CASE ent' = [ent EXCEPT ![o].status = "failed"]
      BY <2>1, <3>3 DEF Typed, Row
    <3> QED BY <1>2, <3>1, <3>2, <3>3 DEF Accept, EngineSent, EngineThrew
  <2>3. send' \in [Outgoing -> {"none", "sending", "saving", "done"}]
    BY <1>2 DEF Accept, EngineSent, EngineThrew, Typed
  <2>4. UNCHANGED <<row, reactions, inbound, deleted>>
    BY <1>2 DEF Accept, EngineSent, EngineThrew
  <2> QED BY <2>2, <2>3, <2>4 DEF reactions, inbound, handlers, Typed
<1>3. ASSUME NEW o \in Outgoing, Saved(o)
      PROVE  Typed' /\ ApplyingLinked'
  <2>1. ent[o] \in Row /\ <<o, "api">> \in Keys
    BY KeysOf DEF Messages, Typed
  <2>2. row' \in [Keys -> Row \union {NoRow}]
    <3>1. CASE row' = [row EXCEPT ![<<o, "api">>] = ent[o]]
      BY <2>1, <3>1, Put
    <3>2. CASE UNCHANGED row
      BY <3>2 DEF Typed
    <3> QED BY <1>3, <3>1, <3>2 DEF Saved
  <2>3. send' \in [Outgoing -> {"none", "sending", "saving", "done"}]
    BY <1>3 DEF Saved, Typed
  <2> QED BY <1>3, <2>2, <2>3 DEF Saved, reactions, inbound, handlers, Typed
<1>4. ASSUME NEW o \in Outgoing, NEW st \in Receipts, AckStep(o, st)
      PROVE  Typed' /\ ApplyingLinked'
  <2>1. row' \in [Keys -> Row \union {NoRow}]
    <3>1. CASE row' = Advanced(o, st)
      BY <3>1, AdvancedType
    <3>2. CASE UNCHANGED row
      BY <3>2 DEF Typed
    <3> QED BY <1>4, <3>1, <3>2 DEF AckStep, Receipt, ReceiptRetries
  <2> QED BY <1>4, <2>1 DEF AckStep, Receipt, ReceiptRetries, sends, reactions, inbound, handlers, Typed
<1>5. ASSUME NEW i \in Incoming, InboundStep(i)
      PROVE  Typed' /\ ApplyingLinked'
  <2>1. row' \in [Keys -> Row \union {NoRow}]
    <3>1. CASE row' = [row EXCEPT ![<<i, "copy">>] = NewRow("sent", TRUE)]
      <4>1. "sent" \in MessageStatus /\ i \in Messages
        BY DEF MessageStatus, Messages
      <4> QED BY <3>1, <4>1, KeysOf, NewRowType, Put
    <3>2. CASE UNCHANGED row
      BY <3>2 DEF Typed
    <3> QED BY <1>5, <3>1, <3>2, InboundWrites
  <2>2. /\ dispatched' \in [Incoming -> Nat] /\ due' \in [Incoming -> Nat]
        /\ unsaved' \in [Incoming -> Nat]
    BY <1>5, InboundCounts DEF Typed
  <2> QED BY <1>5, <2>1, <2>2, InboundWrites DEF sends, reactions, Typed
<1>6. ASSUME NEW m \in Historic, HistoryStep(m)
      PROVE  Typed' /\ ApplyingLinked'
  <2>1. row' \in [Keys -> Row \union {NoRow}]
    <3>1. CASE row' = [row EXCEPT ![<<m, "copy">>] = NewRow("sent", TRUE)]
      <4>1. "sent" \in MessageStatus /\ m \in Messages
        BY StoreAssumption DEF MessageStatus, Messages
      <4> QED BY <3>1, <4>1, KeysOf, NewRowType, Put
    <3>2. CASE UNCHANGED row
      BY <3>2 DEF Typed
    <3> QED BY <1>6, <3>1, <3>2 DEF HistoryStep, HistorySelects, HistoryInserts
  <2> QED BY <1>6, <2>1
       DEF HistoryStep, HistorySelects, HistoryInserts, sends, inbound, handlers, reactions, Typed
<1>7. ASSUME NEW r \in Reaction, React(r)
      PROVE  Typed' /\ ApplyingLinked'
  BY <1>7 DEF React, sends, inbound, handlers, Typed
<1>8. ASSUME NEW r \in Reaction, ReactionReads(r)
      PROVE  Typed' /\ ApplyingLinked'
  <2>1. CASE UNCHANGED applying
    BY <1>8, <2>1 DEF ReactionReads, sends, inbound, handlers, Typed
  <2>2. CASE Known(r.to) # {}
    <3>1. PICK k \in Known(r.to) : k = CHOOSE x \in Known(r.to) : TRUE
      BY <2>2
    <3>2. r.to \in Messages
      BY StoreAssumption DEF Reaction, Messages
    <3>3. k \in Keys /\ row[k] \in Row /\ row[k].linked
      BY <3>1, <3>2, KeysOf DEF Typed
    <3>4. DEFINE e == [key |-> k, row |-> [row[k] EXCEPT !.reacted[r.by] = r.nr]]
    <3>5. e \in Entity /\ e.row.linked
      BY <3>3, ReactedRow DEF Entity
    <3>6. applying' = [applying EXCEPT ![r] = e]
      BY <1>8, <2>2, <3>1 DEF ReactionReads
    <3> HIDE DEF e
    <3>7. applying' \in [Reaction -> Entity \union {NoRow}] /\ ApplyingLinked'
      BY <3>5, <3>6 DEF Typed
    <3> QED BY <1>8, <3>7 DEF ReactionReads, sends, inbound, handlers, Typed
  <2> QED BY <1>8, <2>1, <2>2 DEF ReactionReads
<1>9. ASSUME NEW r \in Reaction, ReactionSaved(r)
      PROVE  Typed' /\ ApplyingLinked'
  <2>1. applying[r] \in Entity
    BY <1>9 DEF ReactionSaved, Typed
  <2>2. applying[r].key \in Keys /\ applying[r].row \in Row
    BY <2>1 DEF Entity
  <2>3. row' \in [Keys -> Row \union {NoRow}]
    <3>1. CASE row' = [row EXCEPT ![applying[r].key] = applying[r].row]
      BY <2>2, <3>1, Put
    <3>2. CASE UNCHANGED row
      BY <3>2 DEF Typed
    <3> QED BY <1>9, <3>1, <3>2 DEF ReactionSaved
  <2> QED BY <1>9, <2>3 DEF ReactionSaved, sends, inbound, handlers, Typed
<1>10. ASSUME NEW m \in Revocable, Revoke(m)
       PROVE  Typed' /\ ApplyingLinked'
  <2>1. m \in Messages
    BY StoreAssumption DEF Messages
  <2> QED BY <1>10, <2>1, RevokeType DEF Revoke, sends, inbound, handlers, reactions, Typed
<1>11. CASE Retire \/ Delete
  BY <1>11 DEF Retire, Delete, sends, inbound, handlers, reactions, Typed
<1>12. CASE UNCHANGED vars
  BY <1>0, <1>12 DEF vars, frame, sends, inbound, handlers, reactions
<1> QED BY <1>1, <1>2, <1>3, <1>4, <1>5, <1>6, <1>7, <1>8, <1>9, <1>10, <1>11, <1>12
     DEF Next, SendStep, ReactionStep

-----------------------------------------------------------------------------
\* An inbound message that has a row keeps one until the session is deleted.
Kept == \A i \in Incoming : Known(i) # {} => Known(i)' # {}

LEMMA PutKeeps ==
  ASSUME Typed, NEW k0 \in Keys, NEW v \in Row, row' = [row EXCEPT ![k0] = v],
         v.linked \/ k0[1] \notin Incoming
  PROVE  Kept
<1>1. ASSUME NEW i \in Incoming, NEW k \in Known(i)
      PROVE  k \in Known(i)'
  <2>0. i \in Messages
    BY DEF Messages
  <2>1. k \in Keys /\ k[1] = i /\ row[k] # NoRow /\ row[k].linked
    BY <2>0, KeysOf
  <2>2. row'[k] # NoRow /\ row'[k].linked
    BY <2>1, Put, NoRowAssumption
  <2> QED BY <2>0, <2>1, <2>2, KeysOfNext
<1> QED BY <1>1 DEF Kept

LEMMA EditKeeps ==
  ASSUME \A k \in Keys :
           \/ row'[k] = row[k]
           \/ row[k] # NoRow /\ row'[k] # NoRow /\ row[k].linked /\ row'[k].linked
  PROVE  Kept
<1>1. ASSUME NEW i \in Incoming, NEW k \in Known(i)
      PROVE  k \in Known(i)'
  <2>0. i \in Messages
    BY DEF Messages
  <2>1. k \in Keys /\ k[1] = i /\ row[k] # NoRow /\ row[k].linked
    BY <2>0, KeysOf
  <2> QED BY <2>0, <2>1, KeysOfNext
<1> QED BY <1>1 DEF Kept

LEMMA KeptNext ==
  ASSUME Typed, ApplyingLinked, [Next]_vars
  PROVE  Kept \/ Delete
<1>0. ASSUME UNCHANGED row
      PROVE  Kept \/ Delete
  BY <1>0, EditKeeps
<1>1. ASSUME NEW o \in Outgoing, SendStep(o)
      PROVE  Kept \/ Delete
  <2>1. o \in Messages /\ o \notin Incoming /\ "pending" \in MessageStatus
    BY StoreAssumption DEF Messages, MessageStatus
  <2>2. <<o, "api">> \in Keys /\ NewRow("pending", FALSE) \in Row /\ ent[o] \in Row
    BY <2>1, KeysOf, NewRowType DEF Typed
  <2>3. CASE row' = [row EXCEPT ![<<o, "api">>] = NewRow("pending", FALSE)]
    BY <2>1, <2>2, <2>3, PutKeeps, <1>1
       DEF SendStep, Send, Accept, EngineSent, EngineThrew, Saved
  <2>4. CASE row' = [row EXCEPT ![<<o, "api">>] = ent[o]]
    BY <2>1, <2>2, <2>4, PutKeeps, <1>1
       DEF SendStep, Send, Accept, EngineSent, EngineThrew, Saved
  <2>5. CASE UNCHANGED row
    BY <1>0, <1>1, <2>5 DEF SendStep, Send, Accept, EngineSent, EngineThrew, Saved
  <2> QED BY <1>1, <2>3, <2>4, <2>5
       DEF SendStep, Send, Accept, EngineSent, EngineThrew, Saved
<1>2. ASSUME NEW o \in Outgoing, NEW st \in Receipts, AckStep(o, st)
      PROVE  Kept \/ Delete
  BY <1>2, AdvancedType, EditKeeps DEF AckStep, Receipt, ReceiptRetries
<1>3. ASSUME NEW m \in Messages, row' = [row EXCEPT ![<<m, "copy">>] = NewRow("sent", TRUE)]
      PROVE  Kept
  <2>1. "sent" \in MessageStatus
    BY DEF MessageStatus
  <2> QED BY <1>3, <2>1, KeysOf, NewRowType, PutKeeps
<1>4. ASSUME NEW i \in Incoming, InboundStep(i)
      PROVE  Kept \/ Delete
  <2>1. i \in Messages
    BY DEF Messages
  <2> QED BY <1>0, <1>3, <1>4, <2>1, InboundWrites
<1>5. ASSUME NEW m \in Historic, HistoryStep(m)
      PROVE  Kept \/ Delete
  <2>1. m \in Messages
    BY StoreAssumption DEF Messages
  <2> QED BY <1>0, <1>3, <1>5, <2>1 DEF HistoryStep, HistorySelects, HistoryInserts
<1>6. ASSUME NEW r \in Reaction, React(r) \/ ReactionReads(r)
      PROVE  Kept \/ Delete
  BY <1>0, <1>6 DEF React, ReactionReads
<1>7. ASSUME NEW r \in Reaction, ReactionSaved(r)
      PROVE  Kept \/ Delete
  <2>1. applying[r] \in Entity /\ applying[r].row.linked
    BY <1>7 DEF ReactionSaved, Typed, ApplyingLinked
  <2>2. applying[r].key \in Keys /\ applying[r].row \in Row
    BY <2>1 DEF Entity
  <2>3. CASE row' = [row EXCEPT ![applying[r].key] = applying[r].row]
    BY <1>7, <2>1, <2>2, <2>3, PutKeeps DEF ReactionSaved
  <2> QED BY <1>0, <1>7, <2>3 DEF ReactionSaved
<1>8. ASSUME NEW m \in Revocable, Revoke(m)
      PROVE  Kept \/ Delete
  <2>1. m \in Messages
    BY StoreAssumption DEF Messages
  <2>2. \A k \in Keys :
          \/ row'[k] = row[k]
          \/ row[k] # NoRow /\ row'[k] # NoRow /\ row[k].linked /\ row'[k].linked
    BY <1>8, <2>1, RevokeType
  <2> QED BY <1>8, <2>2, EditKeeps DEF Revoke
<1>9. CASE Retire \/ Delete
  BY <1>0, <1>9 DEF Retire
<1>10. CASE UNCHANGED vars
  BY <1>0, <1>10 DEF vars
<1> QED BY <1>1, <1>2, <1>4, <1>5, <1>6, <1>7, <1>8, <1>9, <1>10 DEF Next, ReactionStep

\* Only the handler of a message counts its dispatches.
LEMMA DispatchedNext ==
  ASSUME [Next]_vars
  PROVE  UNCHANGED <<dispatched, due, unsaved>> \/ \E i \in Incoming : InboundStep(i)
<1> QED BY DEF Next, vars, inbound, handlers, SendStep, Send, Accept, EngineSent, EngineThrew, Saved,
     AckStep, Receipt, ReceiptRetries, HistoryStep, HistorySelects, HistoryInserts, ReactionStep,
     React, ReactionReads, ReactionSaved, Revoke, Retire, Delete

LEMMA CountedNext ==
  ASSUME Typed, ApplyingLinked, Counted, [Next]_vars
  PROVE  Counted'
<1>1. CASE Delete
  <2>1. UNCHANGED <<dispatched, due, unsaved>> /\ ~deleted /\ deleted'
    BY <1>1 DEF Delete, inbound, handlers
  <2>2. \A i \in Incoming : Owed(i) <= 1 /\ Owed(i)' = Owed(i) /\ Owed(i) \in Int
    BY <2>1 DEF Counted, Owed, Typed
  <2> QED BY <2>1, <2>2 DEF Counted
<1> DEFINE Room(i) == (IF deleted THEN 1 ELSE 0) + (IF Known(i) = {} THEN 0 ELSE 1)
<1>2. ASSUME ~Delete
      PROVE  /\ deleted' = deleted /\ Kept
             /\ \A i \in Incoming : Room(i) <= Room(i)' /\ Room(i) \in Int /\ Room(i)' \in Int
  <2>1. deleted' = deleted
    BY <1>2, InboundWrites
       DEF Next, vars, SendStep, Send, Accept, EngineSent, EngineThrew, Saved,
           AckStep, Receipt, ReceiptRetries, HistoryStep, HistorySelects, HistoryInserts,
           ReactionStep, React, ReactionReads, ReactionSaved, Revoke, Retire
  <2>2. Kept
    BY <1>2, KeptNext
  <2> QED BY <2>1, <2>2 DEF Kept
<1>3. ASSUME ~Delete, \A i \in Incoming : Owed(i)' = Owed(i)
      PROVE  Counted'
  <2>1. \A i \in Incoming : Owed(i) \in Int /\ Owed(i) <= Room(i)
    BY DEF Counted, Owed, Typed
  <2>2. \A i \in Incoming : Owed(i)' <= Room(i)'
    BY <1>2, <1>3, <2>1
  <2> QED BY <2>2 DEF Counted
<1>4. ASSUME NEW i \in Incoming, MessageStored(i), ~Delete,
             due' = [due EXCEPT ![i] = due[i] + 1], UNCHANGED <<dispatched, unsaved>>
      PROVE  Counted'
  <2>1. i \in Messages /\ "sent" \in MessageStatus
    BY DEF Messages, MessageStatus
  <2>2. <<i, "copy">> \in Keys /\ row'[<<i, "copy">>] = NewRow("sent", TRUE)
    BY <1>4, <2>1, KeysOf DEF MessageStored, Typed
  <2>3. <<i, "copy">> \in Known(i)'
    BY <2>1, <2>2, NewRowType, KeysOfNext
  <2>4. Known(i) = {} /\ Known(i)' # {}
    BY <1>4, <2>3 DEF MessageStored
  <2>5. Room(i)' = Room(i) + 1
    BY <1>2, <1>4, <2>4
  <2>6. ASSUME NEW j \in Incoming
        PROVE  Owed(j)' <= Room(j)'
    <3>0. Owed(j) \in Int /\ Owed(j) <= Room(j) /\ Room(j) \in Int /\ Room(j)' \in Int /\ Room(j) <= Room(j)'
      BY <1>2, <1>4 DEF Counted, Owed, Typed
    <3>1. CASE j = i
      <4>1. Owed(i)' = Owed(i) + 1
        BY <1>4 DEF Owed, Typed
      <4> QED BY <2>5, <3>0, <3>1, <4>1
    <3>2. CASE j # i
      <4>1. Owed(j)' = Owed(j)
        BY <1>4, <3>2 DEF Owed, Typed
      <4> QED BY <3>0, <4>1
    <3> QED BY <3>1, <3>2
  <2> QED BY <2>6 DEF Counted
<1>5. ASSUME ~Delete, NEW i \in Incoming, InboundStep(i)
      PROVE  Counted'
  <2>1. CASE UNCHANGED <<dispatched, due, unsaved>>
    BY <1>3, <1>5, <2>1 DEF Owed
  <2>2. CASE MessageStored(i) /\ due' = [due EXCEPT ![i] = due[i] + 1] /\ UNCHANGED <<dispatched, unsaved>>
    BY <1>4, <1>5, <2>2
  <2>3. CASE /\ due' = [due EXCEPT ![i] = due[i] + 1] /\ UNCHANGED dispatched
             /\ unsaved' = [unsaved EXCEPT ![i] = unsaved[i] + 1]
    <3>1. \A j \in Incoming : Owed(j)' = Owed(j)
      BY <2>3 DEF Owed, Typed
    <3> QED BY <1>3, <1>5, <3>1
  <2>4. CASE /\ due[i] > 0 /\ due' = [due EXCEPT ![i] = due[i] - 1] /\ UNCHANGED unsaved
             /\ dispatched' = [dispatched EXCEPT ![i] = dispatched[i] + 1]
    <3>1. \A j \in Incoming : Owed(j)' = Owed(j)
      BY <2>4 DEF Owed, Typed
    <3> QED BY <1>3, <1>5, <3>1
  <2> QED BY <1>5, <2>1, <2>2, <2>3, <2>4, InboundCounts
<1>6. CASE UNCHANGED <<dispatched, due, unsaved>> /\ ~Delete
  BY <1>3, <1>6 DEF Owed
<1> QED BY <1>1, <1>5, <1>6, DispatchedNext

-----------------------------------------------------------------------------
StoreCounts ==
  /\ hooks \in [Incoming -> Nat] /\ inserting \in [Incoming -> Nat]
  /\ due \in [Incoming -> Nat] /\ dispatched \in [Incoming -> Nat]

Inv == Typed /\ ApplyingLinked /\ Counted

LEMMA InvInit == Init => Inv
<1> SUFFICES ASSUME Init PROVE Inv
  OBVIOUS
<1>1. "pending" \in MessageStatus
  BY DEF MessageStatus
<1>2. NewRow("pending", FALSE) \in Row
  BY <1>1, NewRowType
<1>3. /\ row \in [Keys -> Row \union {NoRow}] /\ send \in [Outgoing -> {"none", "sending", "saving", "done"}]
      /\ ent \in [Outgoing -> Row] /\ deleted \in BOOLEAN
  BY <1>2 DEF Init
<1>4. /\ applying \in [Reaction -> Entity \union {NoRow}]
      /\ dispatched \in [Incoming -> Nat] /\ due \in [Incoming -> Nat]
      /\ unsaved \in [Incoming -> Nat]
  BY DEF Init
<1>5. ApplyingLinked
  BY DEF Init, ApplyingLinked
<1>6. ASSUME NEW i \in Incoming
      PROVE  Owed(i) <= (IF deleted THEN 1 ELSE 0) + (IF Known(i) = {} THEN 0 ELSE 1)
  BY DEF Init, Owed
<1> QED BY <1>3, <1>4, <1>5, <1>6 DEF Inv, Typed, Counted

LEMMA InvNext == Inv /\ [Next]_vars => Inv'
BY TypedNext, CountedNext DEF Inv

\* However often the engine fires a message, beside its history batches and reactions and
\* with inserts that fail, it is dispatched once more than its insert failed, at most, and
\* once more when an insert that was under way ends after the session's deletion.
THEOREM DispatchedAtMostOnce == Spec => []DispatchedOnce
<1>1. Inv => DispatchedOnce
  <2> SUFFICES ASSUME Inv, NEW i \in Incoming
               PROVE  dispatched[i] - unsaved[i] <= IF deleted THEN 2 ELSE 1
    BY DEF DispatchedOnce
  <2>1. Owed(i) \in Int /\ Owed(i) = dispatched[i] + due[i] - unsaved[i]
    BY DEF Inv, Typed, Owed
  <2>2. Owed(i) <= (IF deleted THEN 1 ELSE 0) + (IF Known(i) = {} THEN 0 ELSE 1)
    BY DEF Inv, Counted
  <2>3. Owed(i) <= IF deleted THEN 2 ELSE 1
    BY <2>1, <2>2
  <2>4. dispatched[i] \in Nat /\ due[i] \in Nat /\ unsaved[i] \in Nat
    BY DEF Inv, Typed
  <2> QED BY <2>1, <2>3, <2>4
<1> QED BY <1>1, InvInit, InvNext, PTL DEF Spec

\* A retired engine takes no message on.  What it has taken on it sees through: nothing asks
\* for the engine between the look after the hook, the insert that is awaited, and the
\* webhook.
THEOREM RetiredTakesNothingOn == Spec => RetiredIsSilent
<1> DEFINE Silent == \A i \in Incoming : TakenOn(i)' <= TakenOn(i)
<1>1. Init => StoreCounts
  BY DEF Init, StoreCounts
<1>2. StoreCounts /\ [Next]_vars => StoreCounts' /\ (~live => Silent)
  <2> SUFFICES ASSUME StoreCounts, [Next]_vars PROVE StoreCounts' /\ (~live => Silent)
    OBVIOUS
  <2>0. \A i \in Incoming : hooks[i] \in Nat /\ inserting[i] \in Nat /\ due[i] \in Nat /\ dispatched[i] \in Nat
    BY DEF StoreCounts
  <2>1. CASE UNCHANGED <<hooks, inserting, due, dispatched>>
    BY <2>0, <2>1 DEF StoreCounts, TakenOn
  <2>2. ASSUME NEW i \in Incoming, NEW h \in Nat, NEW n \in Nat, NEW e \in Nat, NEW d \in Nat,
               hooks' = [hooks EXCEPT ![i] = h], inserting' = [inserting EXCEPT ![i] = n],
               due' = [due EXCEPT ![i] = e], dispatched' = [dispatched EXCEPT ![i] = d],
               ~live => n + e + d <= inserting[i] + due[i] + dispatched[i]
        PROVE  StoreCounts' /\ (~live => Silent)
    <3>1. StoreCounts'
      BY <2>2 DEF StoreCounts
    <3>2. ASSUME NEW j \in Incoming, ~live
          PROVE  TakenOn(j)' <= TakenOn(j)
      <4>1. CASE j = i
        BY <2>2, <3>2, <4>1 DEF TakenOn, StoreCounts
      <4>2. CASE j # i
        BY <2>0, <2>2, <4>2 DEF TakenOn, StoreCounts
      <4> QED BY <4>1, <4>2
    <3> QED BY <3>1, <3>2
  <2>3. ASSUME NEW i \in Incoming, InboundStep(i)
        PROVE  StoreCounts' /\ (~live => Silent)
    <3>0. /\ hooks = [hooks EXCEPT ![i] = hooks[i]] /\ inserting = [inserting EXCEPT ![i] = inserting[i]]
          /\ due = [due EXCEPT ![i] = due[i]] /\ dispatched = [dispatched EXCEPT ![i] = dispatched[i]]
      BY DEF StoreCounts
    <3> DEFINE To(h, n, e, d) ==
                 /\ hooks' = [hooks EXCEPT ![i] = h] /\ inserting' = [inserting EXCEPT ![i] = n]
                 /\ due' = [due EXCEPT ![i] = e] /\ dispatched' = [dispatched EXCEPT ![i] = d]
                 /\ ~live => n + e + d <= inserting[i] + due[i] + dispatched[i]
    <3>1. CASE MessageFires(i)
      <4>1. To(hooks[i] + 1, inserting[i], due[i], dispatched[i]) /\ hooks[i] + 1 \in Nat
        BY <2>0, <3>0, <3>1 DEF MessageFires
      <4> QED BY <2>0, <2>2, <4>1
    <3>2. CASE MessageDropped(i)
      <4>1. To(hooks[i] - 1, inserting[i], due[i], dispatched[i]) /\ hooks[i] - 1 \in Nat
        BY <2>0, <3>0, <3>2 DEF MessageDropped
      <4> QED BY <2>0, <2>2, <4>1
    <3>3. CASE MessageChecked(i)
      <4>1. To(hooks[i] - 1, inserting[i] + 1, due[i], dispatched[i])
            /\ hooks[i] - 1 \in Nat /\ inserting[i] + 1 \in Nat
        BY <2>0, <3>0, <3>3 DEF MessageChecked, MessagePasses
      <4> QED BY <2>0, <2>2, <4>1
    <3>4. CASE MessageStored(i) \/ MessageUnstored(i)
      <4>0. Inserted(i, 1) /\ UNCHANGED <<hooks, dispatched>>
        BY <3>4 DEF MessageStored, MessageUnstored, Inserted
      <4>1. To(hooks[i], inserting[i] - 1, due[i] + 1, dispatched[i])
            /\ inserting[i] - 1 \in Nat /\ due[i] + 1 \in Nat
        BY <2>0, <3>0, <4>0 DEF Inserted
      <4> QED BY <2>0, <2>2, <4>1
    <3>5. CASE MessageDuplicate(i)
      <4>0. /\ inserting[i] > 0 /\ inserting' = [inserting EXCEPT ![i] = inserting[i] - 1]
            /\ due' = [due EXCEPT ![i] = due[i] + 0] /\ UNCHANGED <<hooks, dispatched>>
        BY <3>5 DEF MessageDuplicate, Inserted
      <4>1. due[i] + 0 = due[i]
        BY <2>0
      <4>2. due' = [due EXCEPT ![i] = due[i]]
        BY <4>0, <4>1
      <4>3. inserting[i] - 1 \in Nat /\ inserting[i] - 1 + due[i] + dispatched[i] <= inserting[i] + due[i] + dispatched[i]
        BY <2>0, <4>0
      <4>4. hooks' = [hooks EXCEPT ![i] = hooks[i]] /\ dispatched' = [dispatched EXCEPT ![i] = dispatched[i]]
        BY <3>0, <4>0
      <4>5. To(hooks[i], inserting[i] - 1, due[i], dispatched[i])
        BY <4>0, <4>2, <4>3, <4>4
      <4> QED BY <2>0, <2>2, <4>3, <4>5
    <3>6. CASE MessageDispatched(i)
      <4>1. To(hooks[i], inserting[i], due[i] - 1, dispatched[i] + 1)
            /\ due[i] - 1 \in Nat /\ dispatched[i] + 1 \in Nat
        BY <2>0, <3>0, <3>6 DEF MessageDispatched
      <4> QED BY <2>0, <2>2, <4>1
    <3> QED BY <2>3, <3>1, <3>2, <3>3, <3>4, <3>5, <3>6 DEF InboundStep
  <2>4. UNCHANGED <<hooks, inserting, due, dispatched>> \/ \E i \in Incoming : InboundStep(i)
    BY DEF Next, vars, inbound, handlers, SendStep, Send, Accept, EngineSent, EngineThrew, Saved,
       AckStep, Receipt, ReceiptRetries, HistoryStep, HistorySelects, HistoryInserts, ReactionStep,
       React, ReactionReads, ReactionSaved, Revoke, Retire, Delete
  <2> QED BY <2>1, <2>3, <2>4
<1>3. StoreCounts /\ [Next]_vars => [~live => \A i \in Incoming : TakenOn(i)' <= TakenOn(i)]_vars
  BY <1>2
<1>4. StoreCounts /\ [Next]_vars => StoreCounts'
  BY <1>2
<1> QED BY <1>1, <1>3, <1>4, PTL DEF Spec, RetiredIsSilent

-----------------------------------------------------------------------------
\* A copy is made under an id, and a message that is sent has the PENDING row, unlinked,
\* until its save; only the save of a reaction brings back what it has read.
OutRow(w, s) == s # "none" /\ (s # "done" => w.status = "pending" /\ ~w.linked /\ ~w.revoked)

SettledRow(k, w, s) ==
  \/ k[2] = "copy" /\ w.linked
  \/ k[2] = "api" /\ k[1] \in Outgoing /\ OutRow(w, s[k[1]])

Settled == \A k \in Keys : row[k] # NoRow => SettledRow(k, row[k], send)

ApplyingSettled ==
  \A r \in Reaction : applying[r] # NoRow =>
    LET k == applying[r].key IN k[2] = "copy" \/ (k[1] \in Outgoing /\ send[k[1]] = "done")

LEMMA LaterFacts ==
  /\ \A st \in MessageStatus : st \in Later(st)
  /\ Later("pending") = MessageStatus
  /\ \A st \in Receipts : \A from \in AckStatusTransitionFrom(st) : st \in Later(from)
BY DEF Later, MessageStatus, Receipts, AckStatusTransitionFrom

\* Sends only move on.
SendsOn == \A o \in Outgoing : send[o] # "none" => send'[o] # "none" /\ (send[o] = "done" => send'[o] = "done")

\* A step that leaves every row alone or edits it in place, forwards.
LEMMA EditSettles ==
  ASSUME Typed, Settled, SendsOn,
         \A k \in Keys : row'[k] = row[k] \/ row'[k] = NoRow \/
           /\ row[k] # NoRow /\ row[k].linked /\ row'[k].linked
           /\ Forward(row[k], row'[k])
  PROVE  Settled' /\ Advances
<1>1. ASSUME NEW k \in Keys, row'[k] # NoRow
      PROVE  SettledRow(k, row'[k], send')
  <2>1. row[k] # NoRow /\ SettledRow(k, row[k], send)
    BY <1>1 DEF Settled
  <2>2. CASE k[2] = "copy" /\ row[k].linked
    BY <1>1, <2>2 DEF SettledRow
  <2>3. CASE k[2] = "api" /\ k[1] \in Outgoing /\ OutRow(row[k], send[k[1]])
    <3>1. CASE row'[k] = row[k]
      BY <2>3, <3>1 DEF SettledRow, OutRow, SendsOn
    <3>2. CASE row'[k] # row[k]
      <4>1. row[k].linked
        BY <1>1, <3>2
      <4>2. send[k[1]] = "done" /\ send'[k[1]] = "done"
        BY <2>3, <4>1 DEF OutRow, SendsOn
      <4> QED BY <2>3, <4>2 DEF SettledRow, OutRow
    <3> QED BY <3>1, <3>2
  <2> QED BY <2>1, <2>2, <2>3 DEF SettledRow
<1>2. Settled'
  BY <1>1 DEF Settled, SettledRow, OutRow
<1>3. \A k \in Keys : row[k] # NoRow => row[k].status \in MessageStatus
  BY DEF Typed, Row
<1>4. \A k \in Keys : row[k] # NoRow /\ row'[k] # NoRow => Forward(row[k], row'[k])
  BY <1>3, LaterFacts DEF Forward
<1> QED BY <1>2, <1>4 DEF Advances

\* A step that writes one row.
LEMMA PutSettles ==
  ASSUME Typed, Settled, SendsOn, NEW k0 \in Keys, NEW w \in Row, row' = [row EXCEPT ![k0] = w],
         SettledRow(k0, w, send'),
         row[k0] # NoRow => Forward(row[k0], w) \/ \E r \in Reaction : Restores(r, k0),
         \A o \in Outgoing : send'[o] = send[o] \/ k0 = <<o, "api">>
  PROVE  Settled' /\ Advances
<1>1. \A k \in Keys : row'[k] = IF k = k0 THEN w ELSE row[k]
  BY Put
<1>2. ASSUME NEW k \in Keys, row'[k] # NoRow
      PROVE  SettledRow(k, row'[k], send')
  <2>1. CASE k = k0
    BY <1>1, <2>1
  <2>2. CASE k # k0
    <3>1. row'[k] = row[k] /\ SettledRow(k, row[k], send)
      BY <1>1, <1>2, <2>2 DEF Settled
    <3>2. k[2] = "api" /\ k[1] \in Outgoing => send'[k[1]] = send[k[1]]
      BY <2>2, KeysOf
    <3> QED BY <3>1, <3>2 DEF SettledRow, OutRow
  <2> QED BY <2>1, <2>2
<1>3. Settled'
  BY <1>2 DEF Settled, SettledRow, OutRow
<1>4. \A k \in Keys : row[k] # NoRow => row[k].status \in MessageStatus
  BY DEF Typed, Row
<1>5. ASSUME NEW k \in Keys, row[k] # NoRow, row'[k] # NoRow
      PROVE  Forward(row[k], row'[k]) \/ \E r \in Reaction : Restores(r, k)
  <2>1. CASE k = k0
    BY <1>1, <1>5, <2>1
  <2>2. CASE k # k0
    BY <1>1, <1>4, <1>5, <2>2, LaterFacts DEF Forward
  <2> QED BY <2>1, <2>2
<1> QED BY <1>3, <1>5 DEF Advances

\* A message that has no row under its id has no copy, so that the insert of one takes
\* nothing back.
LEMMA InsertSettles ==
  ASSUME Typed, Settled, NEW m \in Messages, Known(m) = {}, UNCHANGED send,
         row' = [row EXCEPT ![<<m, "copy">>] = NewRow("sent", TRUE)]
  PROVE  Settled' /\ Advances
<1>1. /\ NewRow("sent", TRUE) \in Row /\ NewRow("sent", TRUE).linked
      /\ <<m, "copy">> \in Keys /\ <<m, "copy">>[1] = m /\ <<m, "copy">>[2] = "copy"
  BY KeysOf, NewRowType DEF MessageStatus
<1>2. PICK k0 \in Keys : k0 = <<m, "copy">> /\ k0[1] = m /\ k0[2] = "copy"
  BY <1>1
<1>3. k0 \notin Known(m)
  OBVIOUS
<1>4. row[k0] = NoRow
  BY <1>2, <1>3, KeysOf DEF Settled, SettledRow
<1>5. SettledRow(k0, NewRow("sent", TRUE), send')
  BY <1>1, <1>2 DEF SettledRow
<1> QED BY <1>1, <1>2, <1>4, <1>5, PutSettles DEF SendsOn

\* The two writes of a send.
LEMMA SendSettles ==
  ASSUME Typed, Settled, NEW o \in Outgoing, Send(o) \/ Saved(o)
  PROVE  Settled' /\ Advances
<1>0. o \in Messages /\ "pending" \in MessageStatus
  BY DEF Messages, MessageStatus
<1>1. <<o, "api">> \in Keys /\ <<o, "api">>[1] = o /\ <<o, "api">>[2] = "api"
  BY <1>0, KeysOf
<1>2. PICK k0 \in Keys : k0 = <<o, "api">> /\ k0[1] = o /\ k0[2] = "api"
  BY <1>1
<1>3. /\ send[o] \in {"none", "saving"} /\ send'[o] \in {"sending", "done"}
      /\ \A p \in Outgoing : p # o => send'[p] = send[p]
  BY DEF Send, Saved, Typed
<1>4. SendsOn
  BY <1>3 DEF SendsOn
<1>5. CASE UNCHANGED row
  BY <1>4, <1>5, EditSettles
<1>6. ASSUME NEW w \in Row, row' = [row EXCEPT ![k0] = w], OutRow(w, send'[o])
      PROVE  Settled' /\ Advances
  <2>1. row[k0] # NoRow => row[k0].status = "pending" /\ ~row[k0].revoked
    BY <1>2, <1>3 DEF Settled, SettledRow, OutRow
  <2>2. row[k0] # NoRow => Forward(row[k0], w)
    BY <2>1, LaterFacts DEF Forward, Row
  <2>3. SettledRow(k0, w, send')
    BY <1>2, <1>6 DEF SettledRow
  <2> QED BY <1>2, <1>3, <1>4, <1>6, <2>2, <2>3, PutSettles
<1>7. CASE Send(o)
  <2>1. CASE row' = [row EXCEPT ![<<o, "api">>] = NewRow("pending", FALSE)]
    <3>1. NewRow("pending", FALSE) \in Row /\ OutRow(NewRow("pending", FALSE), send'[o])
      BY <1>0, <1>3, NewRowType DEF OutRow
    <3> QED BY <1>2, <1>6, <2>1, <3>1
  <2> QED BY <1>5, <1>7, <2>1 DEF Send
<1>8. CASE Saved(o)
  <2>1. CASE row' = [row EXCEPT ![<<o, "api">>] = ent[o]]
    <3>1. ent[o] \in Row /\ send'[o] = "done"
      BY <1>8 DEF Saved, Typed
    <3>2. OutRow(ent[o], send'[o])
      BY <3>1 DEF OutRow
    <3> QED BY <1>2, <1>6, <2>1, <3>1, <3>2
  <2> QED BY <1>5, <1>8, <2>1 DEF Saved
<1> QED BY <1>7, <1>8

LEMMA ReactionSettles ==
  ASSUME Typed, ApplyingLinked, Settled, ApplyingSettled, NEW r \in Reaction, ReactionStep(r)
  PROVE  Settled' /\ ApplyingSettled' /\ Advances
<1>0. UNCHANGED send /\ SendsOn
  BY DEF ReactionStep, React, ReactionReads, ReactionSaved, sends, SendsOn
<1>1. ASSUME UNCHANGED row
      PROVE  Settled' /\ Advances
  BY <1>0, <1>1, EditSettles
<1>2. CASE React(r)
  BY <1>0, <1>1, <1>2 DEF React, ApplyingSettled
<1>3. CASE ReactionReads(r)
  <2>1. Settled' /\ Advances
    BY <1>1, <1>3 DEF ReactionReads
  <2>2. CASE Known(r.to) # {}
    <3>0. r.to \in Messages
      BY StoreAssumption DEF Reaction, Messages
    <3>1. PICK k \in Known(r.to) : k = CHOOSE x \in Known(r.to) : TRUE
      BY <2>2
    <3>2. k \in Keys /\ row[k] # NoRow /\ row[k].linked
      BY <3>0, <3>1, KeysOf
    <3>3. k[2] = "copy" \/ (k[1] \in Outgoing /\ send[k[1]] = "done")
      BY <3>2 DEF Settled, SettledRow, OutRow
    <3>4. DEFINE w == [row[k] EXCEPT !.reacted[r.by] = r.nr]
    <3>5. applying' = [applying EXCEPT ![r] = [key |-> k, row |-> w]]
      BY <1>3, <2>2, <3>1 DEF ReactionReads
    <3> HIDE DEF w
    <3>6. \A q \in Reaction : applying'[q] = IF q = r THEN [key |-> k, row |-> w] ELSE applying[q]
      BY <3>5 DEF Typed
    <3>7. ApplyingSettled'
      BY <1>0, <3>3, <3>6 DEF ApplyingSettled
    <3> QED BY <2>1, <3>7
  <2>3. CASE UNCHANGED applying
    BY <1>0, <2>1, <2>3 DEF ApplyingSettled
  <2> QED BY <1>3, <2>2, <2>3 DEF ReactionReads
<1>4. CASE ReactionSaved(r)
  <2>1. applying[r] \in Entity /\ applying[r] # NoRow /\ applying[r].row.linked
    BY <1>4 DEF ReactionSaved, Typed, ApplyingLinked
  <2>2. applying'[r] = NoRow /\ \A q \in Reaction : applying'[q] # NoRow => applying'[q] = applying[q]
    BY <1>4 DEF ReactionSaved, Typed
  <2>3. ApplyingSettled'
    BY <1>0, <2>2 DEF ApplyingSettled
  <2>4. CASE UNCHANGED row
    BY <1>1, <2>3, <2>4
  <2>5. CASE row' = [row EXCEPT ![applying[r].key] = applying[r].row]
    <3>1. PICK k0 \in Keys : k0 = applying[r].key
      BY <2>1 DEF Entity
    <3>2. PICK w \in Row : w = applying[r].row /\ w.linked
      BY <2>1 DEF Entity
    <3>3. row' = [row EXCEPT ![k0] = w]
      BY <2>5, <3>1, <3>2
    <3>4. Restores(r, k0)
      BY <2>1, <2>2, <3>1, <3>2, <3>3, Put DEF Restores
    <3>5. k0[2] \in {"api", "copy"}
      BY KeysOf
    <3>6. SettledRow(k0, w, send')
      BY <1>0, <2>1, <3>1, <3>2, <3>5 DEF ApplyingSettled, SettledRow, OutRow
    <3> QED BY <1>0, <2>3, <3>3, <3>4, <3>6, PutSettles
  <2> QED BY <1>4, <2>4, <2>5 DEF ReactionSaved
<1> QED BY <1>2, <1>3, <1>4 DEF ReactionStep

LEMMA SettledNext ==
  ASSUME Typed, ApplyingLinked, Settled, ApplyingSettled, [Next]_vars
  PROVE  Settled' /\ ApplyingSettled' /\ Advances
<1>0. ASSUME UNCHANGED applying, SendsOn
      PROVE  ApplyingSettled'
  BY <1>0 DEF ApplyingSettled, SendsOn
<1>1. ASSUME UNCHANGED <<row, send, applying>>
      PROVE  Settled' /\ ApplyingSettled' /\ Advances
  BY <1>0, <1>1, EditSettles DEF SendsOn
<1>2. ASSUME NEW o \in Outgoing, Send(o) \/ Saved(o)
      PROVE  Settled' /\ ApplyingSettled' /\ Advances
  <2>1. UNCHANGED applying /\ SendsOn
    BY <1>2 DEF Send, Saved, reactions, SendsOn, Typed
  <2> QED BY <1>0, <1>2, <2>1, SendSettles
<1>3. ASSUME NEW o \in Outgoing, Accept(o) \/ EngineSent(o) \/ EngineThrew(o)
      PROVE  Settled' /\ ApplyingSettled' /\ Advances
  <2>1. SendsOn
    BY <1>3 DEF Accept, EngineSent, EngineThrew, Typed, SendsOn
  <2>2. UNCHANGED <<row, applying>>
    BY <1>3 DEF Accept, EngineSent, EngineThrew, reactions
  <2> QED BY <1>0, <2>1, <2>2, EditSettles
<1>4. ASSUME NEW o \in Outgoing, NEW st \in Receipts, AckStep(o, st)
      PROVE  Settled' /\ ApplyingSettled' /\ Advances
  <2>1. UNCHANGED <<send, applying>> /\ (UNCHANGED row \/ row' = Advanced(o, st))
    BY <1>4 DEF AckStep, Receipt, ReceiptRetries, sends, reactions
  <2>2. CASE row' = Advanced(o, st)
    <3>1. \A k \in Keys : row'[k] = row[k] \/
            /\ row[k] # NoRow /\ row[k].linked /\ row'[k].linked
            /\ Forward(row[k], row'[k])
      BY <2>2, AdvancedType, LaterFacts DEF Forward
    <3> QED BY <1>0, <2>1, <3>1, EditSettles DEF SendsOn
  <2> QED BY <1>1, <2>1, <2>2
<1>5. ASSUME NEW i \in Incoming, InboundStep(i)
      PROVE  Settled' /\ ApplyingSettled' /\ Advances
  <2>1. UNCHANGED <<send, applying>> /\ i \in Messages
    BY <1>5, InboundWrites DEF sends, reactions, Messages
  <2>2. CASE UNCHANGED row
    BY <1>1, <2>1, <2>2
  <2>3. CASE MessageStored(i)
    <3>1. Known(i) = {} /\ row' = [row EXCEPT ![<<i, "copy">>] = NewRow("sent", TRUE)]
      BY <2>3 DEF MessageStored
    <3> QED BY <1>0, <2>1, <3>1, InsertSettles DEF SendsOn
  <2> QED BY <1>5, <2>2, <2>3, InboundWrites
<1>6. ASSUME NEW m \in Historic, HistoryStep(m)
      PROVE  Settled' /\ ApplyingSettled' /\ Advances
  <2>1. UNCHANGED <<send, applying>> /\ m \in Messages
    BY <1>6, StoreAssumption DEF HistoryStep, HistorySelects, HistoryInserts, sends, reactions, Messages
  <2>2. CASE UNCHANGED row
    BY <1>1, <2>1, <2>2
  <2>3. CASE Known(m) = {} /\ row' = [row EXCEPT ![<<m, "copy">>] = NewRow("sent", TRUE)]
    BY <1>0, <2>1, <2>3, InsertSettles DEF SendsOn
  <2> QED BY <1>6, <2>2, <2>3 DEF HistoryStep, HistorySelects, HistoryInserts
<1>7. ASSUME NEW m \in Revocable, Revoke(m)
      PROVE  Settled' /\ ApplyingSettled' /\ Advances
  <2>1. m \in Messages /\ UNCHANGED <<send, applying>>
    BY <1>7, StoreAssumption DEF Messages, Revoke, sends, reactions
  <2>2. \A k \in Keys : row[k] # NoRow => row[k].status \in Later(row[k].status)
    BY LaterFacts DEF Typed, Row
  <2>3. \A k \in Keys : row'[k] = row[k] \/
          /\ row[k] # NoRow /\ row[k].linked /\ row'[k].linked
          /\ Forward(row[k], row'[k])
    BY <1>7, <2>1, <2>2, RevokeType DEF Forward
  <2> QED BY <1>0, <2>1, <2>3, EditSettles DEF SendsOn
<1>8. CASE Retire
  BY <1>1, <1>8 DEF Retire, sends, reactions
<1>9. CASE Delete
  <2>1. UNCHANGED <<send, applying>> /\ \A k \in Keys : row'[k] = NoRow
    BY <1>9 DEF Delete, sends, reactions
  <2> QED BY <1>0, <2>1, EditSettles DEF SendsOn
<1>10. CASE UNCHANGED vars
  BY <1>1, <1>10 DEF vars, sends, reactions
<1> QED BY <1>2, <1>3, <1>4, <1>5, <1>6, <1>7, <1>8, <1>9, <1>10, ReactionSettles DEF Next, SendStep

\* Receipts, saves that land late, revocations and duplicates only move rows on; the save of
\* a reaction is the one write that may take back what others wrote since its read.
THEOREM RowsOnlyAdvance == Spec => RowAdvances
<1> DEFINE SInv == Typed /\ ApplyingLinked /\ Settled /\ ApplyingSettled
<1>1. Init => SInv
  <2>1. Init => Settled /\ ApplyingSettled
    BY DEF Init, Settled, ApplyingSettled
  <2> QED BY <2>1, InvInit DEF Inv
<1>2. SInv /\ [Next]_vars => SInv'
  BY TypedNext, SettledNext
<1>3. SInv /\ [Next]_vars => [Advances]_vars
  BY SettledNext
<1> HIDE DEF SInv
<1> QED BY <1>1, <1>2, <1>3, PTL DEF Spec, RowAdvances

\* No row is taken back but by the save of a reaction, and a retired engine takes nothing on.
THEOREM NothingIsTakenBack == Spec => OnlyForward
  BY RowsOnlyAdvance, RetiredTakesNothingOn DEF OnlyForward

-----------------------------------------------------------------------------
\* The rest of the state.  A handler is somewhere between its hook and its end for a firing.
Rest ==
  /\ accepted \subseteq Outgoing /\ rejected \subseteq Outgoing
  /\ receipts \in [Outgoing -> SUBSET Receipts]
  /\ retry \subseteq Outgoing \X Receipts /\ lost \subseteq Outgoing
  /\ stopped \subseteq Incoming
  /\ history \in [Historic -> {"none", "unseen", "done"}]
  /\ live \in BOOLEAN

Chains ==
  /\ chain \in [Reacted -> Seq(Reaction)]
  /\ last \in [Reacted -> [Senders -> 0..PerSender]]
  /\ excused \subseteq Reaction

Firings ==
  /\ fired \in [Incoming -> Nat] /\ unsaved \in [Incoming -> Nat] /\ StoreCounts
  /\ \A i \in Incoming :
       /\ fired[i] <= Fires /\ TakenOn(i) + hooks[i] <= fired[i]
       /\ unsaved[i] <= due[i] + dispatched[i]

\* What the history of a session only adds to.
Grows ==
  /\ rejected \subseteq rejected' /\ stopped \subseteq stopped' /\ excused \subseteq excused'
  /\ lost \subseteq lost'
  /\ \A o \in Outgoing : receipts[o] \subseteq receipts'[o] /\ (send[o] = "done" => send'[o] = "done")
  /\ \A i \in Incoming : due[i] + dispatched[i] <= due'[i] + dispatched'[i] /\ fired[i] <= fired'[i]
  /\ \A m \in Historic : history[m] # "none" => history'[m] # "none"
  /\ deleted => deleted'

LEMMA InboundFires ==
  ASSUME Firings, NEW i \in Incoming, InboundStep(i)
  PROVE  Firings' /\ \A j \in Incoming : due[j] + dispatched[j] <= due'[j] + dispatched'[j] /\ fired[j] <= fired'[j]
<1>0. Fires \in Nat
  BY StoreAssumption
<1>1. \A j \in Incoming :
        /\ fired[j] \in Nat /\ hooks[j] \in Nat /\ inserting[j] \in Nat /\ due[j] \in Nat
        /\ dispatched[j] \in Nat /\ unsaved[j] \in Nat
        /\ fired[j] <= Fires /\ inserting[j] + due[j] + dispatched[j] + hooks[j] <= fired[j]
        /\ unsaved[j] <= due[j] + dispatched[j]
  BY DEF Firings, StoreCounts, TakenOn
<1>2. /\ fired = [fired EXCEPT ![i] = fired[i]] /\ hooks = [hooks EXCEPT ![i] = hooks[i]]
      /\ inserting = [inserting EXCEPT ![i] = inserting[i]] /\ due = [due EXCEPT ![i] = due[i]]
      /\ dispatched = [dispatched EXCEPT ![i] = dispatched[i]]
      /\ unsaved = [unsaved EXCEPT ![i] = unsaved[i]]
  BY DEF Firings, StoreCounts
<1> DEFINE To(f, h, n, e, d, u) ==
             /\ fired' = [fired EXCEPT ![i] = f] /\ hooks' = [hooks EXCEPT ![i] = h]
             /\ inserting' = [inserting EXCEPT ![i] = n] /\ due' = [due EXCEPT ![i] = e]
             /\ dispatched' = [dispatched EXCEPT ![i] = d] /\ unsaved' = [unsaved EXCEPT ![i] = u]
           Fine(f, h, n, e, d, u) ==
             /\ f <= Fires /\ n + e + d + h <= f /\ u <= e + d
             /\ due[i] + dispatched[i] <= e + d /\ fired[i] <= f
<1>3. ASSUME NEW f \in Nat, NEW h \in Nat, NEW n \in Nat, NEW e \in Nat, NEW d \in Nat, NEW u \in Nat,
             To(f, h, n, e, d, u), Fine(f, h, n, e, d, u)
      PROVE  Firings' /\ \A j \in Incoming : due[j] + dispatched[j] <= due'[j] + dispatched'[j] /\ fired[j] <= fired'[j]
  <2>1. /\ fired' \in [Incoming -> Nat] /\ unsaved' \in [Incoming -> Nat] /\ StoreCounts'
    BY <1>3 DEF Firings, StoreCounts
  <2>2. ASSUME NEW j \in Incoming
        PROVE  /\ fired'[j] = IF j = i THEN f ELSE fired[j]
               /\ hooks'[j] = IF j = i THEN h ELSE hooks[j]
               /\ inserting'[j] = IF j = i THEN n ELSE inserting[j]
               /\ due'[j] = IF j = i THEN e ELSE due[j]
               /\ dispatched'[j] = IF j = i THEN d ELSE dispatched[j]
               /\ unsaved'[j] = IF j = i THEN u ELSE unsaved[j]
    BY <1>3 DEF Firings, StoreCounts
  <2>3. ASSUME NEW j \in Incoming
        PROVE  /\ fired'[j] <= Fires /\ inserting'[j] + due'[j] + dispatched'[j] + hooks'[j] <= fired'[j]
               /\ unsaved'[j] <= due'[j] + dispatched'[j]
               /\ due[j] + dispatched[j] <= due'[j] + dispatched'[j] /\ fired[j] <= fired'[j]
    <3>1. CASE j = i
      BY <1>3, <2>2, <3>1
    <3>2. CASE j # i
      BY <1>1, <2>2, <3>2
    <3> QED BY <3>1, <3>2
  <2> QED BY <2>1, <2>3 DEF Firings, TakenOn
<1>4. CASE MessageFires(i)
  <2>1. To(fired[i] + 1, hooks[i] + 1, inserting[i], due[i], dispatched[i], unsaved[i])
    BY <1>2, <1>4 DEF MessageFires
  <2>2. /\ Fine(fired[i] + 1, hooks[i] + 1, inserting[i], due[i], dispatched[i], unsaved[i])
        /\ fired[i] + 1 \in Nat /\ hooks[i] + 1 \in Nat
    BY <1>0, <1>1, <1>4 DEF MessageFires
  <2> HIDE DEF To, Fine
  <2> QED BY <1>1, <1>3, <2>1, <2>2
<1>5. CASE MessageDropped(i)
  <2>1. To(fired[i], hooks[i] - 1, inserting[i], due[i], dispatched[i], unsaved[i])
    BY <1>2, <1>5 DEF MessageDropped
  <2>2. /\ Fine(fired[i], hooks[i] - 1, inserting[i], due[i], dispatched[i], unsaved[i])
        /\ hooks[i] - 1 \in Nat
    BY <1>0, <1>1, <1>5 DEF MessageDropped
  <2> HIDE DEF To, Fine
  <2> QED BY <1>1, <1>3, <2>1, <2>2
<1>6. CASE MessageChecked(i)
  <2>1. To(fired[i], hooks[i] - 1, inserting[i] + 1, due[i], dispatched[i], unsaved[i])
    BY <1>2, <1>6 DEF MessageChecked, MessagePasses
  <2>2. /\ Fine(fired[i], hooks[i] - 1, inserting[i] + 1, due[i], dispatched[i], unsaved[i])
        /\ hooks[i] - 1 \in Nat /\ inserting[i] + 1 \in Nat
    BY <1>0, <1>1, <1>6 DEF MessageChecked, MessagePasses
  <2> HIDE DEF To, Fine
  <2> QED BY <1>1, <1>3, <2>1, <2>2
<1>7. CASE MessageStored(i)
  <2>1. To(fired[i], hooks[i], inserting[i] - 1, due[i] + 1, dispatched[i], unsaved[i])
    BY <1>2, <1>7 DEF MessageStored, Inserted
  <2>2. /\ Fine(fired[i], hooks[i], inserting[i] - 1, due[i] + 1, dispatched[i], unsaved[i])
        /\ inserting[i] - 1 \in Nat /\ due[i] + 1 \in Nat
    BY <1>0, <1>1, <1>7 DEF MessageStored, Inserted
  <2> HIDE DEF To, Fine
  <2> QED BY <1>1, <1>3, <2>1, <2>2
<1>8. CASE MessageDuplicate(i)
  <2>1. To(fired[i], hooks[i], inserting[i] - 1, due[i], dispatched[i], unsaved[i])
    <3>1. due[i] + 0 = due[i]
      BY <1>1
    <3> QED BY <1>2, <1>8, <3>1 DEF MessageDuplicate, Inserted
  <2>2. /\ Fine(fired[i], hooks[i], inserting[i] - 1, due[i], dispatched[i], unsaved[i])
        /\ inserting[i] - 1 \in Nat
    BY <1>0, <1>1, <1>8 DEF MessageDuplicate, Inserted
  <2> HIDE DEF To, Fine
  <2> QED BY <1>1, <1>3, <2>1, <2>2
<1>9. CASE MessageUnstored(i)
  <2>1. To(fired[i], hooks[i], inserting[i] - 1, due[i] + 1, dispatched[i], unsaved[i] + 1)
    BY <1>2, <1>9 DEF MessageUnstored, Inserted
  <2>2. /\ Fine(fired[i], hooks[i], inserting[i] - 1, due[i] + 1, dispatched[i], unsaved[i] + 1)
        /\ inserting[i] - 1 \in Nat /\ due[i] + 1 \in Nat /\ unsaved[i] + 1 \in Nat
    BY <1>0, <1>1, <1>9 DEF MessageUnstored, Inserted
  <2> HIDE DEF To, Fine
  <2> QED BY <1>1, <1>3, <2>1, <2>2
<1>10. CASE MessageDispatched(i)
  <2>1. To(fired[i], hooks[i], inserting[i], due[i] - 1, dispatched[i] + 1, unsaved[i])
    BY <1>2, <1>10 DEF MessageDispatched
  <2>2. /\ Fine(fired[i], hooks[i], inserting[i], due[i] - 1, dispatched[i] + 1, unsaved[i])
        /\ due[i] - 1 \in Nat /\ dispatched[i] + 1 \in Nat
    BY <1>0, <1>1, <1>10 DEF MessageDispatched
  <2> HIDE DEF To, Fine
  <2> QED BY <1>1, <1>3, <2>1, <2>2
<1> QED BY <1>4, <1>5, <1>6, <1>7, <1>8, <1>9, <1>10 DEF InboundStep

LEMMA ReactionTypes ==
  ASSUME Chains, NEW r \in Reaction, ReactionStep(r), applying[r] # NoRow => Turn(r)
  PROVE  Chains' /\ excused \subseteq excused'
<1>0. /\ r.to \in Reacted /\ r.by \in Senders /\ r.nr \in 0..PerSender
      /\ chain[r.to] \in Seq(Reaction) /\ last[r.to] \in [Senders -> 0..PerSender]
  <2>1. r.to \in Reacted /\ r.by \in Senders /\ r.nr \in 1..PerSender
    BY DEF Reaction
  <2>2. r.nr \in 0..PerSender
    BY <2>1, StoreAssumption
  <2> QED BY <2>1, <2>2 DEF Chains
<1>1. CASE React(r)
  <2>1. chain' = [chain EXCEPT ![r.to] = Append(chain[r.to], r)]
        /\ Append(chain[r.to], r) \in Seq(Reaction)
    BY <1>0, <1>1 DEF React
  <2>2. last' = [last EXCEPT ![r.to] = [last[r.to] EXCEPT ![r.by] = r.nr]]
    BY <1>1 DEF React
  <2> QED BY <1>0, <1>1, <2>1, <2>2 DEF React, Chains
<1>2. CASE ReactionReads(r) \/ ReactionSaved(r)
  <2>1. Turn(r)
    BY <1>2 DEF ReactionReads, ReactionSaved
  <2>2. Tail(chain[r.to]) \in Seq(Reaction)
    BY <1>0, <2>1 DEF Turn
  <2>3. chain' = [chain EXCEPT ![r.to] = Tail(chain[r.to])] \/ chain' = chain
    BY <1>2 DEF ReactionReads, ReactionSaved, Unchain
  <2> QED BY <1>2, <2>2, <2>3 DEF ReactionReads, ReactionSaved, Chains
<1> QED BY <1>1, <1>2 DEF ReactionStep

\* The reactions to a message are written one after the other.
OneWriter == \A r \in Reaction : applying[r] # NoRow => Turn(r)

LEMMA RestNext ==
  ASSUME Typed, Rest, Chains, Firings, OneWriter, [Next]_vars
  PROVE  Rest' /\ Chains' /\ Firings' /\ Grows
<1> DEFINE G1 == /\ rejected \subseteq rejected' /\ stopped \subseteq stopped'
                 /\ \A o \in Outgoing : receipts[o] \subseteq receipts'[o] /\ (send[o] = "done" => send'[o] = "done")
                 /\ \A m \in Historic : history[m] # "none" => history'[m] # "none"
                 /\ lost \subseteq lost' /\ (deleted => deleted')
           F1 == Firings' /\ \A j \in Incoming : due[j] + dispatched[j] <= due'[j] + dispatched'[j] /\ fired[j] <= fired'[j]
<1>1. ASSUME UNCHANGED <<chain, last, excused>>
      PROVE  Chains' /\ excused \subseteq excused'
  BY <1>1 DEF Chains
<1>2. ASSUME UNCHANGED <<fired, hooks, inserting, due, dispatched, unsaved>>
      PROVE  F1
  BY <1>2 DEF Firings, StoreCounts, TakenOn
<1>3. ASSUME NEW o \in Outgoing, SendStep(o)
      PROVE  Rest' /\ G1 /\ UNCHANGED <<inbound, reactions>>
  BY <1>3 DEF SendStep, Send, Accept, EngineSent, EngineThrew, Saved, Rest, Typed, acks, inbound, reactions
<1>4. ASSUME NEW o \in Outgoing, NEW st \in Receipts, AckStep(o, st)
      PROVE  Rest' /\ G1 /\ UNCHANGED <<inbound, reactions>>
  <2>1. receipts' \in [Outgoing -> SUBSET Receipts] /\ \A p \in Outgoing : receipts[p] \subseteq receipts'[p]
    BY <1>4 DEF AckStep, Receipt, ReceiptRetries, Rest
  <2>2. retry' \subseteq Outgoing \X Receipts
    BY <1>4 DEF AckStep, Receipt, ReceiptRetries, Rest, Unmatched
  <2>3. UNCHANGED <<sends, inbound, reactions, history, live, deleted>>
    BY <1>4 DEF AckStep, Receipt, ReceiptRetries
  <2>4. lost' \subseteq Outgoing /\ lost \subseteq lost'
    BY <1>4 DEF AckStep, Receipt, ReceiptRetries, Rest
  <2> QED BY <2>1, <2>2, <2>3, <2>4 DEF Rest, sends, inbound
<1>5. ASSUME NEW i \in Incoming, InboundStep(i)
      PROVE  Rest' /\ G1 /\ UNCHANGED <<reactions>>
  <2>1. stopped' = stopped \/ stopped' = stopped \union {i}
    BY <1>5 DEF InboundStep, MessageFires, MessageDropped, MessageChecked, MessagePasses, MessageStored,
                MessageDuplicate, MessageUnstored, MessageDispatched, Inserted
  <2>2. UNCHANGED <<sends, acks, history, reactions, live, deleted>>
    BY <1>5, InboundWrites
  <2> QED BY <2>1, <2>2 DEF Rest, sends, acks
<1>6. ASSUME NEW m \in Historic, HistoryStep(m)
      PROVE  Rest' /\ G1 /\ UNCHANGED <<inbound, reactions>>
  <2>1. UNCHANGED <<sends, acks, inbound, reactions, live, deleted>>
    BY <1>6 DEF HistoryStep, HistorySelects, HistoryInserts
  <2>2. \E st \in {"unseen", "done"} : history' = [history EXCEPT ![m] = st]
    BY <1>6 DEF HistoryStep, HistorySelects, HistoryInserts
  <2> QED BY <2>1, <2>2 DEF Rest, sends, acks, inbound
<1>7. ASSUME NEW r \in Reaction, ReactionStep(r)
      PROVE  Rest' /\ G1 /\ UNCHANGED <<inbound>>
  <2>1. UNCHANGED <<sends, receipts, retry, inbound, history, live, deleted>>
    BY <1>7 DEF ReactionStep, React, ReactionReads, ReactionSaved, acks
  <2>2. lost' \subseteq Outgoing /\ lost \subseteq lost'
    BY <1>7 DEF ReactionStep, React, ReactionReads, ReactionSaved, acks, Rest, Reverts
  <2> QED BY <2>1, <2>2 DEF Rest, sends, inbound
<1>8. CASE (\E m \in Revocable : Revoke(m)) \/ Retire \/ Delete \/ UNCHANGED vars
  <2>1. /\ UNCHANGED <<sends, acks, inbound, history, reactions>>
        /\ (deleted' = deleted \/ deleted' = TRUE) /\ (live' = live \/ live' = FALSE)
    BY <1>8 DEF Revoke, Retire, Delete, vars
  <2>2. UNCHANGED <<send, accepted, rejected, receipts, retry, lost, stopped, history>>
    BY <2>1 DEF sends, acks, inbound
  <2>3. live' \in BOOLEAN
    BY <2>1 DEF Rest
  <2>4. Rest' /\ G1
    BY <2>1, <2>2, <2>3 DEF Rest
  <2> QED BY <1>1, <1>2, <2>1, <2>4 DEF Grows, inbound, handlers, reactions
<1>9. ASSUME Rest', G1, UNCHANGED reactions, F1
      PROVE  Rest' /\ Chains' /\ Firings' /\ Grows
  BY <1>1, <1>9 DEF Grows, reactions
<1>10. ASSUME NEW r \in Reaction, ReactionStep(r)
       PROVE  Rest' /\ Chains' /\ Firings' /\ Grows
  <2>1. Chains' /\ excused \subseteq excused'
    BY <1>10, ReactionTypes DEF OneWriter
  <2> QED BY <1>2, <1>7, <1>10, <2>1 DEF Grows, inbound, handlers
<1>11. ASSUME UNCHANGED inbound
       PROVE  F1
  BY <1>2, <1>11 DEF inbound, handlers
<1> HIDE DEF G1, F1
<1>12. ASSUME NEW o \in Outgoing, SendStep(o)
       PROVE  Rest' /\ Chains' /\ Firings' /\ Grows
  BY <1>3, <1>9, <1>11, <1>12
<1>13. ASSUME NEW o \in Outgoing, NEW st \in Receipts, AckStep(o, st)
       PROVE  Rest' /\ Chains' /\ Firings' /\ Grows
  BY <1>4, <1>9, <1>11, <1>13
<1>14. ASSUME NEW i \in Incoming, InboundStep(i)
       PROVE  Rest' /\ Chains' /\ Firings' /\ Grows
  BY <1>5, <1>9, <1>14, InboundFires DEF F1
<1>15. ASSUME NEW m \in Historic, HistoryStep(m)
       PROVE  Rest' /\ Chains' /\ Firings' /\ Grows
  BY <1>6, <1>9, <1>11, <1>15
<1> QED BY <1>8, <1>10, <1>12, <1>13, <1>14, <1>15 DEF Next

-----------------------------------------------------------------------------
\* What a write does to the rows of an id.
LEMMA PutKnown ==
  ASSUME Typed, NEW k0 \in Keys, NEW v \in Row, row' = [row EXCEPT ![k0] = v], NEW m \in Messages
  PROVE  \A k \in Keys : k \in Known(m)' <=>
           IF k = k0 THEN k0[1] = m /\ v.linked ELSE k \in Known(m)
<1>1. \A k \in Keys : row'[k] = IF k = k0 THEN v ELSE row[k]
  BY Put
<1>2. v # NoRow
  BY NoRowAssumption
<1> QED BY <1>1, <1>2, KeysOf, KeysOfNext

LEMMA EditKnown ==
  ASSUME NEW m \in Messages,
         \A k \in Keys :
           \/ row'[k] = row[k]
           \/ row[k] # NoRow /\ row'[k] # NoRow /\ row[k].linked /\ row'[k].linked
  PROVE  \A k \in Keys : k \in Known(m)' <=> k \in Known(m)
BY KeysOf, KeysOfNext

LEMMA KnownNext == \A m \in Messages : Known(m)' \subseteq Keys
BY DEF Known, Keys

\* Every way a step writes the table.
RowStep ==
  \/ UNCHANGED row
  \/ Delete
  \/ \E o \in Outgoing : Send(o) /\ row' = [row EXCEPT ![<<o, "api">>] = NewRow("pending", FALSE)]
  \/ \E o \in Outgoing : Saved(o) /\ Persistable(<<o, "api">>, ent[o]) /\ row' = [row EXCEPT ![<<o, "api">>] = ent[o]]
  \/ \E o \in Outgoing, st \in Receipts : AckStep(o, st) /\ row' = Advanced(o, st)
  \/ \E i \in Incoming : MessageStored(i)
  \/ \E m \in Historic : /\ HistoryInserts(m) /\ Known(m) = {}
                         /\ row' = [row EXCEPT ![<<m, "copy">>] = NewRow("sent", TRUE)]
  \/ \E r \in Reaction : ReactionSaved(r) /\ row' = [row EXCEPT ![applying[r].key] = applying[r].row]
  \/ \E m \in Revocable : Revoke(m)

LEMMA RowSteps == [Next]_vars => RowStep
<1> SUFFICES ASSUME [Next]_vars PROVE RowStep
  OBVIOUS
<1>1. ASSUME NEW o \in Outgoing, SendStep(o)
      PROVE  RowStep
  BY <1>1 DEF SendStep, Send, Accept, EngineSent, EngineThrew, Saved, RowStep
<1>2. ASSUME NEW o \in Outgoing, NEW st \in Receipts, AckStep(o, st)
      PROVE  RowStep
  BY <1>2 DEF AckStep, Receipt, ReceiptRetries, RowStep
<1>3. ASSUME NEW i \in Incoming, InboundStep(i)
      PROVE  RowStep
  BY <1>3, InboundWrites DEF RowStep
<1>4. ASSUME NEW m \in Historic, HistoryStep(m)
      PROVE  RowStep
  <2>1. CASE Known(m) = {}
    BY <1>4, <2>1 DEF HistoryStep, HistorySelects, HistoryInserts, RowStep
  <2>2. CASE Known(m) # {}
    BY <1>4, <2>2 DEF HistoryStep, HistorySelects, HistoryInserts, RowStep
  <2> QED BY <2>1, <2>2
<1>5. ASSUME NEW r \in Reaction, ReactionStep(r)
      PROVE  RowStep
  BY <1>5 DEF ReactionStep, React, ReactionReads, ReactionSaved, RowStep
<1>6. CASE (\E m \in Revocable : Revoke(m)) \/ Retire \/ Delete \/ UNCHANGED vars
  BY <1>6 DEF Retire, vars, RowStep
<1> QED BY <1>1, <1>2, <1>3, <1>4, <1>5, <1>6 DEF Next

\* The edits of applying: a reaction reads a row of its message, or is done.
WithReaction(w, r) == [w EXCEPT !.reacted[r.by] = r.nr]

ApplyingStep ==
  \A r \in Reaction : applying'[r] # NoRow =>
    \/ applying'[r] = applying[r]
    \/ \E k \in Known(r.to) :
         /\ k \in Keys /\ row[k] # NoRow /\ row[k] \in Row /\ UNCHANGED row
         /\ applying'[r] = [key |-> k, row |-> WithReaction(row[k], r)]

LEMMA ApplyingSteps ==
  ASSUME Typed, [Next]_vars
  PROVE  ApplyingStep
<1>1. CASE UNCHANGED applying
  BY <1>1 DEF ApplyingStep
<1>2. ASSUME NEW r \in Reaction, ReactionReads(r)
      PROVE  ApplyingStep
  <2>1. CASE Known(r.to) # {}
    <3>1. PICK k \in Known(r.to) : k = CHOOSE x \in Known(r.to) : TRUE
      BY <2>1
    <3>2. r.to \in Messages
      BY StoreAssumption DEF Reaction, Messages
    <3>3. k \in Keys /\ row[k] # NoRow /\ row[k] \in Row
      BY <3>1, <3>2, KeysOf DEF Typed
    <3>4. DEFINE e == [key |-> k, row |-> WithReaction(row[k], r)]
    <3>5. applying' = [applying EXCEPT ![r] = e] /\ UNCHANGED row
      BY <1>2, <2>1, <3>1 DEF ReactionReads, WithReaction
    <3>6. \A q \in Reaction : applying'[q] = IF q = r THEN e ELSE applying[q]
      BY <3>5 DEF Typed
    <3> QED BY <3>1, <3>3, <3>5, <3>6 DEF ApplyingStep
  <2>2. CASE Known(r.to) = {}
    BY <1>1, <1>2, <2>2 DEF ReactionReads
  <2> QED BY <2>1, <2>2
<1>3. ASSUME NEW r \in Reaction, ReactionSaved(r)
      PROVE  ApplyingStep
  BY <1>3 DEF ReactionSaved, ApplyingStep, Typed
<1>4. \/ UNCHANGED applying
      \/ \E r \in Reaction : ReactionReads(r) \/ ReactionSaved(r)
  BY InboundWrites DEF Next, vars, reactions, SendStep, Send, Accept, EngineSent, EngineThrew, Saved, AckStep,
     Receipt, ReceiptRetries, HistoryStep, HistorySelects, HistoryInserts,
     ReactionStep, React, Revoke, Retire, Delete
<1> QED BY <1>1, <1>2, <1>3, <1>4

-----------------------------------------------------------------------------
\* A stored message is a FAILED one only if something failed.
SaidFailed(m) == m \in Outgoing /\ (m \in rejected \/ "failed" \in receipts[m])

FailedRows == \A k \in Keys : row[k] # NoRow /\ row[k].status = "failed" => SaidFailed(k[1])
FailedSends == \A o \in Outgoing : ent[o].status = "failed" => o \in rejected
FailedReads ==
  \A r \in Reaction : applying[r] # NoRow /\ applying[r].row.status = "failed"
    => SaidFailed(applying[r].key[1])
RetriesCame == \A o \in Outgoing, st \in Receipts : <<o, st>> \in retry => st \in receipts[o]

FailedInv == FailedRows /\ FailedSends /\ FailedReads /\ RetriesCame

LEMMA FailedNext ==
  ASSUME Typed, ApplyingLinked, Grows, FailedInv, Rest, [Next]_vars
  PROVE  FailedInv'
<1>0. \A m \in Messages : SaidFailed(m) => SaidFailed(m)'
  BY DEF SaidFailed, Grows
<1>1. FailedReads'
  <2>1. ASSUME NEW r \in Reaction, applying'[r] # NoRow, applying'[r].row.status = "failed"
        PROVE  \E m \in Messages : applying'[r].key[1] = m /\ SaidFailed(m)'
    <3>1. CASE applying'[r] = applying[r]
      <4>1. applying[r].key[1] \in Messages
        BY <2>1, <3>1, KeysOf DEF Typed, Entity
      <4>2. SaidFailed(applying[r].key[1])
        BY <2>1, <3>1 DEF FailedInv, FailedReads
      <4> QED BY <1>0, <3>1, <4>1, <4>2
    <3>2. ASSUME NEW k \in Keys, row[k] # NoRow, row[k] \in Row,
                 applying'[r] = [key |-> k, row |-> WithReaction(row[k], r)]
          PROVE  \E m \in Messages : applying'[r].key[1] = m /\ SaidFailed(m)'
      <4>2. WithReaction(row[k], r).status = row[k].status
        BY <3>2, ReactedRow DEF WithReaction
      <4>3. applying'[r].row = WithReaction(row[k], r) /\ applying'[r].key = k
        BY <3>2
      <4>4. SaidFailed(k[1]) /\ k[1] \in Messages
        BY <2>1, <3>2, <4>2, <4>3, KeysOf DEF FailedInv, FailedRows
      <4> QED BY <1>0, <4>3, <4>4
    <3> QED BY <2>1, <3>1, <3>2, ApplyingSteps DEF ApplyingStep
  <2> QED BY <2>1 DEF FailedReads, SaidFailed
<1>2. FailedSends' /\ RetriesCame'
  <2>1. CASE UNCHANGED <<ent, retry>>
    BY <2>1 DEF FailedInv, FailedSends, RetriesCame, Grows
  <2>2. ASSUME NEW o \in Outgoing, EngineSent(o) \/ EngineThrew(o)
        PROVE  FailedSends' /\ RetriesCame'
    <3>1. UNCHANGED <<retry, receipts>>
      BY <2>2 DEF EngineSent, EngineThrew, acks
    <3>2. CASE EngineSent(o)
      <4>1. PICK linked \in BOOLEAN : ent' = [ent EXCEPT ![o].status = "sent", ![o].linked = linked]
        BY <3>2 DEF EngineSent
      <4>2. ent'[o].status = "sent" /\ \A p \in Outgoing : p # o => ent'[p] = ent[p]
        BY <4>1 DEF Typed, Row
      <4> QED BY <3>1, <4>2 DEF FailedInv, FailedSends, RetriesCame, Grows
    <3>3. CASE EngineThrew(o)
      <4>1. o \in rejected' /\ \A p \in Outgoing : p # o => ent'[p] = ent[p]
        BY <3>3 DEF EngineThrew, Typed
      <4> QED BY <3>1, <4>1 DEF FailedInv, FailedSends, RetriesCame, Grows
    <3> QED BY <2>2, <3>2, <3>3
  <2>3. ASSUME NEW o \in Outgoing, NEW st \in Receipts, AckStep(o, st)
        PROVE  FailedSends' /\ RetriesCame'
    <3>1. UNCHANGED sends
      BY <2>3 DEF AckStep, Receipt, ReceiptRetries
    <3>2. \/ retry' \subseteq retry /\ (receipts' = receipts \/ receipts[o] \subseteq receipts'[o])
          \/ retry' \subseteq retry \union {<<o, st>>} /\ st \in receipts'[o]
      BY <2>3 DEF AckStep, Receipt, ReceiptRetries, Unmatched, Rest
    <3> QED BY <3>1, <3>2 DEF FailedInv, FailedSends, RetriesCame, Grows, sends
  <2>4. \/ UNCHANGED <<ent, retry>>
        \/ \E o \in Outgoing : EngineSent(o) \/ EngineThrew(o) \/ \E st \in Receipts : AckStep(o, st)
    BY InboundWrites DEF Next, vars, sends, acks, SendStep, Send, Accept, Saved, HistoryStep,
       HistorySelects, HistoryInserts, ReactionStep, React, ReactionReads, ReactionSaved,
       Revoke, Retire, Delete
  <2> QED BY <2>1, <2>2, <2>3, <2>4
<1>3. ASSUME NEW k0 \in Keys, NEW v \in Row, row' = [row EXCEPT ![k0] = v],
             v.status = "failed" => SaidFailed(k0[1])
      PROVE  FailedRows'
  <2>1. \A k \in Keys : row'[k] = IF k = k0 THEN v ELSE row[k]
    BY <1>3, Put
  <2>2. \A k \in Keys : row'[k] # NoRow /\ row'[k].status = "failed" => SaidFailed(k[1])
    BY <1>3, <2>1 DEF FailedInv, FailedRows
  <2>3. \A k \in Keys : SaidFailed(k[1]) => SaidFailed(k[1])'
    BY <1>0, KeysOf
  <2> QED BY <2>2, <2>3 DEF FailedRows, SaidFailed
<1>4. ASSUME \A k \in Keys : row'[k] # NoRow /\ row'[k].status = "failed" => SaidFailed(k[1]) \/ SaidFailed(k[1])'
      PROVE  FailedRows'
  <2>1. \A k \in Keys : SaidFailed(k[1]) => SaidFailed(k[1])'
    BY <1>0, KeysOf
  <2> QED BY <1>4, <2>1 DEF FailedRows, SaidFailed
<1>5. {"pending", "sent"} \subseteq MessageStatus
  BY DEF MessageStatus
<1>6. ASSUME UNCHANGED row \/ Delete
      PROVE  FailedRows'
  <2>1. \A k \in Keys : row'[k] = row[k] \/ row'[k] = NoRow
    BY <1>6 DEF Delete
  <2>2. \A k \in Keys : row'[k] # NoRow /\ row'[k].status = "failed" => SaidFailed(k[1])
    BY <2>1 DEF FailedInv, FailedRows
  <2> QED BY <1>4, <2>2
<1>7. ASSUME NEW o \in Outgoing, row' = [row EXCEPT ![<<o, "api">>] = NewRow("pending", FALSE)]
      PROVE  FailedRows'
  BY <1>3, <1>5, <1>7, KeysOf, NewRowType DEF Messages
<1>8. ASSUME NEW o \in Outgoing, row' = [row EXCEPT ![<<o, "api">>] = ent[o]]
      PROVE  FailedRows'
  <2>1. ent[o].status = "failed" => SaidFailed(o)
    BY DEF FailedInv, FailedSends, SaidFailed
  <2> QED BY <1>3, <1>8, <2>1, KeysOf DEF Messages, Typed
<1>9. ASSUME NEW o \in Outgoing, NEW st \in Receipts, AckStep(o, st), row' = Advanced(o, st)
      PROVE  FailedRows'
  <2>1. st \in receipts'[o]
    BY <1>9 DEF AckStep, Receipt, ReceiptRetries, Rest, FailedInv, RetriesCame
  <2>2. st = "failed" => SaidFailed(o)'
    BY <2>1 DEF SaidFailed
  <2>3. \A k \in Keys : row'[k] = row[k] \/ (k[1] = o /\ row'[k].status = st)
    BY <1>9, AdvancedType
  <2>4. \A k \in Keys : row'[k] # NoRow /\ row'[k].status = "failed" => SaidFailed(k[1]) \/ SaidFailed(k[1])'
    <3> TAKE k \in Keys
    <3>1. CASE row'[k] = row[k]
      BY <3>1 DEF FailedInv, FailedRows
    <3>2. CASE k[1] = o /\ row'[k].status = st
      BY <2>2, <3>2 DEF SaidFailed
    <3> QED BY <2>3, <3>1, <3>2
  <2> QED BY <1>4, <2>4
<1>10. ASSUME NEW m \in Messages, row' = [row EXCEPT ![<<m, "copy">>] = NewRow("sent", TRUE)]
       PROVE  FailedRows'
  BY <1>3, <1>5, <1>10, KeysOf, NewRowType
<1>11. ASSUME NEW r \in Reaction, applying[r] # NoRow, row' = [row EXCEPT ![applying[r].key] = applying[r].row]
       PROVE  FailedRows'
  <2>1. applying[r].key \in Keys /\ applying[r].row \in Row
    BY <1>11 DEF Typed, Entity
  <2>2. applying[r].row.status = "failed" => SaidFailed(applying[r].key[1])
    BY <1>11 DEF FailedInv, FailedReads
  <2> QED BY <1>3, <1>11, <2>1, <2>2
<1>12. ASSUME NEW m \in Revocable, Revoke(m)
       PROVE  FailedRows'
  <2>1. m \in Messages
    BY StoreAssumption DEF Messages
  <2>2. \A k \in Keys : row'[k] = row[k] \/ (row[k] # NoRow /\ row'[k].status = row[k].status)
    BY <1>12, <2>1, RevokeType
  <2> QED BY <1>4, <2>2 DEF FailedInv, FailedRows
<1>13. FailedRows'
  <2>1. Incoming \subseteq Messages /\ Historic \subseteq Messages
    BY StoreAssumption DEF Messages
  <2>2. ASSUME NEW i \in Incoming, MessageStored(i)
        PROVE  FailedRows'
    BY <1>10, <2>1, <2>2 DEF MessageStored
  <2>3. ASSUME NEW m \in Historic, row' = [row EXCEPT ![<<m, "copy">>] = NewRow("sent", TRUE)]
        PROVE  FailedRows'
    BY <1>10, <2>1, <2>3
  <2>4. ASSUME NEW r \in Reaction, ReactionSaved(r), row' = [row EXCEPT ![applying[r].key] = applying[r].row]
        PROVE  FailedRows'
    BY <1>11, <2>4 DEF ReactionSaved
  <2> QED BY <1>6, <1>7, <1>8, <1>9, <1>12, <2>2, <2>3, <2>4, RowSteps DEF RowStep
<1> QED BY <1>1, <1>2, <1>13 DEF FailedInv

-----------------------------------------------------------------------------
\* An inbound message whose handlers are through was dispatched, or there is a reason.  The
\* duplicate that goes quiet has found a row, and whoever made the row is such a reason.
Explained(i) ==
  due[i] + dispatched[i] > 0 \/ i \in stopped \/ (i \in Historic /\ history[i] # "none")

FiredExplained == \A i \in Incoming : fired[i] > 0 /\ hooks[i] + inserting[i] = 0 => Explained(i)
RowExplained == \A i \in Incoming : \A k \in Keys : k \in Known(i) => Explained(i)
ReadExplained ==
  \A r \in Reaction : \A i \in Incoming :
    applying[r] # NoRow /\ applying[r].key[1] = i => Explained(i)

FollowInv == FiredExplained /\ RowExplained /\ ReadExplained

LEMMA FollowNext ==
  ASSUME Typed, ApplyingLinked, Firings, Firings', Grows, Rest, FollowInv, [Next]_vars
  PROVE  FollowInv'
<1>0. \A i \in Incoming : Explained(i) => Explained(i)'
  BY DEF Explained, Grows, Firings, StoreCounts
<1>1. Incoming \subseteq Messages /\ Historic \subseteq Messages
  BY StoreAssumption DEF Messages
<1>2. FiredExplained'
  <2>1. ASSUME UNCHANGED <<fired, hooks, inserting>>
        PROVE  FiredExplained'
    BY <1>0, <2>1 DEF FiredExplained, FollowInv
  <2>2. ASSUME NEW i \in Incoming, InboundStep(i)
        PROVE  FiredExplained'
    <3>0. /\ hooks[i] \in Nat /\ inserting[i] \in Nat /\ due[i] \in Nat /\ dispatched[i] \in Nat
          /\ hooks'[i] \in Nat /\ inserting'[i] \in Nat /\ due'[i] \in Nat /\ dispatched'[i] \in Nat
      BY DEF Firings, StoreCounts
    <3>1. \A j \in Incoming : j # i => fired'[j] = fired[j] /\ hooks'[j] = hooks[j] /\ inserting'[j] = inserting[j]
      BY <2>2 DEF InboundStep, MessageFires, MessageDropped, MessageChecked, MessagePasses, MessageStored,
                  MessageDuplicate, MessageUnstored, MessageDispatched, Inserted, Firings, StoreCounts
    <3>2. hooks'[i] + inserting'[i] = 0 => Explained(i)'
      <4>1. CASE MessageFires(i)
        <5>1. hooks'[i] = hooks[i] + 1
          BY <4>1 DEF MessageFires, Firings, StoreCounts
        <5> QED BY <3>0, <5>1
      <4>2. CASE MessageDropped(i)
        BY <4>2 DEF MessageDropped, Explained
      <4>3. CASE MessageChecked(i)
        <5>1. inserting'[i] = inserting[i] + 1
          BY <4>3 DEF MessageChecked, MessagePasses, Firings, StoreCounts
        <5> QED BY <3>0, <5>1
      <4>4. CASE MessageStored(i) \/ MessageUnstored(i)
        <5>1. due'[i] = due[i] + 1
          BY <4>4 DEF MessageStored, MessageUnstored, Inserted, Firings, StoreCounts
        <5>2. due'[i] + dispatched'[i] > 0
          BY <3>0, <5>1
        <5> QED BY <5>2 DEF Explained
      <4>5. CASE MessageDuplicate(i)
        <5>1. PICK k \in Known(i) : TRUE
          BY <4>5 DEF MessageDuplicate
        <5>2. k \in Keys
          BY <1>1, KeysOf
        <5>3. Explained(i)
          BY <5>1, <5>2 DEF FollowInv, RowExplained
        <5> QED BY <1>0, <5>3
      <4>6. CASE MessageDispatched(i)
        <5>1. dispatched'[i] = dispatched[i] + 1
          BY <4>6 DEF MessageDispatched, Firings, StoreCounts
        <5>2. due'[i] + dispatched'[i] > 0
          BY <3>0, <5>1
        <5> QED BY <5>2 DEF Explained
      <4> QED BY <2>2, <4>1, <4>2, <4>3, <4>4, <4>5, <4>6 DEF InboundStep
    <3> QED BY <1>0, <3>1, <3>2 DEF FiredExplained, FollowInv
  <2>3. UNCHANGED <<fired, hooks, inserting>> \/ \E i \in Incoming : InboundStep(i)
    BY DEF Next, vars, inbound, handlers, SendStep, Send, Accept, EngineSent, EngineThrew, Saved, AckStep,
       Receipt, ReceiptRetries, HistoryStep, HistorySelects, HistoryInserts, ReactionStep, React,
       ReactionReads, ReactionSaved, Revoke, Retire, Delete
  <2> QED BY <2>1, <2>2, <2>3
<1>3. ReadExplained'
  <2>1. ASSUME NEW r \in Reaction, NEW i \in Incoming, applying'[r] # NoRow, applying'[r].key[1] = i
        PROVE  Explained(i)'
    <3>1. CASE applying'[r] = applying[r]
      BY <1>0, <2>1, <3>1 DEF FollowInv, ReadExplained
    <3>2. ASSUME NEW k \in Keys, k \in Known(r.to), applying'[r].key = k
          PROVE  Explained(i)'
      <4>1. r.to \in Messages
        BY StoreAssumption DEF Reaction, Messages
      <4>2. k \in Known(i)
        BY <1>1, <2>1, <3>2, <4>1, KeysOf
      <4>3. Explained(i)
        BY <3>2, <4>2 DEF FollowInv, RowExplained
      <4> QED BY <1>0, <4>3
    <3>3. \/ applying'[r] = applying[r]
          \/ \E k \in Keys : k \in Known(r.to) /\ applying'[r].key = k
      <4>1. ApplyingStep
        BY ApplyingSteps
      <4>2. CASE applying'[r] # applying[r]
        <5>1. PICK k \in Known(r.to) :
                k \in Keys /\ applying'[r] = [key |-> k, row |-> WithReaction(row[k], r)]
          BY <2>1, <4>1, <4>2 DEF ApplyingStep
        <5> QED BY <5>1
      <4> QED BY <4>2
    <3> QED BY <3>1, <3>2, <3>3
  <2> QED BY <2>1 DEF ReadExplained, Explained
<1>4. ASSUME \A i \in Incoming : \A k \in Keys : k \in Known(i)' => k \in Known(i) \/ Explained(i)'
      PROVE  RowExplained'
  BY <1>0, <1>4 DEF FollowInv, RowExplained, Explained
<1>5. ASSUME NEW k0 \in Keys, NEW v \in Row, row' = [row EXCEPT ![k0] = v],
             v.linked => \A i \in Incoming : k0[1] = i => Explained(i)'
      PROVE  RowExplained'
  BY <1>1, <1>4, <1>5, PutKnown
<1>6. {"pending", "sent"} \subseteq MessageStatus
  BY DEF MessageStatus
<1>7. ASSUME \A k \in Keys :
               \/ row'[k] = row[k]
               \/ row[k] # NoRow /\ row'[k] # NoRow /\ row[k].linked /\ row'[k].linked
      PROVE  RowExplained'
  BY <1>1, <1>4, <1>7, EditKnown
<1>8. ASSUME Delete
      PROVE  RowExplained'
  <2>1. \A i \in Incoming : \A k \in Keys : k \notin Known(i)'
    BY <1>1, <1>8, KeysOfNext DEF Delete
  <2> QED BY <1>4, <2>1
<1>9. ASSUME NEW o \in Outgoing, NEW v \in Row, row' = [row EXCEPT ![<<o, "api">>] = v]
      PROVE  RowExplained'
  <2>1. o \in Messages /\ o \notin Incoming
    BY StoreAssumption DEF Messages
  <2> QED BY <1>5, <1>9, <2>1, KeysOf
<1>10. ASSUME NEW m \in Messages, row' = [row EXCEPT ![<<m, "copy">>] = NewRow("sent", TRUE)],
              m \in Incoming => Explained(m)'
       PROVE  RowExplained'
  BY <1>5, <1>6, <1>10, KeysOf, NewRowType
<1>11. ASSUME NEW o \in Outgoing, row' = [row EXCEPT ![<<o, "api">>] = NewRow("pending", FALSE)]
       PROVE  RowExplained'
  BY <1>6, <1>9, <1>11, NewRowType
<1>12. ASSUME NEW o \in Outgoing, row' = [row EXCEPT ![<<o, "api">>] = ent[o]]
       PROVE  RowExplained'
  BY <1>9, <1>12 DEF Typed
<1>13. ASSUME NEW o \in Outgoing, NEW st \in Receipts, row' = Advanced(o, st)
       PROVE  RowExplained'
  BY <1>7, <1>13, AdvancedType
<1>14. ASSUME NEW i \in Incoming, MessageStored(i)
       PROVE  RowExplained'
  <2>1. due' = [due EXCEPT ![i] = due[i] + 1] /\ dispatched' = dispatched
    BY <1>14 DEF MessageStored, Inserted
  <2>2. due'[i] + dispatched'[i] > 0
    BY <2>1 DEF Firings, StoreCounts
  <2>3. Explained(i)'
    BY <2>2 DEF Explained
  <2> QED BY <1>1, <1>10, <1>14, <2>3 DEF MessageStored
<1>15. ASSUME NEW m \in Historic, HistoryInserts(m), row' = [row EXCEPT ![<<m, "copy">>] = NewRow("sent", TRUE)]
       PROVE  RowExplained'
  <2>1. Explained(m)'
    BY <1>15 DEF HistoryInserts, Rest, Explained
  <2> QED BY <1>1, <1>10, <1>15, <2>1
<1>16. ASSUME NEW r \in Reaction, ReactionSaved(r), row' = [row EXCEPT ![applying[r].key] = applying[r].row]
       PROVE  RowExplained'
  <2>1. applying[r].key \in Keys /\ applying[r].row \in Row /\ applying[r] # NoRow
    BY <1>16 DEF ReactionSaved, Typed, Entity
  <2>2. \A i \in Incoming : applying[r].key[1] = i => Explained(i)'
    BY <1>0, <2>1 DEF FollowInv, ReadExplained
  <2> QED BY <1>5, <1>16, <2>1, <2>2
<1>17. ASSUME NEW m \in Revocable, Revoke(m)
       PROVE  RowExplained'
  <2>1. m \in Messages
    BY StoreAssumption DEF Messages
  <2> QED BY <1>7, <1>17, <2>1, RevokeType
<1>18. RowExplained'
  BY <1>7, <1>8, <1>11, <1>12, <1>13, <1>14, <1>15, <1>16, <1>17, RowSteps DEF RowStep
<1> QED BY <1>2, <1>3, <1>18 DEF FollowInv

-----------------------------------------------------------------------------
\* The reactions that wait for their turn at a message: one sender's are in the order they
\* came in, up to the last one.
Orderly(c, l, m) ==
  /\ \A i \in 1..Len(c) : c[i].to = m /\ c[i].nr <= l[c[i].by]
  /\ \A i, j \in 1..Len(c) : i < j /\ c[i].by = c[j].by => c[i].nr < c[j].nr
  /\ \A i \in 1..Len(c) : c[i].nr < l[c[i].by] =>
       \E j \in 1..Len(c) : c[j].by = c[i].by /\ c[j].nr = l[c[i].by]

Has(c, r) == \E i \in 1..Len(c) : c[i] = r

LEMMA ReactionFields ==
  \A r \in Reaction : /\ r.to \in Reacted /\ r.by \in Senders /\ r.nr \in 1..PerSender
                      /\ r = [to |-> r.to, by |-> r.by, nr |-> r.nr] /\ r.to \in Messages
BY StoreAssumption DEF Reaction, Messages

LEMMA TailFacts ==
  ASSUME NEW c \in Seq(Reaction), c # <<>>
  PROVE  /\ Len(c) \in Nat /\ Len(c) > 0 /\ Head(c) = c[1] /\ Tail(c) \in Seq(Reaction)
         /\ Len(Tail(c)) = Len(c) - 1
         /\ \A i \in 1..Len(Tail(c)) : Tail(c)[i] = c[i + 1] /\ i + 1 \in 1..Len(c)
         /\ \A i \in 1..Len(c) : i # 1 => i - 1 \in 1..Len(Tail(c)) /\ Tail(c)[i - 1] = c[i]
OBVIOUS

LEMMA AppendFacts ==
  ASSUME NEW c \in Seq(Reaction), NEW r \in Reaction
  PROVE  /\ Len(c) \in Nat /\ Append(c, r) \in Seq(Reaction) /\ Len(Append(c, r)) = Len(c) + 1
         /\ \A i \in 1..Len(c) : Append(c, r)[i] = c[i] /\ i \in 1..Len(Append(c, r))
         /\ Append(c, r)[Len(c) + 1] = r /\ Len(c) + 1 \in 1..Len(Append(c, r))
         /\ c # <<>> => Head(Append(c, r)) = Head(c)
         /\ Append(c, r) # <<>>
OBVIOUS

LEMMA TailKeeps ==
  ASSUME NEW c \in Seq(Reaction), c # <<>>, NEW x, Has(c, x), x # Head(c)
  PROVE  Has(Tail(c), x)
<1>1. PICK i \in 1..Len(c) : c[i] = x
  BY DEF Has
<1>2. i # 1
  BY <1>1, TailFacts
<1>3. i - 1 \in 1..Len(Tail(c)) /\ Tail(c)[i - 1] = x
  BY <1>1, <1>2, TailFacts
<1> QED BY <1>3 DEF Has

LEMMA AppendHas ==
  ASSUME NEW c \in Seq(Reaction), NEW r \in Reaction
  PROVE  Has(Append(c, r), r) /\ \A x : Has(c, x) => Has(Append(c, r), x)
BY AppendFacts DEF Has

LEMMA TailOrderly ==
  ASSUME NEW c \in Seq(Reaction), c # <<>>, NEW l \in [Senders -> 0..PerSender], NEW m, Orderly(c, l, m)
  PROVE  Orderly(Tail(c), l, m)
<1> DEFINE t == Tail(c)
<1>1. \A i \in 1..Len(t) : t[i] = c[i + 1] /\ i + 1 \in 1..Len(c) /\ i \in Nat
  BY TailFacts
<1>2. \A i \in 1..Len(c) : i # 1 => i - 1 \in 1..Len(t) /\ t[i - 1] = c[i]
  BY TailFacts
<1>3. 1 \in 1..Len(c) /\ \A i \in 1..Len(c) : c[i] \in Reaction
  BY TailFacts
<1> HIDE DEF t
<1>4. \A i \in 1..Len(t) : t[i].to = m /\ t[i].nr <= l[t[i].by]
  BY <1>1 DEF Orderly
<1>5. \A i, j \in 1..Len(t) : i < j /\ t[i].by = t[j].by => t[i].nr < t[j].nr
  BY <1>1 DEF Orderly
<1>6. ASSUME NEW i \in 1..Len(t), t[i].nr < l[t[i].by]
      PROVE  \E j \in 1..Len(t) : t[j].by = t[i].by /\ t[j].nr = l[t[i].by]
  <2>1. PICK j \in 1..Len(c) : c[j].by = t[i].by /\ c[j].nr = l[t[i].by]
    BY <1>1, <1>6 DEF Orderly
  <2>2. j # 1
    <3>1. t[i] = c[i + 1] /\ i + 1 \in 1..Len(c) /\ 1 < i + 1
      BY <1>1
    <3>2. c[1].by = c[i + 1].by => c[1].nr < c[i + 1].nr
      BY <1>3, <3>1 DEF Orderly
    <3>3. c[1].nr \in Int /\ c[i + 1].nr \in Int
      BY <1>3, <3>1, ReactionFields
    <3>4. SUFFICES ASSUME j = 1 PROVE FALSE
      OBVIOUS
    <3>5. c[1].nr < c[i + 1].nr /\ c[i + 1].nr < c[1].nr
      BY <1>6, <2>1, <3>1, <3>2, <3>4
    <3> QED BY <3>3, <3>5
  <2> QED BY <1>2, <2>1, <2>2
<1> QED BY <1>4, <1>5, <1>6 DEF Orderly, t

LEMMA AppendOrderly ==
  ASSUME NEW c \in Seq(Reaction), NEW l \in [Senders -> 0..PerSender], NEW r \in Reaction,
         Orderly(c, l, r.to), l[r.by] = r.nr - 1
  PROVE  Orderly(Append(c, r), [l EXCEPT ![r.by] = r.nr], r.to)
<1> DEFINE a == Append(c, r)
           n == [l EXCEPT ![r.by] = r.nr]
           k == Len(c)
<1>1. /\ k \in Nat /\ Len(a) = k + 1 /\ a[k + 1] = r
      /\ \A i \in 1..k : a[i] = c[i]
      /\ \A i \in 1..k : c[i] \in Reaction
  BY AppendFacts
<1>2. r.by \in Senders /\ r.nr \in Nat /\ PerSender \in Nat
  BY ReactionFields, StoreAssumption
<1>3. \A i \in 1..k : c[i].by \in Senders /\ c[i].nr \in Nat /\ c[i].nr <= l[c[i].by] /\ c[i].to = r.to
  BY <1>1, ReactionFields DEF Orderly
<1>4. \A s \in Senders : n[s] = IF s = r.by THEN r.nr ELSE l[s]
  OBVIOUS
<1>5. \A i \in 1..k : c[i].by = r.by => c[i].nr < r.nr
  BY <1>2, <1>3
<1>9. \A i, j \in 1..k : i < j /\ c[i].by = c[j].by => c[i].nr < c[j].nr
  BY DEF Orderly
<1>10. \A i \in 1..k : c[i].nr < l[c[i].by] =>
         \E j \in 1..k : c[j].by = c[i].by /\ c[j].nr = l[c[i].by]
  BY DEF Orderly
<1> HIDE DEF a, n, k
<1>6. \A i \in 1..Len(a) : a[i].to = r.to /\ a[i].nr <= n[a[i].by]
  <2> SUFFICES ASSUME NEW i \in 1..Len(a) PROVE a[i].to = r.to /\ a[i].nr <= n[a[i].by]
    OBVIOUS
  <2>1. CASE i = k + 1
    BY <1>1, <1>2, <1>4, <2>1
  <2>2. CASE i \in 1..k
    <3>1. a[i] = c[i] /\ c[i].to = r.to /\ c[i].by \in Senders /\ c[i].nr <= l[c[i].by]
      BY <1>1, <1>3, <2>2
    <3>2. CASE c[i].by = r.by
      <4>1. c[i].nr < r.nr /\ c[i].nr \in Nat /\ n[c[i].by] = r.nr
        BY <1>3, <1>4, <1>5, <2>2, <3>1, <3>2
      <4> QED BY <1>2, <3>1, <4>1
    <3>3. CASE c[i].by # r.by
      BY <1>4, <3>1, <3>3
    <3> QED BY <3>2, <3>3
  <2> QED BY <1>1, <2>1, <2>2
<1>7. \A i, j \in 1..Len(a) : i < j /\ a[i].by = a[j].by => a[i].nr < a[j].nr
  <2> SUFFICES ASSUME NEW i \in 1..Len(a), NEW j \in 1..Len(a), i < j, a[i].by = a[j].by
               PROVE  a[i].nr < a[j].nr
    OBVIOUS
  <2>1. i \in 1..k
    BY <1>1
  <2>2. CASE j = k + 1
    BY <1>1, <1>5, <2>1, <2>2
  <2>3. CASE j \in 1..k
    BY <1>1, <1>9, <2>1, <2>3
  <2> QED BY <1>1, <2>2, <2>3
<1>8. ASSUME NEW i \in 1..Len(a), a[i].nr < n[a[i].by]
      PROVE  \E j \in 1..Len(a) : a[j].by = a[i].by /\ a[j].nr = n[a[i].by]
  <2>1. CASE a[i].by = r.by
    <3>1. k + 1 \in 1..Len(a) /\ a[k + 1] = r /\ n[r.by] = r.nr
      BY <1>1, <1>2, <1>4
    <3> QED BY <2>1, <3>1
  <2>2. CASE a[i].by # r.by
    <3>1. i \in 1..k /\ a[i] = c[i]
      BY <1>1, <2>2
    <3>2. n[a[i].by] = l[a[i].by]
      BY <1>3, <1>4, <2>2, <3>1
    <3>3. PICK j \in 1..k : c[j].by = c[i].by /\ c[j].nr = l[c[i].by]
      BY <1>8, <1>10, <3>1, <3>2
    <3> QED BY <1>1, <3>1, <3>2, <3>3
  <2> QED BY <2>1, <2>2
<1> QED BY <1>6, <1>7, <1>8 DEF Orderly, a, n

\* Behind a reaction that is not the sender's last one, the last one waits.
LEMMA LastWaits ==
  ASSUME NEW c \in Seq(Reaction), c # <<>>, NEW l \in [Senders -> 0..PerSender], NEW m,
         Orderly(c, l, m), Head(c).nr # l[Head(c).by]
  PROVE  Has(c, [to |-> m, by |-> Head(c).by, nr |-> l[Head(c).by]])
<1>1. Head(c) = c[1] /\ 1 \in 1..Len(c) /\ \A i \in 1..Len(c) : c[i] \in Reaction
  BY TailFacts
<1>2. c[1].nr < l[c[1].by]
  <2>1. c[1].nr <= l[c[1].by] /\ c[1].nr \in Int /\ l[c[1].by] \in Int
    BY <1>1, ReactionFields, StoreAssumption DEF Orderly
  <2> QED BY <1>1, <2>1
<1>3. PICK j \in 1..Len(c) : c[j].by = c[1].by /\ c[j].nr = l[c[1].by]
  BY <1>1, <1>2 DEF Orderly
<1>4. c[j] = [to |-> m, by |-> c[1].by, nr |-> l[c[1].by]]
  BY <1>1, <1>3, ReactionFields DEF Orderly
<1> QED BY <1>1, <1>4 DEF Has

-----------------------------------------------------------------------------
\* While the session is there: an id has one row, and a reaction under way holds what that
\* row says.
Queued == \A m \in Reacted : Orderly(chain[m], last[m], m)

OneRow ==
  ~deleted =>
    /\ \A m \in Messages : \A k, l \in Keys : k \in Known(m) /\ l \in Known(m) => k = l
    /\ \A o \in Outgoing : send[o] # "done" => <<o, "api">> \notin Known(o)

ReadFresh ==
  ~deleted =>
    \A r \in Reaction : applying[r] # NoRow =>
      /\ applying[r].key \in Known(r.to)
      /\ \A s \in Senders : applying[r].row.reacted[s] =
           IF s = r.by THEN r.nr ELSE row[applying[r].key].reacted[s]

NrOf(m, s, n) == [to |-> m, by |-> s, nr |-> n]

\* The n-th reaction of a sender waits for its turn, or a row of the message shows it.
Shows(m, s, n) ==
  /\ Known(m) # {}
  /\ Has(chain[m], NrOf(m, s, n)) \/ \E k \in Keys : k \in Known(m) /\ row[k].reacted[s] = n

LastShown ==
  ~deleted =>
    \A m \in Reacted : \A s \in Senders : \A n \in 1..PerSender :
      n = last[m][s] /\ NrOf(m, s, n) \notin excused => Shows(m, s, n)

ReactInv == OneWriter /\ Queued /\ OneRow /\ ReadFresh /\ LastShown

\* A step that is not the save of a reaction keeps the rows that carry an id, and what they
\* say of reactions.
KeepsReacted ==
  \A m \in Messages : \A k \in Keys :
    k \in Known(m) => k \in Known(m)' /\ row'[k].reacted = row[k].reacted

SavesReaction == \E r \in Reaction : ReactionSaved(r) /\ row' = [row EXCEPT ![applying[r].key] = applying[r].row]

LEMMA RowsKeepReacted ==
  ASSUME Typed, OneRow, ~deleted, ~deleted', [Next]_vars
  PROVE  KeepsReacted \/ SavesReaction
<1>0. Incoming \subseteq Messages /\ Historic \subseteq Messages /\ Outgoing \subseteq Messages
      /\ Revocable \subseteq Messages
  BY StoreAssumption DEF Messages
<1>1. ASSUME \A k \in Keys :
               \/ row'[k] = row[k]
               \/ /\ row[k] # NoRow /\ row'[k] # NoRow /\ row[k].linked /\ row'[k].linked
                  /\ row'[k].reacted = row[k].reacted
      PROVE  KeepsReacted
  <2>1. \A m \in Messages : \A k \in Keys : k \in Known(m)' <=> k \in Known(m)
    BY <1>1, EditKnown
  <2> QED BY <1>1, <2>1 DEF KeepsReacted
<1>2. ASSUME NEW k0 \in Keys, NEW v \in Row, row' = [row EXCEPT ![k0] = v], k0 \notin Known(k0[1])
      PROVE  KeepsReacted
  <2>1. \A k \in Keys : row'[k] = IF k = k0 THEN v ELSE row[k]
    BY <1>2, Put
  <2>2. \A m \in Messages : k0 \notin Known(m)
    BY <1>2, KeysOf
  <2>3. \A m \in Messages : \A k \in Keys : k \in Known(m) => k # k0 /\ k \in Known(m)'
    BY <1>2, <2>2, PutKnown
  <2> QED BY <2>1, <2>3 DEF KeepsReacted
<1>3. {"pending", "sent"} \subseteq MessageStatus
  BY DEF MessageStatus
<1>4. ASSUME NEW o \in Outgoing, Send(o) \/ Saved(o), NEW v \in Row, row' = [row EXCEPT ![<<o, "api">>] = v]
      PROVE  KeepsReacted
  <2>1. send[o] # "done" /\ <<o, "api">> \in Keys /\ <<o, "api">>[1] = o
    BY <1>0, <1>4, KeysOf DEF Send, Saved
  <2>2. <<o, "api">> \notin Known(o)
    BY <2>1 DEF OneRow
  <2> QED BY <1>2, <1>4, <2>1, <2>2
<1>5. ASSUME NEW m \in Messages, Known(m) = {}, row' = [row EXCEPT ![<<m, "copy">>] = NewRow("sent", TRUE)]
      PROVE  KeepsReacted
  <2>1. <<m, "copy">> \in Keys /\ <<m, "copy">>[1] = m /\ <<m, "copy">> \notin Known(m)
    BY <1>5, KeysOf
  <2> QED BY <1>2, <1>3, <1>5, <2>1, NewRowType
<1>6. CASE UNCHANGED row
  BY <1>1, <1>6
<1>7. CASE Delete
  BY <1>7 DEF Delete
<1>8. ASSUME NEW o \in Outgoing, Send(o), row' = [row EXCEPT ![<<o, "api">>] = NewRow("pending", FALSE)]
      PROVE  KeepsReacted
  BY <1>3, <1>4, <1>8, NewRowType
<1>9. ASSUME NEW o \in Outgoing, Saved(o), row' = [row EXCEPT ![<<o, "api">>] = ent[o]]
      PROVE  KeepsReacted
  BY <1>4, <1>9 DEF Typed
<1>10. ASSUME NEW o \in Outgoing, NEW st \in Receipts, row' = Advanced(o, st)
       PROVE  KeepsReacted
  BY <1>1, <1>10, AdvancedType
<1>11. ASSUME NEW i \in Incoming, MessageStored(i)
       PROVE  KeepsReacted
  BY <1>0, <1>5, <1>11 DEF MessageStored
<1>12. ASSUME NEW m \in Historic, Known(m) = {}, row' = [row EXCEPT ![<<m, "copy">>] = NewRow("sent", TRUE)]
       PROVE  KeepsReacted
  BY <1>0, <1>5, <1>12
<1>13. ASSUME NEW m \in Revocable, Revoke(m)
       PROVE  KeepsReacted
  BY <1>0, <1>1, <1>13, RevokeType
<1> QED BY <1>6, <1>7, <1>8, <1>9, <1>10, <1>11, <1>12, <1>13, RowSteps DEF RowStep, SavesReaction

\* What a step does to the reactions, other than through the table.
LEMMA ReactionSteps ==
  ASSUME [Next]_vars
  PROVE  \/ UNCHANGED reactions
         \/ \E r \in Reaction : React(r) \/ ReactionReads(r) \/ ReactionSaved(r)
BY InboundWrites
   DEF Next, vars, SendStep, Send, Accept, EngineSent, EngineThrew, Saved, AckStep,
   Receipt, ReceiptRetries, HistoryStep, HistorySelects, HistoryInserts,
   ReactionStep, Revoke, Retire, Delete

LEMMA QueueNext ==
  ASSUME Typed, Chains, OneWriter, Queued, [Next]_vars
  PROVE  OneWriter' /\ Queued'
<1>1. CASE UNCHANGED reactions
  BY <1>1 DEF reactions, OneWriter, Queued, Turn
<1>2. ASSUME NEW r \in Reaction, NEW c \in Seq(Reaction), c = chain[r.to], c # <<>>, Head(c) = r,
             chain' = [chain EXCEPT ![r.to] = Tail(c)], UNCHANGED last,
             \A q \in Reaction : applying'[q] # NoRow => q # r /\ applying[q] # NoRow
      PROVE  OneWriter' /\ Queued'
  <2>1. r.to \in Reacted
    BY ReactionFields
  <2>2. \A m \in Reacted : chain'[m] = IF m = r.to THEN Tail(c) ELSE chain[m]
    BY <1>2, <2>1 DEF Chains
  <2>3. Queued'
    <3>1. Orderly(Tail(c), last[r.to], r.to)
      BY <1>2, <2>1, TailOrderly DEF Queued, Chains
    <3> QED BY <1>2, <2>2, <3>1 DEF Queued
  <2>4. ASSUME NEW q \in Reaction, applying'[q] # NoRow
        PROVE  q.to # r.to /\ Turn(q)
    BY <1>2, <2>4 DEF OneWriter, Turn
  <2>5. OneWriter'
    BY <2>2, <2>4, ReactionFields DEF OneWriter, Turn
  <2> QED BY <2>3, <2>5
<1>3. ASSUME NEW r \in Reaction, React(r)
      PROVE  OneWriter' /\ Queued'
  <2>1. r.to \in Reacted /\ r.by \in Senders /\ chain[r.to] \in Seq(Reaction)
        /\ last[r.to] \in [Senders -> 0..PerSender]
    BY ReactionFields DEF Chains
  <2>2. \A m \in Reacted : chain'[m] = IF m = r.to THEN Append(chain[r.to], r) ELSE chain[m]
    BY <1>3, <2>1 DEF React, Chains
  <2>3. \A m \in Reacted : last'[m] = IF m = r.to THEN [last[r.to] EXCEPT ![r.by] = r.nr] ELSE last[m]
    BY <1>3, <2>1 DEF React, Chains
  <2>4. Orderly(Append(chain[r.to], r), [last[r.to] EXCEPT ![r.by] = r.nr], r.to)
    BY <1>3, <2>1, AppendOrderly DEF React, Queued
  <2>5. Queued'
    BY <2>2, <2>3, <2>4 DEF Queued
  <2>6. ASSUME NEW q \in Reaction, Turn(q)
        PROVE  Turn(q)'
    <3>1. CASE q.to = r.to
      <4>1. chain'[q.to] = Append(chain[r.to], r) /\ chain[r.to] # <<>> /\ Head(chain[r.to]) = q
        BY <2>1, <2>2, <2>6, <3>1 DEF Turn
      <4>2. Append(chain[r.to], r) # <<>> /\ Head(Append(chain[r.to], r)) = q
        BY <2>1, <4>1, AppendFacts
      <4> QED BY <4>1, <4>2 DEF Turn
    <3>2. CASE q.to # r.to
      BY <2>2, <2>6, <3>2, ReactionFields DEF Turn
    <3> QED BY <3>1, <3>2
  <2>7. OneWriter'
    BY <1>3, <2>6 DEF React, OneWriter
  <2> QED BY <2>5, <2>7
<1>4. ASSUME NEW r \in Reaction, ReactionReads(r)
      PROVE  OneWriter' /\ Queued'
  <2>1. r.to \in Reacted /\ chain[r.to] \in Seq(Reaction)
    BY ReactionFields DEF Chains
  <2>2. CASE Known(r.to) = {}
    <3>1. /\ chain[r.to] # <<>> /\ Head(chain[r.to]) = r /\ applying[r] = NoRow
          /\ chain' = [chain EXCEPT ![r.to] = Tail(chain[r.to])] /\ UNCHANGED <<applying, last>>
      BY <1>4, <2>2 DEF ReactionReads, Turn, Unchain
    <3> QED BY <1>2, <2>1, <3>1
  <2>3. CASE Known(r.to) # {}
    <3>1. UNCHANGED <<chain, last>> /\ Turn(r)
      BY <1>4, <2>3 DEF ReactionReads
    <3>2. \A q \in Reaction : q # r => applying'[q] = applying[q]
      BY <1>4, <2>3 DEF ReactionReads, Typed
    <3> QED BY <3>1, <3>2 DEF OneWriter, Queued, Turn
  <2> QED BY <2>2, <2>3
<1>5. ASSUME NEW r \in Reaction, ReactionSaved(r)
      PROVE  OneWriter' /\ Queued'
  <2>1. r.to \in Reacted /\ chain[r.to] \in Seq(Reaction)
    BY ReactionFields DEF Chains
  <2>2. chain[r.to] # <<>> /\ Head(chain[r.to]) = r
    BY <1>5 DEF ReactionSaved, OneWriter, Turn
  <2>3. chain' = [chain EXCEPT ![r.to] = Tail(chain[r.to])] /\ UNCHANGED last
    BY <1>5 DEF ReactionSaved, Unchain
  <2>4. \A q \in Reaction : applying'[q] = IF q = r THEN NoRow ELSE applying[q]
    BY <1>5 DEF ReactionSaved, Typed
  <2> QED BY <1>2, <2>1, <2>2, <2>3, <2>4
<1> QED BY <1>1, <1>3, <1>4, <1>5, ReactionSteps

LEMMA OneRowNext ==
  ASSUME Typed, ApplyingLinked, Grows, OneRow, ReadFresh, [Next]_vars
  PROVE  OneRow'
<1> SUFFICES ASSUME ~deleted, ~deleted' PROVE OneRow'
  BY DEF OneRow, Grows
<1> DEFINE One == \A m \in Messages : \A k, l \in Keys : k \in Known(m) /\ l \in Known(m) => k = l
           Unsent == \A o \in Outgoing : send[o] # "done" => <<o, "api">> \notin Known(o)
<1>0. Incoming \subseteq Messages /\ Historic \subseteq Messages /\ Outgoing \subseteq Messages
      /\ Revocable \subseteq Messages
  BY StoreAssumption DEF Messages
<1>1. One /\ Unsent /\ \A o \in Outgoing : <<o, "api">> \in Keys
  BY <1>0, KeysOf DEF OneRow
<1>2. \A o \in Outgoing : send[o] = "done" => send'[o] = "done"
  BY DEF Grows
<1>3. ASSUME \A m \in Messages : \A k \in Keys : k \in Known(m)' => k \in Known(m)
      PROVE  OneRow'
  BY <1>0, <1>1, <1>2, <1>3 DEF OneRow
<1>4. ASSUME \A k \in Keys :
               \/ row'[k] = row[k]
               \/ row[k] # NoRow /\ row'[k] # NoRow /\ row[k].linked /\ row'[k].linked
      PROVE  OneRow'
  BY <1>3, <1>4, EditKnown
<1>5. ASSUME NEW m0 \in Messages, NEW k0 \in Keys, k0[1] = m0, NEW v \in Row,
             row' = [row EXCEPT ![k0] = v], \A k \in Keys : k \in Known(m0) => k = k0,
             m0 \in Outgoing /\ k0 = <<m0, "api">> => send'[m0] = "done" \/ ~v.linked
      PROVE  OneRow'
  <2>1. \A m \in Messages : \A k \in Keys : k \in Known(m)' =>
          IF k = k0 THEN m = m0 /\ v.linked ELSE k \in Known(m)
    BY <1>5, PutKnown
  <2>2. ASSUME NEW m \in Messages, NEW k \in Keys, NEW l \in Keys, k \in Known(m)', l \in Known(m)'
        PROVE  k = l
    BY <1>1, <1>5, <2>1, <2>2
  <2>3. ASSUME NEW o \in Outgoing, send'[o] # "done", <<o, "api">> \in Known(o)'
        PROVE  FALSE
    <3>1. <<o, "api">> \in Keys /\ send[o] # "done" /\ <<o, "api">> \notin Known(o)
      BY <1>1, <1>2, <2>3
    <3>2. <<o, "api">> = k0 /\ o = m0 /\ v.linked
      BY <1>0, <2>1, <2>3, <3>1
    <3> QED BY <1>5, <2>3, <3>2
  <2> QED BY <2>2, <2>3 DEF OneRow
<1>6. {"pending", "sent"} \subseteq MessageStatus
  BY DEF MessageStatus
<1>7. CASE UNCHANGED row
  BY <1>4, <1>7
<1>8. CASE Delete
  BY <1>8 DEF Delete
<1>9. ASSUME NEW o \in Outgoing, Send(o), row' = [row EXCEPT ![<<o, "api">>] = NewRow("pending", FALSE)]
      PROVE  OneRow'
  <2>1. NewRow("pending", FALSE) \in Row /\ ~NewRow("pending", FALSE).linked
    BY <1>6, NewRowType
  <2>2. \A m \in Messages : \A k \in Keys : k \in Known(m)' => k \in Known(m)
    BY <1>1, <1>9, <2>1, PutKnown
  <2> QED BY <1>3, <2>2
<1>10. ASSUME NEW o \in Outgoing, Saved(o), Persistable(<<o, "api">>, ent[o]), row' = [row EXCEPT ![<<o, "api">>] = ent[o]]
       PROVE  OneRow'
  <2>1. ent[o] \in Row /\ send'[o] = "done" /\ <<o, "api">>[1] = o
    BY <1>10 DEF Saved, Typed
  <2>2. CASE ent[o].linked
    <3>1. \A k \in Keys : k \in Known(o) => k = <<o, "api">>
      BY <1>10, <2>1, <2>2 DEF Persistable
    <3> QED BY <1>0, <1>1, <1>5, <1>10, <2>1, <3>1
  <2>3. CASE ~ent[o].linked
    <3>1. \A m \in Messages : \A k \in Keys : k \in Known(m)' => k \in Known(m)
      BY <1>1, <1>10, <2>1, <2>3, PutKnown
    <3> QED BY <1>3, <3>1
  <2> QED BY <2>2, <2>3
<1>11. ASSUME NEW o \in Outgoing, NEW st \in Receipts, row' = Advanced(o, st)
       PROVE  OneRow'
  BY <1>4, <1>11, AdvancedType
<1>12. ASSUME NEW m \in Messages, Known(m) = {}, row' = [row EXCEPT ![<<m, "copy">>] = NewRow("sent", TRUE)]
       PROVE  OneRow'
  <2>1. <<m, "copy">> \in Keys /\ <<m, "copy">>[1] = m /\ <<m, "copy">> # <<m, "api">>
        /\ NewRow("sent", TRUE) \in Row
    BY <1>6, KeysOf, NewRowType
  <2> QED BY <1>5, <1>12, <2>1
<1>13. ASSUME NEW i \in Incoming, MessageStored(i)
       PROVE  OneRow'
  BY <1>0, <1>12, <1>13 DEF MessageStored
<1>14. ASSUME NEW m \in Historic, Known(m) = {}, row' = [row EXCEPT ![<<m, "copy">>] = NewRow("sent", TRUE)]
       PROVE  OneRow'
  BY <1>0, <1>12, <1>14
<1>15. ASSUME NEW r \in Reaction, ReactionSaved(r), row' = [row EXCEPT ![applying[r].key] = applying[r].row]
       PROVE  OneRow'
  <2>1. /\ applying[r].key \in Keys /\ applying[r].row \in Row /\ applying[r].row.linked
        /\ applying[r].key \in Known(r.to) /\ r.to \in Messages
    BY <1>15, ReactionFields DEF ReactionSaved, Typed, Entity, ApplyingLinked, ReadFresh
  <2>2. applying[r].key[1] = r.to /\ row[applying[r].key] # NoRow /\ row[applying[r].key].linked
    BY <2>1, KeysOf
  <2>3. \A k \in Keys : row'[k] = IF k = applying[r].key THEN applying[r].row ELSE row[k]
    BY <1>15, <2>1, Put
  <2> QED BY <1>4, <2>1, <2>2, <2>3, NoRowAssumption
<1>16. ASSUME NEW m \in Revocable, Revoke(m)
       PROVE  OneRow'
  BY <1>0, <1>4, <1>16, RevokeType
<1> QED BY <1>7, <1>8, <1>9, <1>10, <1>11, <1>13, <1>14, <1>15, <1>16, RowSteps DEF RowStep

\* The save of a reaction, while the session is there: only its sender's reaction changes.
LEMMA SaveShows ==
  ASSUME Typed, ApplyingLinked, ReadFresh, ~deleted, NEW r \in Reaction, ReactionSaved(r),
         row' = [row EXCEPT ![applying[r].key] = applying[r].row]
  PROVE  \E k0 \in Keys :
           /\ k0 \in Known(r.to) /\ k0 = applying[r].key /\ k0[1] = r.to
           /\ \A m \in Messages : \A k \in Keys : k \in Known(m)' <=> k \in Known(m)
           /\ \A k \in Keys : k # k0 => row'[k] = row[k]
           /\ \A s \in Senders : row'[k0].reacted[s] = IF s = r.by THEN r.nr ELSE row[k0].reacted[s]
<1>1. PICK k0 \in Keys : k0 = applying[r].key
  BY DEF ReactionSaved, Typed, Entity
<1>2. /\ applying[r].row \in Row /\ applying[r].row.linked /\ applying[r] # NoRow
      /\ k0 \in Known(r.to) /\ r.to \in Messages
  BY <1>1, ReactionFields DEF ReactionSaved, Typed, Entity, ApplyingLinked, ReadFresh
<1>3. k0[1] = r.to /\ row[k0] # NoRow /\ row[k0].linked
  BY <1>2, KeysOf
<1>4. \A k \in Keys : row'[k] = IF k = k0 THEN applying[r].row ELSE row[k]
  BY <1>1, <1>2, Put
<1>5. \A m \in Messages : \A k \in Keys : k \in Known(m)' <=> k \in Known(m)
  BY <1>2, <1>3, <1>4, EditKnown, NoRowAssumption
<1>6. \A s \in Senders : applying[r].row.reacted[s] = IF s = r.by THEN r.nr ELSE row[k0].reacted[s]
  BY <1>1, <1>2 DEF ReadFresh
<1>7. \A s \in Senders : row'[k0].reacted[s] = IF s = r.by THEN r.nr ELSE row[k0].reacted[s]
  BY <1>4, <1>6
<1> QED BY <1>1, <1>2, <1>3, <1>4, <1>5, <1>7

LEMMA ReadFreshNext ==
  ASSUME Typed, ApplyingLinked, Grows, OneWriter, OneRow, ReadFresh, [Next]_vars
  PROVE  ReadFresh'
<1> SUFFICES ASSUME ~deleted, ~deleted', NEW r \in Reaction, applying'[r] # NoRow
             PROVE  /\ applying'[r].key \in Known(r.to)'
                    /\ \A s \in Senders : applying'[r].row.reacted[s] =
                         IF s = r.by THEN r.nr ELSE row'[applying'[r].key].reacted[s]
  BY DEF ReadFresh, Grows
<1>0. r.to \in Messages /\ r.by \in Senders
  BY ReactionFields
<1>1. CASE applying'[r] = applying[r]
  <2>1. PICK k \in Keys : k = applying[r].key
    BY <1>1 DEF Typed, Entity
  <2>2. k \in Known(r.to) /\ \A s \in Senders : applying[r].row.reacted[s] =
          IF s = r.by THEN r.nr ELSE row[k].reacted[s]
    BY <1>1, <2>1 DEF ReadFresh
  <2>3. CASE KeepsReacted
    <3>1. k \in Known(r.to)' /\ row'[k].reacted = row[k].reacted
      BY <1>0, <2>2, <2>3 DEF KeepsReacted
    <3> QED BY <1>1, <2>1, <2>2, <3>1
  <2>4. CASE SavesReaction
    <3>1. PICK q \in Reaction : /\ ReactionSaved(q)
                                /\ row' = [row EXCEPT ![applying[q].key] = applying[q].row]
      BY <2>4 DEF SavesReaction
    <3>2. applying'[q] = NoRow /\ applying[q] # NoRow
      BY <3>1 DEF ReactionSaved, Typed
    <3>3. r.to # q.to
      BY <1>1, <3>2 DEF OneWriter, Turn
    <3>4. PICK k0 \in Keys :
            /\ k0[1] = q.to
            /\ \A m \in Messages : \A l \in Keys : l \in Known(m)' <=> l \in Known(m)
            /\ \A l \in Keys : l # k0 => row'[l] = row[l]
      BY <3>1, SaveShows
    <3>5. k # k0
      BY <1>0, <2>2, <3>3, <3>4, KeysOf
    <3> QED BY <1>0, <1>1, <2>1, <2>2, <3>4, <3>5
  <2> QED BY <2>3, <2>4, RowsKeepReacted
<1>2. CASE applying'[r] # applying[r]
  <2>1. PICK k \in Known(r.to) :
          /\ k \in Keys /\ row[k] \in Row /\ UNCHANGED row
          /\ applying'[r] = [key |-> k, row |-> WithReaction(row[k], r)]
    BY <1>2, ApplyingSteps DEF ApplyingStep
  <2>2. applying'[r].key = k /\ applying'[r].row = WithReaction(row[k], r)
    BY <2>1
  <2>3. k \in Known(r.to)'
    BY <2>1 DEF Known
  <2>4. WithReaction(row[k], r).reacted = [row[k].reacted EXCEPT ![r.by] = r.nr]
    BY <2>1 DEF WithReaction, Row
  <2>5. row[k].reacted \in [Senders -> 0..PerSender]
    BY <2>1 DEF Row
  <2> QED BY <1>0, <2>1, <2>2, <2>3, <2>4, <2>5
<1> QED BY <1>1, <1>2

LEMMA LastShownNext ==
  ASSUME Typed, ApplyingLinked, Chains, Grows, OneWriter, Queued, OneRow, ReadFresh, LastShown,
         [Next]_vars
  PROVE  LastShown'
<1> SUFFICES ASSUME ~deleted, ~deleted', NEW m \in Reacted, NEW s \in Senders, NEW n \in 1..PerSender,
                    n = last'[m][s], NrOf(m, s, n) \notin excused'
             PROVE  Shows(m, s, n)'
  BY DEF LastShown, Grows, NrOf
<1>0. m \in Messages /\ NrOf(m, s, n) \in Reaction
  BY StoreAssumption DEF NrOf, Reaction, Messages
<1>1. n = last[m][s] => Shows(m, s, n)
  BY DEF LastShown, Grows
<1>2. ASSUME Shows(m, s, n), KeepsReacted,
             Has(chain[m], NrOf(m, s, n)) => Has(chain'[m], NrOf(m, s, n))
      PROVE  Shows(m, s, n)'
  <2>1. PICK l \in Keys : l \in Known(m) /\ l \in Known(m)'
    BY <1>0, <1>2, KeysOf DEF Shows, KeepsReacted
  <2>2. (\E k \in Keys : k \in Known(m) /\ row[k].reacted[s] = n) =>
          \E k \in Keys : k \in Known(m)' /\ row'[k].reacted[s] = n
    BY <1>0, <1>2 DEF KeepsReacted
  <2>3. Known(m)' # {}
    BY <2>1
  <2> QED BY <1>2, <2>2, <2>3 DEF Shows, NrOf
<1>3. ASSUME UNCHANGED row
      PROVE  KeepsReacted
  BY <1>3, EditKnown DEF KeepsReacted
<1>4. CASE UNCHANGED reactions
  <2>1. ~SavesReaction
    BY <1>4 DEF SavesReaction, ReactionSaved, reactions, Typed
  <2>2. KeepsReacted
    BY <2>1, RowsKeepReacted
  <2>3. n = last[m][s] /\ chain'[m] = chain[m]
    BY <1>4 DEF reactions
  <2> QED BY <1>1, <1>2, <2>2, <2>3
<1>5. ASSUME NEW r \in Reaction, React(r)
      PROVE  Shows(m, s, n)'
  <2>1. r.to \in Reacted /\ r.by \in Senders /\ chain[r.to] \in Seq(Reaction)
        /\ last[r.to] \in [Senders -> 0..PerSender]
    BY ReactionFields DEF Chains
  <2>2. chain'[m] = IF m = r.to THEN Append(chain[r.to], r) ELSE chain[m]
    BY <1>5, <2>1 DEF React, Chains
  <2>3. last'[m] = IF m = r.to THEN [last[r.to] EXCEPT ![r.by] = r.nr] ELSE last[m]
    BY <1>5, <2>1 DEF React, Chains
  <2>4. UNCHANGED row /\ KeepsReacted
    BY <1>3, <1>5 DEF React
  <2>5. CASE m = r.to /\ s = r.by
    <3>1. n = r.nr
      BY <2>1, <2>3, <2>5
    <3>2. NrOf(m, s, n) = r
      BY <2>5, <3>1, ReactionFields DEF NrOf
    <3>3. Known(m) # {}
      BY <1>5, <2>5, <3>2 DEF React
    <3>4. Known(m)' # {}
      BY <1>0, <2>4, <3>3, KeysOf DEF KeepsReacted
    <3>5. Has(chain'[m], r)
      BY <2>1, <2>2, <2>5, AppendHas
    <3> QED BY <3>2, <3>4, <3>5 DEF Shows, NrOf
  <2>6. CASE m # r.to \/ s # r.by
    <3>1. n = last[m][s]
      BY <2>1, <2>3, <2>6
    <3>2. Has(chain[m], NrOf(m, s, n)) => Has(chain'[m], NrOf(m, s, n))
      BY <2>1, <2>2, AppendHas
    <3> QED BY <1>1, <1>2, <2>4, <3>1, <3>2
  <2> QED BY <2>5, <2>6
<1>6. ASSUME NEW r \in Reaction, ReactionReads(r)
      PROVE  Shows(m, s, n)'
  <2>1. UNCHANGED <<row, last>> /\ KeepsReacted /\ r.to \in Reacted
    BY <1>3, <1>6, ReactionFields DEF ReactionReads
  <2>2. Shows(m, s, n)
    BY <1>1, <2>1
  <2>3. chain'[m] = chain[m]
    <3>1. CASE Known(r.to) = {}
      <4>1. m # r.to
        BY <2>2, <3>1 DEF Shows
      <4> QED BY <1>6, <2>1, <3>1, <4>1 DEF ReactionReads, Unchain, Chains
    <3>2. CASE Known(r.to) # {}
      BY <1>6, <3>2 DEF ReactionReads
    <3> QED BY <3>1, <3>2
  <2> QED BY <1>2, <2>1, <2>2, <2>3
<1>7. ASSUME NEW r \in Reaction, ReactionSaved(r)
      PROVE  Shows(m, s, n)'
  <2>1. r.to \in Reacted /\ r.by \in Senders /\ chain[r.to] \in Seq(Reaction)
        /\ last[r.to] \in [Senders -> 0..PerSender] /\ UNCHANGED last
    BY <1>7, ReactionFields DEF Chains, ReactionSaved
  <2>2. chain[r.to] # <<>> /\ Head(chain[r.to]) = r
    BY <1>7 DEF ReactionSaved, OneWriter, Turn
  <2>3. chain'[m] = IF m = r.to THEN Tail(chain[r.to]) ELSE chain[m]
    BY <1>7, <2>1 DEF ReactionSaved, Unchain, Chains
  <2>4. Shows(m, s, n) /\ n = last[m][s]
    BY <1>1, <2>1
  <2>5. ASSUME NrOf(m, s, n) # r
        PROVE  Has(chain[m], NrOf(m, s, n)) => Has(chain'[m], NrOf(m, s, n))
    BY <2>1, <2>2, <2>3, <2>5, TailKeeps
  <2>6. CASE UNCHANGED row /\ excused' = excused \union {r}
    <3>1. NrOf(m, s, n) # r
      BY <2>6
    <3> QED BY <1>2, <1>3, <2>4, <2>5, <2>6, <3>1
  <2>7. CASE row' = [row EXCEPT ![applying[r].key] = applying[r].row]
    <3>1. PICK k0 \in Keys :
             /\ k0 \in Known(r.to) /\ k0 = applying[r].key /\ k0[1] = r.to
             /\ \A q \in Messages : \A k \in Keys : k \in Known(q)' <=> k \in Known(q)
             /\ \A k \in Keys : k # k0 => row'[k] = row[k]
             /\ \A t \in Senders : row'[k0].reacted[t] = IF t = r.by THEN r.nr ELSE row[k0].reacted[t]
      BY <1>7, <2>7, SaveShows
    <3>2. Known(m)' # {}
      <4>1. PICK l \in Keys : l \in Known(m)
        BY <1>0, <2>4, KeysOf DEF Shows
      <4> QED BY <1>0, <3>1, <4>1
    <3>3. ASSUME NEW k \in Keys, k \in Known(m)', row'[k].reacted[s] = n
          PROVE  Shows(m, s, n)'
      BY <3>2, <3>3 DEF Shows
    <3>4. ASSUME Has(chain'[m], NrOf(m, s, n))
          PROVE  Shows(m, s, n)'
      BY <3>2, <3>4 DEF Shows, NrOf
    <3>5. CASE m = r.to /\ s = r.by
      <4>1. CASE n = r.nr
        BY <1>0, <2>1, <3>1, <3>3, <2>7, <3>5, <4>1
      <4>2. CASE n # r.nr
        <5>1. Has(chain[m], [to |-> m, by |-> Head(chain[m]).by, nr |-> last[m][Head(chain[m]).by]])
          <6>1. Orderly(chain[m], last[m], m) /\ Head(chain[m]).nr # last[m][Head(chain[m]).by]
            BY <2>2, <2>4, <3>5, <4>2 DEF Queued
          <6> QED BY <2>1, <2>2, <3>5, <6>1, LastWaits
        <5>2. Has(chain[m], NrOf(m, s, n)) /\ NrOf(m, s, n) # r
          BY <2>2, <2>4, <3>5, <4>2, <5>1 DEF NrOf
        <5> QED BY <2>5, <3>4, <5>2
      <4> QED BY <4>1, <4>2
    <3>6. CASE ~(m = r.to /\ s = r.by)
      <4>1. NrOf(m, s, n) # r
        BY <3>6 DEF NrOf
      <4>2. CASE Has(chain[m], NrOf(m, s, n))
        BY <2>5, <3>4, <4>1, <4>2
      <4>3. ASSUME NEW k \in Keys, k \in Known(m), row[k].reacted[s] = n
            PROVE  Shows(m, s, n)'
        <5>1. k \in Known(m)' /\ k[1] = m
          BY <1>0, <3>1, <4>3, KeysOf
        <5>2. row'[k].reacted[s] = n
          BY <3>1, <3>6, <4>3, <5>1
        <5> QED BY <3>3, <5>1, <5>2
      <4> QED BY <2>4, <4>2, <4>3 DEF Shows
    <3> QED BY <3>5, <3>6
  <2> QED BY <1>7, <2>6, <2>7 DEF ReactionSaved
<1> QED BY <1>4, <1>5, <1>6, <1>7, ReactionSteps

-----------------------------------------------------------------------------
\* What the receipts and the row of a message say of each other, while the session is there
\* and none of its receipts was lost.
AckedSends ==
  \A o \in Outgoing :
    /\ send[o] \in {"none", "sending"} => ~ent[o].linked
    /\ send[o] = "saving" /\ ent[o].linked => ent[o].status = "sent"

Waiting(o) == \A st \in receipts[o] : <<o, st>> \in retry

Acked(o, status) ==
  /\ status = "sent" \/ status \in receipts[o]
  /\ status = "sent" => Waiting(o)
  /\ "read" \in receipts[o] /\ <<o, "read">> \notin retry => status \in {"read", "failed"}

AckedRows ==
  ~deleted =>
    \A o \in Outgoing : o \notin lost =>
      /\ (\A k \in Keys : k \notin Known(o)) => Waiting(o)
      /\ \A k \in Keys : k \in Known(o) => Acked(o, row[k].status)

AckInv == AckedSends /\ AckedRows

\* A step that neither brings a receipt nor changes what a row says of one.
LEMMA AckFrame ==
  ASSUME AckedRows, UNCHANGED <<receipts, retry>>, lost \subseteq lost', deleted => deleted',
         \A o \in Outgoing : \A k \in Keys :
           /\ k \in Known(o)' <=> k \in Known(o)
           /\ k \in Known(o) /\ o \notin lost' => row'[k].status = row[k].status
  PROVE  AckedRows'
<1> SUFFICES ASSUME ~deleted', NEW o \in Outgoing, o \notin lost'
             PROVE  /\ (\A k \in Keys : k \notin Known(o)') => Waiting(o)'
                    /\ \A k \in Keys : k \in Known(o)' => Acked(o, row[k].status)'
  BY DEF AckedRows
<1>1. /\ (\A k \in Keys : k \notin Known(o)) => Waiting(o)
      /\ \A k \in Keys : k \in Known(o) => Acked(o, row[k].status)
  BY DEF AckedRows
<1>2. (\A k \in Keys : k \notin Known(o)') => Waiting(o)'
  BY <1>1 DEF Waiting
<1>3. ASSUME NEW k \in Keys, k \in Known(o)'
      PROVE  Acked(o, row[k].status)'
  <2>1. Acked(o, row[k].status) /\ row'[k].status = row[k].status
    BY <1>1, <1>3
  <2> QED BY <2>1 DEF Acked, Waiting
<1> QED BY <1>2, <1>3

\* The row a message gets under its id, when it had none: nothing has said more than SENT.
LEMMA InsertAcked ==
  ASSUME Typed, AckedRows, UNCHANGED <<receipts, retry>>, lost \subseteq lost', deleted => deleted',
         NEW k0 \in Keys, NEW v \in Row, row' = [row EXCEPT ![k0] = v], v.linked => v.status = "sent",
         v.linked \/ k0 \notin Known(k0[1]),
         \A k \in Keys : v.linked => k \notin Known(k0[1])
  PROVE  AckedRows'
<1> SUFFICES ASSUME ~deleted', NEW o \in Outgoing, o \notin lost'
             PROVE  /\ (\A k \in Keys : k \notin Known(o)') => Waiting(o)'
                    /\ \A k \in Keys : k \in Known(o)' => Acked(o, row[k].status)'
  BY DEF AckedRows
<1>0. o \in Messages
  BY DEF Messages
<1>1. /\ (\A k \in Keys : k \notin Known(o)) => Waiting(o)
      /\ \A k \in Keys : k \in Known(o) => Acked(o, row[k].status)
  BY DEF AckedRows
<1>2. \A k \in Keys : k \in Known(o)' <=> IF k = k0 THEN k0[1] = o /\ v.linked ELSE k \in Known(o)
  BY <1>0, PutKnown
<1>3. \A k \in Keys : row'[k] = IF k = k0 THEN v ELSE row[k]
  BY Put
<1>4. k0 \notin Known(o)
  BY <1>0, KeysOf
<1>5. (\A k \in Keys : k \notin Known(o)') => Waiting(o)'
  BY <1>1, <1>2, <1>4 DEF Waiting
<1>6. ASSUME NEW k \in Keys, k \in Known(o)'
      PROVE  Acked(o, row[k].status)'
  <2>1. CASE k = k0
    <3>1. k0[1] = o /\ v.linked /\ row'[k] = v
      BY <1>2, <1>3, <1>6, <2>1
    <3>2. Waiting(o)
      BY <1>1, <3>1
    <3> QED BY <3>1, <3>2 DEF Acked, Waiting
  <2>2. CASE k # k0
    <3>1. Acked(o, row[k].status) /\ row'[k] = row[k]
      BY <1>1, <1>2, <1>3, <1>6, <2>2
    <3> QED BY <3>1 DEF Acked, Waiting
  <2> QED BY <2>1, <2>2
<1> QED BY <1>5, <1>6

\* The steps of a send.
LEMMA SendMoves ==
  ASSUME Typed, AckedSends, NEW o \in Outgoing, SendStep(o)
  PROVE  AckedSends'
<1>1. \A p \in Outgoing : p # o => send'[p] = send[p] /\ ent'[p] = ent[p]
  BY DEF SendStep, Send, Accept, EngineSent, EngineThrew, Saved, Typed
<1>2. /\ send'[o] \in {"none", "sending"} => ~ent'[o].linked
      /\ send'[o] = "saving" /\ ent'[o].linked => ent'[o].status = "sent"
  <2>1. CASE Send(o)
    BY <2>1 DEF Send, Typed, AckedSends
  <2>2. CASE Accept(o)
    BY <2>2 DEF Accept, AckedSends
  <2>3. CASE EngineSent(o)
    <3>1. PICK linked \in BOOLEAN : ent' = [ent EXCEPT ![o].status = "sent", ![o].linked = linked]
      BY <2>3 DEF EngineSent
    <3>2. ent'[o].status = "sent" /\ send'[o] = "saving"
      BY <2>3, <3>1 DEF EngineSent, Typed, Row
    <3> QED BY <3>2
  <2>4. CASE EngineThrew(o)
    BY <2>4 DEF EngineThrew, Typed, Row, AckedSends
  <2>5. CASE Saved(o)
    BY <2>5 DEF Saved, Typed
  <2> QED BY <2>1, <2>2, <2>3, <2>4, <2>5 DEF SendStep
<1> QED BY <1>1, <1>2 DEF AckedSends

LEMMA SendAcked ==
  ASSUME Typed, OneRow, AckInv, ~deleted, NEW o \in Outgoing, SendStep(o)
  PROVE  AckInv'
<1>0. /\ UNCHANGED <<receipts, retry, lost, deleted>> /\ o \in Messages
      /\ <<o, "api">> \in Keys /\ <<o, "api">>[1] = o
  BY KeysOf DEF SendStep, Send, Accept, EngineSent, EngineThrew, Saved, acks, Messages
<1>1. send[o] # "done" /\ <<o, "api">> \notin Known(o)
  BY DEF SendStep, Send, Accept, EngineSent, EngineThrew, Saved, OneRow
<1>4. AckedSends'
  BY SendMoves DEF AckInv
<1>5. AckedRows
  BY DEF AckInv
<1>6. CASE UNCHANGED row
  <2>1. \A p \in Outgoing : \A k \in Keys : k \in Known(p)' <=> k \in Known(p)
    BY <1>6 DEF Known
  <2> QED BY <1>0, <1>4, <1>5, <1>6, <2>1, AckFrame DEF AckInv
<1>7. PICK k0 \in Keys : k0 = <<o, "api">> /\ k0[1] = o
  BY <1>0
<1>8. CASE row' = [row EXCEPT ![<<o, "api">>] = NewRow("pending", FALSE)]
  <2>1. NewRow("pending", FALSE) \in Row /\ ~NewRow("pending", FALSE).linked
    BY NewRowType DEF MessageStatus
  <2> QED BY <1>0, <1>1, <1>4, <1>5, <1>7, <1>8, <2>1, InsertAcked DEF AckInv
<1>9. CASE Saved(o) /\ Persistable(<<o, "api">>, ent[o]) /\ row' = [row EXCEPT ![<<o, "api">>] = ent[o]]
  <2>1. ent[o] \in Row /\ (ent[o].linked => ent[o].status = "sent")
    BY <1>9 DEF Saved, Typed, AckInv, AckedSends
  <2>2. ent[o].linked => \A k \in Keys : k \notin Known(o)
    BY <1>1, <1>7, <1>9 DEF Persistable
  <2> QED BY <1>0, <1>1, <1>4, <1>5, <1>7, <1>9, <2>1, <2>2, InsertAcked DEF AckInv
<1> QED BY <1>6, <1>8, <1>9 DEF SendStep, Send, Accept, EngineSent, EngineThrew, Saved

\* A receipt comes, or is tried again.
LEMMA ReceiptAcked ==
  ASSUME Typed, Rest, Grows, AckInv, RetriesCame, ~deleted, NEW o \in Outgoing, NEW st \in Receipts,
         AckStep(o, st)
  PROVE  AckInv'
<1>0. /\ UNCHANGED <<send, ent, deleted>> /\ o \in Messages /\ \A p \in Outgoing : p \in Messages
  BY DEF AckStep, Receipt, ReceiptRetries, sends, Messages
<1>1. AckedSends'
  BY <1>0 DEF AckInv, AckedSends
<1>2. /\ st \in receipts'[o] /\ receipts[o] \subseteq receipts'[o]
      /\ \A q \in receipts'[o] : q \in receipts[o] \/ q = st
      /\ \A p \in Outgoing : p # o => receipts'[p] = receipts[p]
  BY DEF AckStep, Receipt, ReceiptRetries, RetriesCame, Rest
<1>3. \A p \in Outgoing, q \in Receipts : <<p, q>> # <<o, st>> => (<<p, q>> \in retry' <=> <<p, q>> \in retry)
  BY DEF AckStep, Receipt, ReceiptRetries, Unmatched
<1>4. \A p \in Outgoing : receipts[p] \subseteq Receipts /\ receipts'[p] \subseteq Receipts
  BY DEF AckStep, Receipt, ReceiptRetries, Rest
<1>5. UNCHANGED row \/ row' = Advanced(o, st)
  BY DEF AckStep, Receipt, ReceiptRetries
<1>6. \A k \in Keys : row'[k] = row[k] \/ (row[k] # NoRow /\ row'[k] # NoRow /\ row[k].linked /\ row'[k].linked)
  BY <1>5, AdvancedType
<1>7. \A p \in Outgoing : \A k \in Keys : k \in Known(p)' <=> k \in Known(p)
  BY <1>0, <1>6, EditKnown
<1>8. o \notin lost' => row' = Advanced(o, st) /\ (<<o, st>> \in retry' \/ Known(o) # {})
  <2>1. CASE Receipt(o, st)
    <3>1. Known(o) = {} => Matched(o, st) = {}
      BY DEF Matched
    <3> QED BY <2>1, <3>1 DEF Receipt, Unmatched
  <2>2. CASE ReceiptRetries(o, st)
    BY <2>2 DEF ReceiptRetries
  <2> QED BY <2>1, <2>2 DEF AckStep
<1>9. o \notin lost' => <<o, st>> \in retry' \/ Matched(o, st) # {} \/ ReceiptRetries(o, st)
  BY DEF AckStep, Receipt, Unmatched
<1>10. \A p \in Outgoing : p \notin lost' => p \notin lost
  BY DEF Grows
<1>11. ASSUME NEW p \in Outgoing, p \notin lost', \A k \in Keys : k \notin Known(p)'
       PROVE  Waiting(p)'
  <2>1. \A k \in Keys : k \notin Known(p)
    BY <1>7, <1>11
  <2>2. Waiting(p)
    BY <1>10, <1>11, <2>1 DEF AckInv, AckedRows
  <2>3. Known(p) = {}
    BY <1>0, <2>1, KeysOf
  <2>4. ASSUME NEW q \in receipts'[p]
        PROVE  <<p, q>> \in retry'
    <3>1. CASE <<p, q>> = <<o, st>>
      BY <1>8, <1>11, <2>3, <3>1
    <3>2. CASE <<p, q>> # <<o, st>>
      <4>1. q \in receipts[p] /\ q \in Receipts
        BY <1>2, <1>4, <2>4, <3>2
      <4> QED BY <1>3, <2>2, <3>2, <4>1 DEF Waiting
    <3> QED BY <3>1, <3>2
  <2> QED BY <2>4 DEF Waiting
<1>12. ASSUME NEW p \in Outgoing, p \notin lost', NEW k \in Keys, k \in Known(p)', NEW now, now = row'[k].status
       PROVE  Acked(p, now)'
  <2>0. k \in Known(p) /\ k[1] = p /\ row[k] # NoRow
    BY <1>0, <1>7, <1>12, KeysOf
  <2>1. PICK status \in MessageStatus : status = row[k].status /\ Acked(p, status)
    BY <1>0, <1>10, <1>12, <2>0 DEF Typed, Row, AckInv, AckedRows
  <2>2. CASE p # o
    <3>1. row'[k] = row[k]
      BY <1>5, <2>0, <2>2, AdvancedType
    <3>2. \A q \in Receipts : <<p, q>> \in retry' <=> <<p, q>> \in retry
      BY <1>3, <2>2
    <3>3. "read" \in Receipts /\ receipts'[p] = receipts[p] /\ receipts[p] \subseteq Receipts
      BY <1>2, <1>4, <2>2 DEF Receipts
    <3> QED BY <1>12, <2>1, <3>1, <3>2, <3>3 DEF Acked, Waiting
  <2>3. CASE p = o /\ status \in AckStatusTransitionFrom(st)
    <3>1. now = st
      <4>1. k \in Matched(o, st) /\ row[k] \in Row
        BY <2>0, <2>1, <2>3 DEF Matched, Typed
      <4>2. row' = Advanced(o, st)
        BY <1>8, <1>12, <2>3
      <4>3. row'[k] = [row[k] EXCEPT !.status = st]
        BY <4>1, <4>2 DEF Advanced
      <4> QED BY <1>12, <4>1, <4>3 DEF Row
    <3>2. st # "sent" /\ st \in receipts'[o]
      BY <1>2 DEF Receipts
    <3>3. st # "read" /\ "read" \in receipts'[o] => <<o, "read">> \in retry'
      <4>1. SUFFICES ASSUME st # "read", "read" \in receipts[o] PROVE <<o, "read">> \in retry'
        BY <1>2
      <4>2. status \notin {"read", "failed"}
        BY <2>3, <4>1 DEF AckStatusTransitionFrom
      <4>3. <<o, "read">> \in retry /\ "read" \in Receipts
        BY <2>1, <2>3, <4>1, <4>2 DEF Acked, Receipts
      <4> QED BY <1>3, <4>1, <4>3
    <3> QED BY <2>3, <3>1, <3>2, <3>3 DEF Acked, Waiting
  <2>4. CASE p = o /\ status \notin AckStatusTransitionFrom(st)
    <3>1. now = status
      BY <1>5, <1>12, <2>1, <2>4, AdvancedType
    <3>2. status # "sent" /\ status \in receipts'[o]
      BY <1>2, <2>1, <2>4 DEF AckStatusTransitionFrom, Acked
    <3>3. "read" \in receipts'[o] /\ <<o, "read">> \notin retry' => status \in {"read", "failed"}
      <4>1. CASE st = "read"
        BY <2>4, <3>2, <4>1 DEF AckStatusTransitionFrom, MessageStatus
      <4>2. CASE st # "read"
        <5>1. "read" \in Receipts
          BY DEF Receipts
        <5>2. <<o, "read">> \in retry' <=> <<o, "read">> \in retry
          BY <1>3, <4>2, <5>1
        <5> QED BY <1>2, <2>1, <2>4, <4>2, <5>2 DEF Acked
      <4> QED BY <4>1, <4>2
    <3> QED BY <2>4, <3>1, <3>2, <3>3 DEF Acked, Waiting
  <2> QED BY <2>2, <2>3, <2>4
<1>13. AckedRows'
  BY <1>11, <1>12 DEF AckedRows
<1> QED BY <1>1, <1>13 DEF AckInv

\* The save of a reaction: a status that it overwrites is lost.
LEMMA ReactionAcked ==
  ASSUME Typed, ApplyingLinked, Grows, ReadFresh, AckedRows, ~deleted, NEW r \in Reaction,
         ReactionSaved(r), row' = [row EXCEPT ![applying[r].key] = applying[r].row],
         lost' = IF Reverts(r) THEN lost \union {r.to} ELSE lost
  PROVE  AckedRows'
<1>0. r.to \in Messages /\ UNCHANGED <<receipts, retry, deleted>>
  BY ReactionFields DEF ReactionSaved
<1>1. PICK k0 \in Keys :
        /\ k0 \in Known(r.to) /\ k0 = applying[r].key /\ k0[1] = r.to
        /\ \A m \in Messages : \A k \in Keys : k \in Known(m)' <=> k \in Known(m)
        /\ \A k \in Keys : k # k0 => row'[k] = row[k]
  BY SaveShows
<1>2. row[k0] # NoRow /\ row'[k0] = applying[r].row
  <2>1. applying[r].row \in Row
    BY DEF ReactionSaved, Typed, Entity
  <2>2. row' = [row EXCEPT ![k0] = applying[r].row]
    BY <1>1
  <2>3. row'[k0] = applying[r].row
    BY <2>1, <2>2, Put
  <2>4. row[k0] # NoRow
    BY <1>0, <1>1, KeysOf
  <2> QED BY <2>3, <2>4
<1>3. ASSUME NEW o \in Outgoing, NEW k \in Keys, k \in Known(o), o \notin lost'
      PROVE  row'[k].status = row[k].status
  <2>0. o \in Messages
    BY DEF Messages
  <2>1. CASE k = k0
    <3>1. o = r.to
      BY <1>1, <1>3, <2>0, <2>1, KeysOf
    <3>2. ~Reverts(r)
      BY <1>3, <3>1
    <3> QED BY <1>1, <1>2, <1>3, <2>1, <3>1, <3>2 DEF Reverts
  <2>2. CASE k # k0
    BY <1>1, <2>2
  <2> QED BY <2>1, <2>2
<1>4. \A o \in Outgoing : \A k \in Keys : k \in Known(o)' <=> k \in Known(o)
  BY <1>1 DEF Messages
<1> QED BY <1>0, <1>3, <1>4, AckFrame DEF Grows

LEMMA AckNext ==
  ASSUME Typed, ApplyingLinked, Rest, Grows, OneRow, ReadFresh, AckInv, RetriesCame, [Next]_vars
  PROVE  AckInv'
<1>0. /\ Incoming \subseteq Messages /\ Historic \subseteq Messages /\ Revocable \subseteq Messages
      /\ Outgoing \subseteq Messages
  BY StoreAssumption DEF Messages
<1>1. ASSUME NEW o \in Outgoing, SendStep(o), ~deleted
      PROVE  AckInv'
  BY <1>1, SendAcked
<1>2. ASSUME NEW o \in Outgoing, NEW st \in Receipts, AckStep(o, st), ~deleted
      PROVE  AckInv'
  BY <1>2, ReceiptAcked
<1>3. ASSUME UNCHANGED sends, AckedRows'
      PROVE  AckInv'
  BY <1>3 DEF sends, AckInv, AckedSends
<1>4. ASSUME UNCHANGED <<sends, receipts, retry>>, \A k \in Keys : row'[k] = row[k] \/
               (/\ row[k] # NoRow /\ row'[k] # NoRow /\ row[k].linked /\ row'[k].linked
                /\ row'[k].status = row[k].status)
      PROVE  AckInv'
  <2>1. \A o \in Outgoing : \A k \in Keys : k \in Known(o)' <=> k \in Known(o)
    BY <1>0, <1>4, EditKnown
  <2>2. AckedRows'
    BY <1>4, <2>1, AckFrame DEF Grows, AckInv
  <2> QED BY <1>3, <1>4, <2>2
<1>5. ASSUME UNCHANGED <<sends, acks>>, NEW m \in Messages, Known(m) = {},
             row' = [row EXCEPT ![<<m, "copy">>] = NewRow("sent", TRUE)]
      PROVE  AckInv'
  <2>1. <<m, "copy">> \in Keys /\ <<m, "copy">>[1] = m
    BY KeysOf
  <2>2. PICK k0 \in Keys : k0 = <<m, "copy">> /\ k0[1] = m
    BY <2>1
  <2>3. /\ NewRow("sent", TRUE) \in Row /\ NewRow("sent", TRUE).linked
        /\ NewRow("sent", TRUE).status = "sent"
    BY NewRowType DEF MessageStatus
  <2>4. AckedRows'
    BY <1>5, <2>2, <2>3, InsertAcked DEF Grows, AckInv, acks
  <2> QED BY <1>3, <1>5, <2>4
<1>6. ASSUME NEW i \in Incoming, InboundStep(i)
      PROVE  AckInv'
  <2>1. UNCHANGED <<sends, acks>> /\ UNCHANGED <<receipts, retry>>
    BY <1>6, InboundWrites DEF acks
  <2>2. CASE UNCHANGED row
    BY <1>4, <2>1, <2>2
  <2>3. CASE MessageStored(i)
    BY <1>0, <1>5, <2>1, <2>3 DEF MessageStored
  <2> QED BY <1>6, <2>2, <2>3, InboundWrites
<1>7. ASSUME NEW m \in Historic, HistoryStep(m)
      PROVE  AckInv'
  <2>1. UNCHANGED <<sends, acks>> /\ UNCHANGED <<receipts, retry>>
    BY <1>7 DEF HistoryStep, HistorySelects, HistoryInserts, acks
  <2>2. CASE UNCHANGED row
    BY <1>4, <2>1, <2>2
  <2>3. CASE Known(m) = {} /\ row' = [row EXCEPT ![<<m, "copy">>] = NewRow("sent", TRUE)]
    BY <1>0, <1>5, <2>1, <2>3
  <2> QED BY <1>7, <2>2, <2>3 DEF HistoryStep, HistorySelects, HistoryInserts
<1>8. ASSUME NEW r \in Reaction, ReactionStep(r), ~deleted
      PROVE  AckInv'
  <2>1. UNCHANGED <<sends, receipts, retry>>
    BY <1>8 DEF ReactionStep, React, ReactionReads, ReactionSaved, acks
  <2>2. CASE UNCHANGED row
    BY <1>4, <2>1, <2>2
  <2>3. CASE /\ ReactionSaved(r) /\ row' = [row EXCEPT ![applying[r].key] = applying[r].row]
             /\ lost' = IF Reverts(r) THEN lost \union {r.to} ELSE lost
    BY <1>3, <1>8, <2>1, <2>3, ReactionAcked DEF AckInv
  <2> QED BY <1>8, <2>2, <2>3 DEF ReactionStep, React, ReactionReads, ReactionSaved
<1>9. ASSUME NEW m \in Revocable, Revoke(m)
      PROVE  AckInv'
  <2>1. UNCHANGED <<sends, receipts, retry>>
    BY <1>9 DEF Revoke, acks
  <2> QED BY <1>0, <1>4, <1>9, <2>1, RevokeType
<1>10. CASE Delete
  BY <1>3, <1>10 DEF Delete, AckedRows
<1>11. CASE Retire \/ UNCHANGED vars
  BY <1>4, <1>11 DEF Retire, vars, acks
<1>12. ASSUME deleted, AckedSends'
       PROVE  AckInv'
  BY <1>12 DEF AckInv, AckedRows, Grows
<1>13. ASSUME UNCHANGED sends \/ \E o \in Outgoing : SendStep(o)
       PROVE  AckedSends'
  <2>1. CASE UNCHANGED sends
    BY <2>1 DEF AckInv, AckedSends, sends
  <2>2. ASSUME NEW o \in Outgoing, SendStep(o)
        PROVE  AckedSends'
    BY <2>2, SendMoves DEF AckInv
  <2> QED BY <1>13, <2>1, <2>2
<1>14. ASSUME NEW o \in Outgoing, NEW st \in Receipts, AckStep(o, st)
       PROVE  UNCHANGED sends
  BY <1>14 DEF AckStep, Receipt, ReceiptRetries
<1>15. ASSUME NEW r \in Reaction, ReactionStep(r)
       PROVE  UNCHANGED sends
  BY <1>15 DEF ReactionStep, React, ReactionReads, ReactionSaved
<1>16. CASE deleted
  BY <1>6, <1>7, <1>9, <1>10, <1>11, <1>12, <1>13, <1>14, <1>15, <1>16 DEF Next
<1> QED BY <1>1, <1>2, <1>6, <1>7, <1>8, <1>9, <1>10, <1>11, <1>16 DEF Next, Typed

-----------------------------------------------------------------------------
\* The initial state, and the theorems.
LEMMA InitFacts ==
  ASSUME Init
  PROVE  /\ Rest /\ Chains /\ Firings
         /\ FailedInv /\ FollowInv /\ ReactInv /\ AckInv
<1>0. Fires \in Nat /\ PerSender \in Nat
  BY StoreAssumption
<1>1. \A m \in Messages : \A k \in Keys : k \notin Known(m)
  BY KeysOf DEF Init
<1>2. Rest /\ Firings
  <2>1. Rest
    BY DEF Init, Rest
  <2>2. Firings
    <3>1. \A i \in Incoming : /\ fired[i] = 0 /\ hooks[i] = 0 /\ inserting[i] = 0 /\ due[i] = 0
                              /\ dispatched[i] = 0 /\ unsaved[i] = 0
      BY DEF Init
    <3>2. fired \in [Incoming -> Nat] /\ unsaved \in [Incoming -> Nat] /\ StoreCounts
      BY DEF Init, StoreCounts
    <3> QED BY <1>0, <3>1, <3>2 DEF Firings, TakenOn
  <2> QED BY <2>1, <2>2
<1>3. Chains
  <2>1. NoReactions \in [Senders -> 0..PerSender] /\ <<>> \in Seq(Reaction)
    BY <1>0 DEF NoReactions
  <2> QED BY <2>1 DEF Init, Chains
<1>4. \A o \in Outgoing : ent[o].status = "pending" /\ ~ent[o].linked
  BY NewRowType DEF Init, MessageStatus
<1>5. FailedInv
  BY <1>4 DEF Init, FailedInv, FailedRows, FailedSends, FailedReads, RetriesCame
<1>6. FollowInv
  BY <1>1 DEF Init, FollowInv, FiredExplained, RowExplained, ReadExplained, Messages
<1>7. OneWriter /\ OneRow /\ ReadFresh
  <2>1. OneRow
    <3>1. \A o \in Outgoing : o \in Messages /\ <<o, "api">> \in Keys
      BY KeysOf DEF Messages
    <3> QED BY <1>1, <3>1 DEF OneRow
  <2>2. OneWriter /\ ReadFresh
    BY DEF Init, OneWriter, ReadFresh
  <2> QED BY <2>1, <2>2
<1>8. Queued /\ LastShown
  <2>1. \A m \in Reacted : chain[m] = <<>> /\ \A s \in Senders : last[m][s] = 0
    BY DEF Init, NoReactions
  <2>2. Len(<<>>) = 0
    OBVIOUS
  <2>3. Queued
    BY <2>1, <2>2 DEF Queued, Orderly
  <2>4. LastShown
    BY <2>1 DEF LastShown
  <2> QED BY <2>3, <2>4
<1>9. AckInv
  BY <1>1, <1>4 DEF Init, AckInv, AckedSends, AckedRows, Waiting, Messages
<1> QED BY <1>2, <1>3, <1>5, <1>6, <1>7, <1>8, <1>9 DEF ReactInv

\* What holds however the constants are chosen.
StoreInv ==
  Typed /\ ApplyingLinked /\ Counted /\ Rest /\ Chains /\ Firings /\ FailedInv /\ FollowInv /\ ReactInv

LEMMA StoreInvInit == Init => StoreInv
BY InvInit, InitFacts DEF Inv, StoreInv

LEMMA StoreInvNext == StoreInv /\ [Next]_vars => StoreInv'
<1> SUFFICES ASSUME StoreInv, [Next]_vars PROVE StoreInv'
  OBVIOUS
<1>1. Typed' /\ ApplyingLinked' /\ Counted'
  BY InvNext DEF Inv, StoreInv
<1>2. Rest' /\ Chains' /\ Firings' /\ Grows
  BY RestNext DEF StoreInv, ReactInv
<1>3. FailedInv'
  BY <1>2, FailedNext DEF StoreInv
<1>4. FollowInv'
  BY <1>2, FollowNext DEF StoreInv
<1>5. OneWriter' /\ Queued'
  BY QueueNext DEF StoreInv, ReactInv
<1>6. OneRow' /\ ReadFresh' /\ LastShown'
  BY <1>2, OneRowNext, ReadFreshNext, LastShownNext DEF StoreInv, ReactInv
<1> QED BY <1>1, <1>2, <1>3, <1>4, <1>5, <1>6 DEF StoreInv, ReactInv

\* A message that is fired is dispatched, and once, whatever history batches, duplicates,
\* failing inserts and deletions it races: its row is never there without its dispatch, or
\* what stands for it.
THEOREM DispatchedAndOnce == Spec => []InboundOnce
<1>1. StoreInv => NotDropped
  <2> SUFFICES ASSUME StoreInv, NEW i \in Incoming, fired[i] > 0,
                      hooks[i] + inserting[i] + due[i] = 0, i \notin stopped,
                      i \in Historic => history[i] = "none"
               PROVE  dispatched[i] > 0
    BY DEF NotDropped
  <2>1. /\ hooks[i] \in Nat /\ inserting[i] \in Nat /\ due[i] \in Nat /\ dispatched[i] \in Nat
    BY DEF StoreInv, Firings, StoreCounts
  <2>2. hooks[i] + inserting[i] = 0 /\ due[i] = 0
    BY <2>1
  <2>3. Explained(i)
    BY <2>2 DEF StoreInv, FollowInv, FiredExplained
  <2> QED BY <2>1, <2>2, <2>3 DEF Explained
<1>2. Spec => []NotDropped
  BY <1>1, StoreInvInit, StoreInvNext, PTL DEF Spec
<1> QED BY <1>2, DispatchedAtMostOnce, PTL DEF InboundOnce

\* The state is of its type: in particular the reactions under way hold entities of the
\* table, and nothing exceeds its bound.
THEOREM TypeCorrect == Spec => []TypeOK
<1>1. StoreInv => TypeOK
  <2> SUFFICES ASSUME StoreInv PROVE TypeOK
    OBVIOUS
  <2>1. Fires \in Nat
    BY StoreAssumption
  <2>2. ASSUME NEW i \in Incoming
        PROVE  /\ fired[i] \in 0..Fires /\ hooks[i] \in 0..Fires
               /\ inserting[i] \in 0..Fires /\ due[i] \in 0..Fires
               /\ dispatched[i] \in 0..Fires /\ unsaved[i] \in 0..Fires
    BY <2>1 DEF StoreInv, Firings, StoreCounts, TakenOn
  <2>3. /\ fired \in [Incoming -> 0..Fires] /\ hooks \in [Incoming -> 0..Fires]
        /\ inserting \in [Incoming -> 0..Fires] /\ due \in [Incoming -> 0..Fires]
        /\ dispatched \in [Incoming -> 0..Fires] /\ unsaved \in [Incoming -> 0..Fires]
    BY <2>2 DEF StoreInv, Firings, StoreCounts
  <2> QED BY <2>3 DEF StoreInv, Typed, Rest, Chains, TypeOK
<1> QED BY <1>1, StoreInvInit, StoreInvNext, PTL DEF Spec

\* No message is stored as failed that was not refused by its engine or by a receipt: a
\* failing save does not make it so, nor does a reaction that writes an older row back.
THEOREM FailedIsHonest == Spec => []FailedHonest
<1>1. StoreInv => FailedHonest
  BY DEF StoreInv, FailedInv, FailedRows, SaidFailed, FailedHonest
<1> QED BY <1>1, StoreInvInit, StoreInvNext, PTL DEF Spec

\* No reaction is lost to another: they are chained, so that the row each reads has the
\* reactions before it, and no other write of a row touches its reactions.
THEOREM NoReactionLost == Spec => []ReactionsKept
<1>1. StoreInv => ReactionsKept
  <2> SUFFICES ASSUME StoreInv, NEW m \in Reacted, chain[m] = <<>>, ~deleted, NEW s \in Senders,
                      last[m][s] > 0, [to |-> m, by |-> s, nr |-> last[m][s]] \notin excused
               PROVE  \E k \in Known(m) : row[k].reacted[s] = last[m][s]
    BY DEF ReactionsKept
  <2>1. PICK n \in 1..PerSender : n = last[m][s]
    BY StoreAssumption DEF StoreInv, Chains
  <2>2. Shows(m, s, n)
    BY <2>1 DEF StoreInv, ReactInv, LastShown, NrOf
  <2>3. ~Has(chain[m], NrOf(m, s, n))
    BY DEF Has
  <2> QED BY <2>1, <2>2, <2>3 DEF Shows
<1> QED BY <1>1, StoreInvInit, StoreInvNext, PTL DEF Spec

\* A receipt that comes before the row it is about is saved is tried again, so that no
\* receipt is lost to the send it races, or to another receipt, unless its UPDATE rejects,
\* its second try comes before the row as well, or a reaction writes an older row back.
THEOREM ReceiptsLand == Spec => []AckLands
<1> DEFINE SInv == StoreInv /\ AckInv
<1>1. Init => SInv
  BY StoreInvInit, InitFacts
<1>2. SInv /\ [Next]_vars => SInv'
  <2> SUFFICES ASSUME SInv, [Next]_vars PROVE SInv'
    OBVIOUS
  <2>1. StoreInv' /\ Grows
    BY StoreInvNext, RestNext DEF StoreInv, ReactInv
  <2>2. AckInv'
    BY <2>1, AckNext DEF StoreInv, ReactInv, FailedInv
  <2> QED BY <2>1, <2>2
<1>3. SInv => AckLands
  <2> SUFFICES ASSUME SInv, NEW o \in Outgoing, o \notin lost, NEW k \in Known(o),
                      {o} \X Receipts \intersect retry = {}, receipts[o] # {}, ~deleted
               PROVE  /\ row[k].status \in receipts[o]
                      /\ "read" \in receipts[o] /\ "failed" \notin receipts[o] => row[k].status = "read"
    BY DEF AckLands
  <2>1. k \in Keys
    BY KeysOf DEF Messages
  <2>2. Acked(o, row[k].status)
    BY <2>1 DEF AckInv, AckedRows
  <2>3. receipts[o] \subseteq Receipts
    BY DEF StoreInv, Rest
  <2>4. \A st \in receipts[o] : <<o, st>> \notin retry
    BY <2>3
  <2>5. ~Waiting(o)
    BY <2>4 DEF Waiting
  <2>6. row[k].status \in receipts[o]
    BY <2>2, <2>5 DEF Acked
  <2>7. "read" \in receipts[o] /\ "failed" \notin receipts[o] => row[k].status = "read"
    BY <2>2, <2>4, <2>6 DEF Acked
  <2> QED BY <2>6, <2>7
<1> HIDE DEF SInv
<1> QED BY <1>1, <1>2, <1>3, PTL DEF Spec

\* What became of a message can be read from its row, but for the receipts and reactions
\* that lost and excused name.
THEOREM RowsTellTheOutcome == Spec => []OutcomeShown
  BY TypeCorrect, ReceiptsLand, FailedIsHonest, NoReactionLost, PTL DEF OutcomeShown
=============================================================================
