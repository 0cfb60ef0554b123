---------------------------- MODULE SendingProofs ----------------------------
(***************************************************************************)
(* Theorems about what is sent in bulk and what the chat page shows.       *)
(*                                                                         *)
(* BulkBatch: for any batches, sizes, cadences, caps and cancel requests,  *)
(* of any replica and at any time, a PENDING batch included, with failing  *)
(* saves, a deletion and restarts.                                         *)
(*                                                                         *)
(* ChatView: for any sessions, chats, messages and requests, with events   *)
(* that are lost, late or out of order, a cache that lets go of threads    *)
(* and fetches that fail.                                                  *)
(***************************************************************************)
EXTENDS BulkBatch, ChatView, SequenceTheorems, FiniteSetTheorems,
        NaturalsInduction, WellFoundedInduction, TLAPS

-----------------------------------------------------------------------------
(***************************************************************************)
(* Bulk sending.                                                           *)
(***************************************************************************)

HasCancel(b) == \E c \in Cancels : cancel[c].pc = "done" /\ cancel[c].batch = b

\* A batch whose counters are consistent.
Honest(r) ==
  /\ r \in Batch
  /\ r.pending \in 0..Total
  /\ r.sent + r.failed + r.pending + r.cancelled = Total

\* A batch before its executor: only a cancel has touched it.
Fresh(b, r) == r \in {NoRow, New} \/ (r = Cancelled(New) /\ HasCancel(b))

\* A batch, its executor and its row.  An executor that has written over a cancel may count
\* from the cancelled counters; what it tried is counted all the same.
BatchInv(b) ==
  /\ row[b] # NoRow =>
       /\ ~Overridden(b) => Honest(row[b]) /\ (row[b].status # "cancelled" => row[b].cancelled = 0)
       /\ row[b].status = "completed" =>
            /\ pc[b] \in {"none", "finishing"}
            /\ row[b].sent + row[b].failed = Total /\ row[b].sent = delivered[b]
  /\ delivered[b] \in 0..Total
  /\ row[b] = NoRow /\ ~deleted => pc[b] = "none" /\ delivered[b] = 0
  /\ pc[b] \in {"saved", "loading"} => Fresh(b, row[b]) /\ delivered[b] = 0 /\ ~Overridden(b)
  /\ pc[b] = "loading" => Fresh(b, mem[b])
  /\ pc[b] \in Running =>
       /\ mem[b] \in Batch /\ mem[b].sent = delivered[b] /\ flag[b] \in {"run", "stop"}
       /\ ~Overridden(b) => Honest(mem[b])
  /\ pc[b] \in {"starting", "loop", "sending", "cadence"} =>
       /\ mem[b].status = "processing"
       /\ mem[b].sent + mem[b].failed = mem[b].index
       /\ mem[b].pending \in {Total - mem[b].index, -mem[b].index}
       /\ ~Overridden(b) => mem[b].cancelled = 0
  /\ pc[b] = "sending" => mem[b].index < Total
  /\ row[b] # NoRow /\ row[b].status = "processing" =>
       pc[b] \in Running \ {"finishing"} \/ interrupted[b] = "fault"
  /\ pc[b] = "final" =>
       /\ ~Overridden(b) => mem[b].cancelled = 0
       /\ flag[b] = "run" /\ mem[b].status # "failed" => mem[b].sent + mem[b].failed = Total

\* A cancel request holds a batch that could still be cancelled when it was read.
RequestInv(c) ==
  /\ cancel[c].pc \in {"read", "done"} =>
       cancel[c].batch \in Batches /\ (row[cancel[c].batch] # NoRow \/ deleted)
  /\ cancel[c].pc = "read" =>
       /\ cancel[c].snap \in Batch
       /\ ~Overridden(cancel[c].batch) => Honest(cancel[c].snap) /\ cancel[c].snap.cancelled = 0
       /\ pc[cancel[c].batch] \in {"saved", "loading"} => cancel[c].snap = New
  /\ c \in overridden => cancel[c].pc = "done"

Request == [pc : {"idle", "read", "done", "failed"}, batch : Batches \union {NoRow},
            snap : Batch \union {NoRow}]
Typed ==
  /\ row \in [Batches -> Batch \union {NoRow}]
  /\ flag \in [Batches -> {"none", "run", "stop"}]
  /\ pc \in [Batches -> Places]
  /\ mem \in [Batches -> Batch \union {NoRow}]
  /\ seen \in [Batches -> BatchStatus \union {NoRow}]
  /\ cancel \in [Cancels -> Request]
  /\ \A c \in Cancels : cancel[c].batch = NoRow <=> cancel[c].pc \in {"idle", "failed"}
  /\ delivered \in [Batches -> Nat]
  /\ deleted \in BOOLEAN
  /\ interrupted \in [Batches -> {"no", "boot", "fault"}]
  /\ overridden \subseteq Cancels

Inv ==
  /\ Typed
  /\ \A b \in Batches : BatchInv(b)
  /\ \A c \in Cancels : RequestInv(c)

LEMMA Sizes == Total \in Nat /\ Total > 0 /\ Cadence \in Nat /\ Cadence > 0 /\ NoRow \notin Batch
  BY BulkAssumption, NoRowAssumption

LEMMA NewIsHonest ==
  Honest(New) /\ New.cancelled = 0 /\ New # NoRow /\ New \in Batch /\ New.status = "pending"
  /\ New.sent = 0 /\ New.failed = 0 /\ New.index = 0 /\ New.pending = Total
  BY Sizes DEF Honest, New, Batch, BatchStatus

LEMMA CancelledIs ==
  ASSUME NEW r \in Batch
  PROVE  /\ Cancelled(r) \in Batch /\ Cancelled(r) # NoRow
         /\ Cancelled(r).status = "cancelled" /\ Cancelled(r).sent = r.sent
         /\ Cancelled(r).failed = r.failed /\ Cancelled(r).cancelled = r.pending
         /\ Cancelled(r).pending = 0 /\ Cancelled(r).index = r.index
<1>1. Cancelled(r) = [r EXCEPT !.status = "cancelled", !.cancelled = r.pending, !.pending = 0]
  BY DEF Cancelled
<1>2. 0 \in -Total..Total /\ "cancelled" \in BatchStatus
  BY Sizes DEF BatchStatus
<1>3. Cancelled(r) \in Batch
  BY <1>1, <1>2 DEF Batch
<1> QED BY <1>1, <1>3, Sizes DEF Batch

LEMMA CancelledIsHonest ==
  ASSUME NEW r, Honest(r), r.cancelled = 0
  PROVE  Honest(Cancelled(r))
<1>0. r \in Batch /\ r.pending \in 0..Total /\ r.sent + r.failed + r.pending + r.cancelled = Total
  BY DEF Honest
<1>1. /\ r \in Batch /\ r.pending \in 0..Total /\ r.sent \in 0..Total /\ r.failed \in 0..Total
      /\ r.sent + r.failed + r.pending = Total
  BY <1>0, Sizes DEF Batch
<1> QED BY <1>1, CancelledIs, Sizes DEF Honest

-----------------------------------------------------------------------------
\* Answered cancels stay answered, and what was written over stays so.
LEMMA OverriddenStays ==
  ASSUME Inv, UNCHANGED overridden,
         \A c \in Cancels : cancel[c].pc = "done" => cancel'[c] = cancel[c]
  PROVE  \A b \in Batches : (Overridden(b)' <=> Overridden(b)) /\ (HasCancel(b) => HasCancel(b)')
<1>1. \A c \in overridden : c \in Cancels /\ cancel'[c] = cancel[c]
  BY DEF Inv, Typed, RequestInv
<1>2. \A b \in Batches : Overridden(b)' <=> Overridden(b)
  BY <1>1 DEF Overridden
<1>3. \A b \in Batches : HasCancel(b) => HasCancel(b)'
  BY DEF HasCancel
<1> QED BY <1>2, <1>3

\* What a step of the executor of b must establish: the other batches do not notice it,
\* and a cancel request only looks at the places before the batch is loaded.

LEMMA ExecutorMoves ==
  ASSUME Inv, Typed', NEW b \in Batches, UNCHANGED <<cancel, deleted>>,
         \A a \in Batches \ {b} :
           /\ row'[a] = row[a] /\ pc'[a] = pc[a] /\ mem'[a] = mem[a]
           /\ flag'[a] = flag[a] /\ delivered'[a] = delivered[a] /\ interrupted'[a] = interrupted[a],
         UNCHANGED overridden,
         pc'[b] \in {"saved", "loading"} => pc[b] \in {"saved", "loading"},
         row[b] # NoRow => row'[b] # NoRow,
         BatchInv(b)'
  PROVE  Inv'
<1>0. \A a \in Batches : (Overridden(a)' <=> Overridden(a)) /\ (HasCancel(a) => HasCancel(a)')
  BY OverriddenStays
<1>1. ASSUME NEW a \in Batches
      PROVE  BatchInv(a)'
  <2>1. CASE a = b
    BY <2>1
  <2>2. CASE a # b
    <3>1. BatchInv(a)
      BY DEF Inv
    <3> QED BY <1>0, <2>2, <3>1 DEF BatchInv, Honest, Fresh
  <2> QED BY <2>1, <2>2
<1>2. ASSUME NEW c \in Cancels
      PROVE  RequestInv(c)'
  <2>1. RequestInv(c) /\ cancel'[c] = cancel[c]
    BY DEF Inv
  <2>2. ASSUME NEW a \in Batches PROVE row[a] # NoRow => row'[a] # NoRow
    BY DEF Inv
  <2>3. ASSUME NEW a \in Batches PROVE pc'[a] \in {"saved", "loading"} => pc[a] \in {"saved", "loading"}
    BY DEF Inv
  <2> QED BY <1>0, <2>1, <2>2, <2>3 DEF RequestInv, Honest
<1> QED BY <1>1, <1>2 DEF Inv

\* A save that rejects: the row is left as it was, and the executor ends.
LEMMA RejectMoves ==
  ASSUME Inv, Typed', NEW b \in Batches, SaveRejects(b), pc[b] \in Running,
         UNCHANGED <<cancel, delivered, deleted, overridden>>
  PROVE  Inv'
<1>1. Typed /\ BatchInv(b)
  BY DEF Inv
<1>3. mem'[b] = NoRow /\ pc'[b] = "none" /\ interrupted'[b] = "fault"
  BY <1>1 DEF Typed, SaveRejects, Goto
<1>4. Overridden(b)' <=> Overridden(b)
  BY OverriddenStays
<1>5. pc[b] \notin {"saved", "loading", "none"}
  BY DEF Running
<1>6. BatchInv(b)'
  BY <1>1, <1>3, <1>4, <1>5 DEF SaveRejects, BatchInv, Running, Places, Honest
<1> QED BY <1>1, <1>3, <1>6, ExecutorMoves DEF Typed, SaveRejects, Goto, Release

\* Save: the row and the memory become r, or the executor ends.
LEMMA SaveMoves ==
  ASSUME Inv, NEW b \in Batches, NEW r \in Batch, NEW place \in {"loop", "finishing"},
         Save(b, r, place), pc[b] \in Running, r.sent = delivered[b],
         UNCHANGED <<cancel, delivered, deleted, overridden>>, seen' = [seen EXCEPT ![b] = NoRow],
         ~Overridden(b) => Honest(r) /\ (r.status # "cancelled" => r.cancelled = 0),
         r.status = "completed" => place = "finishing" /\ r.sent + r.failed = Total,
         place = "finishing" => r.status # "processing",
         place = "loop" =>
           /\ r.status = "processing" /\ r.sent + r.failed = r.index
           /\ r.pending \in {Total - r.index, -r.index}
  PROVE  Inv'
<1>1. Typed /\ BatchInv(b) /\ r \in Batch /\ r # NoRow
  BY Sizes DEF Inv
<1>2. CASE /\ row' = [row EXCEPT ![b] = r]
           /\ mem' = [mem EXCEPT ![b] = r]
           /\ Goto(b, place)
           /\ UNCHANGED <<flag, inFlight, interrupted>>
  <2>1. Typed'
    BY <1>1, <1>2 DEF Typed, Goto, Places
  <2>2. row'[b] = r /\ mem'[b] = r /\ pc'[b] = place
    BY <1>1, <1>2 DEF Typed, Goto
  <2>3. Overridden(b)' <=> Overridden(b)
    BY OverriddenStays
  <2>4. BatchInv(b)'
    BY <1>1, <1>2, <2>2, <2>3 DEF BatchInv, Running, Places, Honest
  <2> QED BY <1>1, <1>2, <2>1, <2>2, <2>4, ExecutorMoves DEF Typed, Goto
<1>3. CASE SaveRejects(b)
  <2>1. Typed'
    BY <1>1, <1>3 DEF Typed, SaveRejects, Goto, Places, Release
  <2> QED BY <1>3, <2>1, RejectMoves
<1> QED BY <1>2, <1>3 DEF Save

LEMMA FinalizedIsHonest ==
  ASSUME Inv, NEW b \in Batches,
         pc[b] = "final" \/ (pc[b] = "cadence" /\ WasCancelled(b))
  PROVE  /\ Finalized(b) \in Batch /\ Finalized(b).sent = delivered[b]
         /\ ~Overridden(b) =>
              /\ Honest(Finalized(b))
              /\ Finalized(b).status # "cancelled" => Finalized(b).cancelled = 0
         /\ Finalized(b).status = "completed" => Finalized(b).sent + Finalized(b).failed = Total
         /\ Finalized(b).status # "processing"
<1>1. /\ BatchInv(b) /\ mem[b] \in Batch /\ mem[b].sent = delivered[b] /\ flag[b] \in {"run", "stop"}
      /\ ~Overridden(b) => Honest(mem[b]) /\ mem[b].cancelled = 0
  BY DEF Inv, BatchInv, Running, Places
<1>2. CASE WasCancelled(b)
  <2>1. Finalized(b) = [Cancelled(mem[b]) EXCEPT !.status = "cancelled"]
    BY <1>2 DEF Finalized, FinalStatus
  <2>2. Finalized(b) = Cancelled(mem[b])
    BY <1>1, <2>1, CancelledIs DEF Batch
  <2> QED BY <1>1, <2>2, CancelledIs, CancelledIsHonest
<1>3. CASE ~WasCancelled(b)
  <2>1. PICK st \in {"failed", "completed"} :
          /\ Finalized(b) = [mem[b] EXCEPT !.status = st]
          /\ st = "completed" => mem[b].status # "failed"
    BY <1>3 DEF Finalized, FinalStatus
  <2>2. flag[b] = "run" /\ pc[b] = "final"
    BY <1>1, <1>3 DEF WasCancelled
  <2>3. [mem[b] EXCEPT !.status = st] \in Batch
    BY <1>1 DEF Batch, BatchStatus
  <2>4. /\ Finalized(b).sent = mem[b].sent /\ Finalized(b).failed = mem[b].failed
        /\ Finalized(b).pending = mem[b].pending /\ Finalized(b).cancelled = mem[b].cancelled
        /\ Finalized(b).status = st
    BY <1>1, <2>1 DEF Batch
  <2> QED BY <1>1, <2>1, <2>2, <2>3, <2>4 DEF BatchInv, Honest
<1> QED BY <1>2, <1>3

LEMMA Finalizes ==
  ASSUME Inv, NEW b \in Batches, SaveProgress(b) \/ FinalSave(b)
  PROVE  Inv'
<1>1. BatchInv(b)
  BY DEF Inv
<1>3. CASE /\ pc[b] = "final" \/ (pc[b] = "cadence" /\ WasCancelled(b))
           /\ Save(b, Finalized(b), "finishing") /\ seen' = [seen EXCEPT ![b] = NoRow]
           /\ UNCHANGED <<cancel, delivered, deleted, overridden>>
  <2>1. pc[b] \in Running
    BY <1>3 DEF Running, Places
  <2> QED BY <1>3, <2>1, FinalizedIsHonest, SaveMoves
<1>4. CASE /\ pc[b] = "cadence" /\ Save(b, mem[b], "loop") /\ seen' = [seen EXCEPT ![b] = NoRow]
           /\ UNCHANGED <<cancel, delivered, deleted, overridden>>
  <2>1. pc[b] \in Running
    BY <1>4 DEF Running, Places
  <2> QED BY <1>1, <1>4, <2>1, SaveMoves DEF BatchInv
<1> QED BY <1>3, <1>4 DEF SaveProgress, FinalSave, WasCancelled

LEMMA CreateKeepsInv ==
  ASSUME Inv, NEW b \in Batches, CreateBatch(b)
  PROVE  Inv'
<1>1. Typed /\ BatchInv(b) /\ row[b] = NoRow /\ ~deleted
  BY DEF Inv, CreateBatch
<1>2. row'[b] = New /\ pc'[b] = "saved"
  BY <1>1 DEF Typed, CreateBatch, Goto
<1>3. Typed'
  BY <1>1, NewIsHonest DEF Typed, CreateBatch, Goto, Places
<1>0. \A a \in Batches : (Overridden(a)' <=> Overridden(a)) /\ (HasCancel(a) => HasCancel(a)')
  BY OverriddenStays DEF CreateBatch
<1>4. BatchInv(b)'
  <2>1. ~Overridden(b)
    BY <1>1 DEF Inv, Typed, RequestInv, Overridden
  <2> QED BY <1>0, <1>1, <1>2, <2>1, NewIsHonest DEF BatchInv, CreateBatch, Running, Places, Fresh
<1>5. ASSUME NEW a \in Batches, a # b
      PROVE  BatchInv(a)'
  <2>1. BatchInv(a) /\ row'[a] = row[a] /\ pc'[a] = pc[a]
    BY <1>1, <1>5 DEF Inv, Typed, CreateBatch, Goto
  <2> QED BY <1>0, <2>1 DEF BatchInv, Honest, Fresh, CreateBatch
<1>6. ASSUME NEW c \in Cancels
      PROVE  RequestInv(c)'
  <2>1. RequestInv(c)
    BY DEF Inv
  <2>2. cancel[c].pc \in {"read", "done"} => cancel[c].batch # b
    BY <1>1, <2>1 DEF RequestInv
  <2>3. \A a \in Batches \ {b} : row'[a] = row[a] /\ pc'[a] = pc[a]
    BY <1>1 DEF CreateBatch, Typed, Goto
  <2> QED BY <1>0, <2>1, <2>2, <2>3 DEF RequestInv, Honest, CreateBatch
<1> QED BY <1>3, <1>4, <1>5, <1>6 DEF Inv

\* The executor takes a batch over: it and its row are PROCESSING, with the counters that
\* were loaded, and the cancels answered before are written over.
LEMMA TakesOver ==
  ASSUME Inv, NEW b \in Batches, pc[b] = "loading", mem[b] # NoRow,
         flag' = [flag EXCEPT ![b] = "run"],
         row' = [row EXCEPT ![b] = [mem[b] EXCEPT !.status = "processing"]],
         mem' = [mem EXCEPT ![b].status = "processing"],
         Goto(b, "starting"),
         overridden' = overridden \union {c \in Cancels : cancel[c].pc = "done" /\ cancel[c].batch = b},
         UNCHANGED <<interrupted, seen, cancel, delivered, deleted>>
  PROVE  Inv'
<1> DEFINE r == [mem[b] EXCEPT !.status = "processing"]
<1>1. Typed /\ BatchInv(b)
  BY DEF Inv
<1>2. mem[b] = New \/ (mem[b] = Cancelled(New) /\ HasCancel(b))
  BY <1>1 DEF BatchInv, Fresh
<1>3. /\ mem[b] \in Batch /\ mem[b].sent = 0 /\ mem[b].failed = 0 /\ mem[b].index = 0
      /\ mem[b].pending \in {Total, 0}
      /\ ~HasCancel(b) => mem[b].cancelled = 0 /\ mem[b].pending = Total
  BY <1>2, NewIsHonest, CancelledIs
<1>4. /\ r \in Batch /\ r.sent = 0 /\ r.failed = 0 /\ r.index = 0 /\ r.pending \in {Total, 0}
      /\ r.status = "processing" /\ r # NoRow
      /\ ~HasCancel(b) => r.cancelled = 0 /\ Honest(r)
  BY <1>3, Sizes DEF Batch, BatchStatus, Honest
<1>5. row' = [row EXCEPT ![b] = r] /\ mem' = [mem EXCEPT ![b] = r]
  OBVIOUS
<1> HIDE DEF r
<1>6. /\ row'[b] = r /\ mem'[b] = r /\ pc'[b] = "starting" /\ flag'[b] = "run"
      /\ \A a \in Batches \ {b} : /\ row'[a] = row[a] /\ pc'[a] = pc[a] /\ mem'[a] = mem[a]
                                  /\ flag'[a] = flag[a]
  BY <1>1, <1>5 DEF Typed, Goto
<1>7. Typed'
  <2>1. row' \in [Batches -> Batch \union {NoRow}] /\ mem' \in [Batches -> Batch \union {NoRow}]
    BY <1>1, <1>4, <1>5 DEF Typed
  <2>2. pc' \in [Batches -> Places] /\ flag' \in [Batches -> {"none", "run", "stop"}]
    BY <1>1 DEF Typed, Goto, Places
  <2> QED BY <1>1, <2>1, <2>2 DEF Typed
<1>8. /\ \A a \in Batches : HasCancel(a)' <=> HasCancel(a)
      /\ HasCancel(b) => Overridden(b)'
      /\ \A a \in Batches \ {b} : Overridden(a)' <=> Overridden(a)
      /\ \A a \in Batches : Overridden(a) => Overridden(a)'
  <2>1. \A a \in Batches : HasCancel(a)' <=> HasCancel(a)
    BY DEF HasCancel
  <2>2. HasCancel(b) => Overridden(b)'
    BY DEF HasCancel, Overridden
  <2>3. \A a \in Batches \ {b} : Overridden(a)' <=> Overridden(a)
    BY DEF Overridden
  <2>4. \A a \in Batches : Overridden(a) => Overridden(a)'
    BY DEF Overridden
  <2> QED BY <2>1, <2>2, <2>3, <2>4
<1>9. ASSUME NEW a \in Batches
      PROVE  BatchInv(a)'
  <2>1. CASE a = b
    <3>1. delivered'[b] = 0
      BY <1>1 DEF BatchInv
    <3>2. ~Overridden(b)' => Honest(r) /\ r.cancelled = 0
      BY <1>4, <1>8
    <3>3. \/ r.pending = Total - r.index
          \/ r.pending = -r.index
      BY <1>4, Sizes
    <3>4. r.sent + r.failed = r.index /\ r.pending \in {Total - r.index, -r.index}
      BY <1>4, <3>3
    <3>5. delivered'[b] \in 0..Total
      BY <3>1, Sizes
    <3>6. BatchInv(b)'
      BY <1>4, <1>6, <3>1, <3>2, <3>4, <3>5 DEF BatchInv, Running, Places, Honest
    <3> QED BY <2>1, <3>6
  <2>2. CASE a # b
    <3>1. BatchInv(a)
      BY DEF Inv
    <3> QED BY <1>6, <1>8, <2>2, <3>1 DEF BatchInv, Honest, Fresh
  <2> QED BY <2>1, <2>2
<1>10. ASSUME NEW c \in Cancels
       PROVE  RequestInv(c)'
  <2>1. RequestInv(c)
    BY DEF Inv
  <2>2. \A a \in Batches : /\ row[a] # NoRow => row'[a] # NoRow
                           /\ pc'[a] \in {"saved", "loading"} => pc[a] \in {"saved", "loading"}
    BY <1>4, <1>6
  <2> QED BY <1>8, <2>1, <2>2 DEF RequestInv, Honest
<1> QED BY <1>7, <1>9, <1>10 DEF Inv

LEMMA StartKeepsInv ==
  ASSUME Inv, NEW b \in Batches,
         ProcessLoads(b) \/ ProcessBatch(b) \/ ExecuteBatch(b) \/ Finish(b)
  PROVE  Inv'
<1>1. Typed /\ BatchInv(b)
  BY DEF Inv
<1>0. UNCHANGED <<overridden, cancel>> =>
        \A a \in Batches : (Overridden(a)' <=> Overridden(a)) /\ (HasCancel(a) => HasCancel(a)')
  BY OverriddenStays
<1>2. CASE ProcessLoads(b)
  <2>1. Typed'
    BY <1>1, <1>2 DEF Typed, ProcessLoads, Goto, Places
  <2>2. mem'[b] = row[b] /\ pc'[b] = "loading" /\ pc[b] = "saved"
    BY <1>1, <1>2 DEF Typed, ProcessLoads, Goto
  <2>3. BatchInv(b)'
    BY <1>0, <1>1, <1>2, <2>2 DEF BatchInv, ProcessLoads, Running, Places, Honest, Fresh
  <2> QED BY <1>1, <1>2, <2>1, <2>2, <2>3, ExecutorMoves DEF Typed, ProcessLoads, Goto
<1>3. CASE ProcessBatch(b)
  <2>1. CASE /\ Goto(b, "none") /\ UNCHANGED <<row, overridden>>
             /\ \/ UNCHANGED <<flag, mem, interrupted>>
                \/ /\ mem' = [mem EXCEPT ![b] = NoRow] /\ flag' = [flag EXCEPT ![b] = "none"]
                   /\ interrupted' = [interrupted EXCEPT ![b] = "fault"]
    <3>1. Typed'
      BY <1>1, <1>3, <2>1 DEF Typed, ProcessBatch, Goto, Places
    <3>2. pc'[b] = "none" /\ pc[b] = "loading"
      BY <1>1, <1>3, <2>1 DEF Typed, ProcessBatch, Goto
    <3>3. interrupted[b] = "fault" => interrupted'[b] = "fault"
      BY <1>1, <2>1 DEF Typed
    <3>4. UNCHANGED <<cancel, delivered, deleted>>
      BY <1>3 DEF ProcessBatch
    <3>5. row[b] # NoRow => row[b].status # "processing"
      BY <1>1, <3>2, NewIsHonest, CancelledIs DEF BatchInv, Fresh
    <3>6. BatchInv(b)'
      BY <1>0, <1>1, <2>1, <3>2, <3>3, <3>4, <3>5 DEF BatchInv, Running, Places, Honest
    <3> QED BY <1>1, <2>1, <3>1, <3>2, <3>4, <3>6, ExecutorMoves DEF Typed, Goto
  <2>2. CASE /\ mem[b] # NoRow
             /\ flag' = [flag EXCEPT ![b] = "run"]
             /\ row' = [row EXCEPT ![b] = [mem[b] EXCEPT !.status = "processing"]]
             /\ mem' = [mem EXCEPT ![b].status = "processing"]
             /\ Goto(b, "starting")
             /\ overridden' = overridden \union {c \in Cancels : cancel[c].pc = "done" /\ cancel[c].batch = b}
             /\ UNCHANGED interrupted
    BY <1>3, <2>2, TakesOver DEF ProcessBatch
  <2> QED BY <1>3, <2>1, <2>2 DEF ProcessBatch
<1>4. CASE ExecuteBatch(b)
  <2>0. pc[b] = "starting" /\ pc[b] \in Running /\ UNCHANGED <<cancel, overridden, delivered, deleted>>
    BY <1>4 DEF ExecuteBatch, Running, Places
  <2>1. CASE Goto(b, "loop") /\ UNCHANGED <<row, flag, inFlight, mem, interrupted>>
    <3>1. Typed'
      BY <1>1, <1>4, <2>1 DEF Typed, ExecuteBatch, Goto, Places
    <3>2. pc'[b] = "loop"
      BY <1>1, <2>1 DEF Typed, Goto
    <3>3. BatchInv(b)'
      BY <1>0, <1>1, <1>4, <2>0, <2>1, <3>2 DEF BatchInv, ExecuteBatch, Running, Places, Honest
    <3> QED BY <1>1, <1>4, <2>1, <3>1, <3>2, <3>3, ExecutorMoves DEF Typed, ExecuteBatch, Goto
  <2>2. CASE /\ row' = [row EXCEPT ![b] = [mem[b] EXCEPT !.status = "failed"]]
             /\ mem' = [mem EXCEPT ![b].status = "failed"]
             /\ Goto(b, "finishing")
             /\ interrupted' = [interrupted EXCEPT ![b] = "fault"]
             /\ UNCHANGED <<flag, inFlight>>
    <3> DEFINE r == [mem[b] EXCEPT !.status = "failed"]
    <3>1. /\ mem[b] \in Batch /\ mem[b].sent = delivered[b]
          /\ ~Overridden(b) => Honest(mem[b]) /\ mem[b].cancelled = 0
      BY <1>1, <2>0 DEF BatchInv
    <3>2. /\ r \in Batch /\ r.sent = delivered[b] /\ r.status = "failed" /\ r # NoRow
          /\ ~Overridden(b) => Honest(r) /\ r.cancelled = 0
      BY <3>1, Sizes DEF Honest, Batch, BatchStatus
    <3>3. row' = [row EXCEPT ![b] = r] /\ mem' = [mem EXCEPT ![b] = r]
      BY <2>2
    <3> HIDE DEF r
    <3>4. row'[b] = r /\ mem'[b] = r /\ pc'[b] = "finishing" /\ interrupted'[b] = "fault"
      BY <1>1, <2>2, <3>3 DEF Typed, Goto
    <3>5. Typed'
      BY <1>1, <1>4, <2>2, <3>2, <3>3 DEF Typed, ExecuteBatch, Goto, Places
    <3>6. BatchInv(b)'
      BY <1>0, <1>1, <2>0, <2>2, <3>2, <3>4 DEF BatchInv, Running, Places, Honest
    <3> QED BY <1>1, <2>0, <2>2, <3>2, <3>3, <3>4, <3>5, <3>6, ExecutorMoves DEF Typed, Goto
  <2>3. CASE SaveRejects(b)
    <3>1. Typed'
      BY <1>1, <1>4, <2>3 DEF Typed, ExecuteBatch, SaveRejects, Goto, Places, Release
    <3> QED BY <2>0, <2>3, <3>1, RejectMoves
  <2> QED BY <1>4, <2>1, <2>2, <2>3 DEF ExecuteBatch
<1>5. CASE Finish(b)
  <2>1. Typed'
    BY <1>1, <1>5 DEF Typed, Finish, Goto, Places, Release
  <2>2. pc'[b] = "none" /\ pc[b] = "finishing"
    BY <1>1, <1>5 DEF Typed, Finish, Goto
  <2>3. BatchInv(b)'
    BY <1>0, <1>1, <1>5, <2>2 DEF BatchInv, Finish, Running, Places, Honest
  <2> QED BY <1>1, <1>5, <2>1, <2>2, <2>3, ExecutorMoves DEF Typed, Finish, Goto, Release
<1> QED BY <1>2, <1>3, <1>4, <1>5

LEMMA LoopKeepsInv ==
  ASSUME Inv, NEW b \in Batches, SendNext(b) \/ LoopEnds(b)
  PROVE  Inv'
<1>1. Typed /\ BatchInv(b)
  BY DEF Inv
<1>0. Overridden(b)' <=> Overridden(b)
  BY OverriddenStays DEF SendNext, LoopEnds
<1>2. CASE SendNext(b)
  <2>1. Typed'
    BY <1>1, <1>2 DEF Typed, SendNext, Goto, Places
  <2>2. pc'[b] = "sending"
    BY <1>1, <1>2 DEF Typed, SendNext, Goto
  <2>3. BatchInv(b)'
    BY <1>0, <1>1, <1>2, <2>2 DEF BatchInv, SendNext, Running, Places, Honest
  <2> QED BY <1>1, <1>2, <2>1, <2>2, <2>3, ExecutorMoves DEF Typed, SendNext, Goto
<1>3. CASE LoopEnds(b)
  <2>1. Typed'
    <3>1. StatusOf(row[b]) \in BatchStatus \union {NoRow}
      BY <1>1 DEF Typed, StatusOf, Batch
    <3> QED BY <1>1, <1>3, <3>1 DEF Typed, LoopEnds, Goto, Places
  <2>2. pc'[b] = "final"
    BY <1>1, <1>3 DEF Typed, LoopEnds, Goto
  <2>3. /\ mem[b] \in Batch
        /\ mem[b].sent + mem[b].failed = mem[b].index
        /\ flag[b] # "run" \/ mem[b].index = Total
    BY <1>1, <1>3 DEF BatchInv, LoopEnds, Running, Places
  <2>5. BatchInv(b)'
    BY <1>0, <1>1, <1>3, <2>2, <2>3 DEF BatchInv, LoopEnds, Running, Places, Honest
  <2> QED BY <1>1, <1>3, <2>1, <2>2, <2>5, ExecutorMoves DEF Typed, LoopEnds, Goto
<1> QED BY <1>2, <1>3

\* A message was tried: one of sent and failed goes up, pending goes down.
LEMMA ProcessedMoves ==
  ASSUME Inv, NEW b \in Batches, NEW r \in Batch, pc[b] = "sending",
         UNCHANGED <<row, flag, inFlight, cancel, deleted, interrupted, overridden>>,
         r.status = "processing", r.index = mem[b].index,
         ~Overridden(b) => Honest(r) /\ r.cancelled = 0,
         r.sent + r.failed = mem[b].index + 1,
         r.pending \in {Total - (mem[b].index + 1), -(mem[b].index + 1)},
         delivered' \in [Batches -> Nat], delivered'[b] = r.sent,
         \A a \in Batches \ {b} : delivered'[a] = delivered[a],
         Processed(b, r)
  PROVE  Inv'
<1> DEFINE n == [r EXCEPT !.index = mem[b].index + 1]
<1>1. Typed /\ BatchInv(b)
  BY DEF Inv
<1>2. mem[b].index < Total /\ mem[b].index \in 0..Total
  BY <1>1 DEF BatchInv, Running, Places, Batch
<1>3. /\ n.sent = r.sent /\ n.failed = r.failed /\ n.pending = r.pending
      /\ n.cancelled = r.cancelled /\ n.status = "processing" /\ n.index = mem[b].index + 1
      /\ n \in Batch
  BY <1>2, Sizes DEF Batch
<1>4. ~Overridden(b) => Honest(n) /\ n.cancelled = 0
  BY <1>3 DEF Honest
<1>5. mem' = [mem EXCEPT ![b] = n]
  BY DEF Processed
<1> HIDE DEF n
<1>6. mem'[b] = n
  BY <1>1, <1>5 DEF Typed
<1>7. /\ pc' \in [Batches -> Places] /\ pc'[b] \in {"cadence", "loop"}
      /\ \A a \in Batches \ {b} : pc'[a] = pc[a]
      /\ seen' \in [Batches -> BatchStatus \union {NoRow}]
  <2>1. StatusOf(row[b]) \in BatchStatus \union {NoRow}
    BY <1>1 DEF Typed, StatusOf, Batch
  <2> QED BY <1>1, <2>1 DEF Typed, Processed, Goto, Places
<1>8. Typed'
  BY <1>1, <1>3, <1>5, <1>7 DEF Typed
<1>9. delivered'[b] \in 0..Total
  BY Sizes DEF Batch
<1>0. Overridden(b)' <=> Overridden(b)
  BY OverriddenStays
<1>10. BatchInv(b)'
  BY <1>0, <1>1, <1>3, <1>4, <1>6, <1>7, <1>9 DEF BatchInv, Running, Places, Honest
<1> QED BY <1>1, <1>5, <1>7, <1>8, <1>10, ExecutorMoves DEF Typed

LEMMA SendKeepsInv ==
  ASSUME Inv, NEW b \in Batches, Sent(b) \/ SendFailed(b)
  PROVE  Inv'
<1>1. Typed /\ BatchInv(b) /\ pc[b] = "sending" /\ delivered \in [Batches -> Nat]
  BY DEF Inv, Sent, SendFailed, Typed
<1>2. /\ mem[b] \in Batch /\ mem[b].status = "processing"
      /\ mem[b].sent + mem[b].failed = mem[b].index /\ mem[b].index < Total
      /\ mem[b].pending \in {Total - mem[b].index, -mem[b].index}
      /\ mem[b].sent = delivered[b]
      /\ ~Overridden(b) => Honest(mem[b]) /\ mem[b].cancelled = 0
  BY <1>1 DEF BatchInv, Running, Places
<1>3. /\ mem[b].sent \in 0..(Total - 1) /\ mem[b].failed \in 0..(Total - 1) /\ mem[b].index \in 0..(Total - 1)
      /\ mem[b].pending - 1 \in -Total..Total
      /\ mem[b].pending - 1 \in {Total - (mem[b].index + 1), -(mem[b].index + 1)}
      /\ mem[b].cancelled \in -Total..Total
      /\ ~Overridden(b) => mem[b].pending \in 1..Total /\ mem[b].sent + mem[b].failed + mem[b].pending = Total
  <2>1. /\ mem[b].sent \in 0..Total /\ mem[b].failed \in 0..Total /\ mem[b].index \in 0..Total
        /\ mem[b].pending \in -Total..Total /\ mem[b].cancelled \in -Total..Total
    BY <1>2 DEF Batch
  <2>2. /\ mem[b].sent \in 0..(Total - 1) /\ mem[b].failed \in 0..(Total - 1) /\ mem[b].index \in 0..(Total - 1)
    BY <1>2, <2>1, Sizes
  <2>3. mem[b].pending - 1 \in -Total..Total
    BY <1>2, <2>1, <2>2, Sizes
  <2>4. mem[b].pending - 1 \in {Total - (mem[b].index + 1), -(mem[b].index + 1)}
    BY <1>2, <2>1, Sizes
  <2>5. ~Overridden(b) => mem[b].pending \in 1..Total /\ mem[b].sent + mem[b].failed + mem[b].pending = Total
    BY <1>2, <2>1, Sizes DEF Honest
  <2> QED BY <2>1, <2>2, <2>3, <2>4, <2>5
<1>4. CASE Sent(b)
  <2> DEFINE r == [mem[b] EXCEPT !.sent = @ + 1, !.pending = @ - 1]
  <2>1. /\ r.sent = mem[b].sent + 1 /\ r.pending = mem[b].pending - 1 /\ r.failed = mem[b].failed
        /\ r.cancelled = mem[b].cancelled /\ r.status = "processing" /\ r.index = mem[b].index
    BY <1>2, <1>3 DEF Batch
  <2>2. r \in Batch
    <3>1. mem[b].sent + 1 \in 0..Total
      BY <1>3, Sizes
    <3> QED BY <1>2, <1>3, <3>1 DEF Batch
  <2>3. r.sent + r.failed = mem[b].index + 1
    BY <1>2, <1>3, <2>1, Sizes
  <2>6. ~Overridden(b) => Honest(r) /\ r.cancelled = 0
    BY <1>2, <1>3, <2>1, <2>2, Sizes DEF Honest
  <2>4. /\ delivered' \in [Batches -> Nat] /\ delivered'[b] = r.sent
        /\ \A a \in Batches \ {b} : delivered'[a] = delivered[a]
    BY <1>1, <1>2, <1>4, <2>1 DEF Sent
  <2>5. Processed(b, r)
    BY <1>4 DEF Sent
  <2> HIDE DEF r
  <2> QED BY <1>1, <1>3, <1>4, <2>1, <2>2, <2>3, <2>4, <2>5, <2>6, ProcessedMoves DEF Sent
<1>5. CASE SendFailed(b)
  <2> DEFINE r == [mem[b] EXCEPT !.failed = @ + 1, !.pending = @ - 1]
  <2>1. /\ r.failed = mem[b].failed + 1 /\ r.pending = mem[b].pending - 1 /\ r.sent = mem[b].sent
        /\ r.cancelled = mem[b].cancelled /\ r.status = "processing" /\ r.index = mem[b].index
    BY <1>2, <1>3 DEF Batch
  <2>2. r \in Batch
    <3>1. mem[b].failed + 1 \in 0..Total
      BY <1>3, Sizes
    <3> QED BY <1>2, <1>3, <3>1 DEF Batch
  <2>3. r.sent + r.failed = mem[b].index + 1
    BY <1>2, <1>3, <2>1, Sizes
  <2>6. ~Overridden(b) => Honest(r) /\ r.cancelled = 0
    BY <1>2, <1>3, <2>1, <2>2, Sizes DEF Honest
  <2>4. CASE Processed(b, r)
    <3> HIDE DEF r
    <3> QED BY <1>1, <1>2, <1>3, <1>5, <2>1, <2>2, <2>3, <2>4, <2>6, ProcessedMoves DEF SendFailed
  <2>5. CASE /\ mem' = [mem EXCEPT ![b] = [r EXCEPT !.status = "failed"]]
             /\ seen' = [seen EXCEPT ![b] = StatusOf(row[b])]
             /\ Goto(b, "final")
    <3> DEFINE n == [r EXCEPT !.status = "failed"]
    <3>1. /\ n.sent = r.sent /\ n.failed = r.failed /\ n.pending = r.pending
          /\ n.cancelled = r.cancelled /\ n.status = "failed" /\ n \in Batch
      BY <2>1, <2>2 DEF Batch, BatchStatus
    <3>2. ~Overridden(b) => Honest(n) /\ n.cancelled = 0
      BY <2>6, <3>1 DEF Honest
    <3>3. mem' = [mem EXCEPT ![b] = n]
      BY <2>5
    <3> HIDE DEF n, r
    <3>4. mem'[b] = n /\ pc'[b] = "final"
      BY <1>1, <2>5, <3>3 DEF Typed, Goto
    <3>5. StatusOf(row[b]) \in BatchStatus \union {NoRow}
      BY <1>1 DEF Typed, StatusOf, Batch
    <3>6. Typed'
      BY <1>1, <1>5, <2>5, <3>1, <3>3, <3>5 DEF Typed, SendFailed, Goto, Places
    <3>8. Overridden(b)' <=> Overridden(b)
      BY <1>5, OverriddenStays DEF SendFailed
    <3>7. BatchInv(b)'
      BY <1>1, <1>2, <1>5, <2>1, <3>1, <3>2, <3>4, <3>8 DEF BatchInv, SendFailed, Running, Places, Honest
    <3> QED BY <1>1, <1>5, <2>5, <3>3, <3>4, <3>6, <3>7, ExecutorMoves DEF Typed, SendFailed, Goto
  <2> QED BY <1>5, <2>4, <2>5 DEF SendFailed
<1> QED BY <1>4, <1>5

-----------------------------------------------------------------------------
\* Cancellation, deletion and boot.

LEMMA CancelReadsKeepsInv ==
  ASSUME Inv, NEW c \in Cancels, NEW b \in Batches, CancelReads(c, b)
  PROVE  Inv'
<1>1. Typed /\ BatchInv(b) /\ row[b] \in Batch /\ row[b].status \notin {"completed", "cancelled"}
      /\ row[b] # NoRow /\ cancel[c].pc = "idle" /\ b # NoRow
  BY NoRowAssumption DEF Inv, CancelReads, Typed
<1>2. /\ cancel'[c] = [pc |-> "read", batch |-> b, snap |-> row[b]]
      /\ \A d \in Cancels \ {c} : cancel'[d] = cancel[d]
      /\ UNCHANGED <<row, flag, executor, delivered, deleted, interrupted, overridden>>
  BY <1>1 DEF CancelReads, Typed
<1>3. Typed'
  <2>1. cancel' \in [Cancels -> Request]
    BY <1>1 DEF CancelReads, Typed, Request
  <2>2. \A d \in Cancels : cancel'[d].batch = NoRow <=> cancel'[d].pc \in {"idle", "failed"}
    BY <1>1, <1>2 DEF Typed
  <2> QED BY <1>1, <1>2, <2>1, <2>2 DEF Typed, executor
<1>0. \A a \in Batches : (Overridden(a)' <=> Overridden(a)) /\ (HasCancel(a) => HasCancel(a)')
  BY <1>1, <1>2, OverriddenStays
<1>4. ASSUME NEW a \in Batches PROVE BatchInv(a)'
  <2>1. BatchInv(a)
    BY DEF Inv
  <2> QED BY <1>0, <1>2, <2>1 DEF BatchInv, Honest, Fresh, executor
<1>5. RequestInv(c)'
  <2>1. c \notin overridden
    BY <1>1 DEF Inv, RequestInv
  <2>2. pc[b] \in {"saved", "loading"} => row[b] = New
    BY <1>1, NewIsHonest, CancelledIs DEF BatchInv, Fresh
  <2>3. ~Overridden(b) => Honest(row[b]) /\ row[b].cancelled = 0
    BY <1>1 DEF BatchInv
  <2> QED BY <1>0, <1>1, <1>2, <2>1, <2>2, <2>3 DEF RequestInv, Honest, executor
<1>6. ASSUME NEW d \in Cancels, d # c
      PROVE  RequestInv(d)'
  <2>1. RequestInv(d) /\ cancel'[d] = cancel[d]
    BY <1>2, <1>6 DEF Inv
  <2>2. cancel[d].pc \in {"read", "done"} => cancel[d].batch \in Batches
    BY <2>1 DEF RequestInv
  <2> QED BY <1>0, <1>2, <2>1, <2>2 DEF RequestInv, Honest, executor
<1> QED BY <1>3, <1>4, <1>5, <1>6 DEF Inv

\* A cancel is answered, or its save rejects.
LEMMA CancelKeepsInv ==
  ASSUME Inv, NEW c \in Cancels, CancelBatch(c)
  PROVE  Inv'
<1>a. PICK b \in Batches, r \in Batch : b = cancel[c].batch /\ r = Cancelled(cancel[c].snap)
  <2>1. cancel[c].batch \in Batches /\ cancel[c].snap \in Batch
    BY DEF Inv, RequestInv, CancelBatch
  <2> QED BY <2>1, CancelledIs
<1>1. /\ Typed /\ b \in Batches /\ cancel[c].snap \in Batch /\ cancel[c].pc = "read"
      /\ ~Overridden(b) => Honest(cancel[c].snap) /\ cancel[c].snap.cancelled = 0
      /\ pc[b] \in {"saved", "loading"} => cancel[c].snap = New
      /\ row[b] # NoRow \/ deleted
      /\ c \notin overridden
  BY <1>a DEF Inv, RequestInv, CancelBatch
<1>2. /\ r.status = "cancelled" /\ r \in Batch /\ r # NoRow
      /\ ~Overridden(b) => Honest(r)
  BY <1>a, <1>1, CancelledIsHonest, CancelledIs
<1>3. pc[b] \in {"saved", "loading"} => r = Cancelled(New)
  BY <1>a, <1>1
<1>4. flag' \in [Batches -> {"none", "run", "stop"}] /\ \A a \in Batches : flag'[a] \in {flag[a], "stop"}
  <2>1. flag' = [flag EXCEPT ![b] = "stop"] \/ flag' = flag
    BY <1>a DEF CancelBatch
  <2> QED BY <1>1, <2>1 DEF Typed
<1>5. PICK n \in Request :
        /\ cancel' = [cancel EXCEPT ![c] = n]
        /\ \/ n.pc = "done" /\ n.batch = b /\ row' = [row EXCEPT ![b] = r]
           \/ n.pc = "failed" /\ n.batch = NoRow /\ row' = row
  <2>1. CASE /\ row' = [row EXCEPT ![b] = r]
             /\ cancel' = [cancel EXCEPT ![c].pc = "done", ![c].snap = NoRow]
    <3> DEFINE n == [cancel[c] EXCEPT !.pc = "done", !.snap = NoRow]
    <3>1. cancel[c] \in Request /\ cancel' = [cancel EXCEPT ![c] = n]
      BY <1>1, <2>1 DEF Typed
    <3>2. n \in Request /\ n.pc = "done" /\ n.batch = b
      BY <1>a, <3>1 DEF Request
    <3>3. row' = [row EXCEPT ![b] = r]
      BY <2>1
    <3>4. cancel' = [cancel EXCEPT ![c] = n] /\ n.pc = "done" /\ n.batch = b /\ row' = [row EXCEPT ![b] = r]
      BY <3>1, <3>2, <3>3
    <3> HIDE DEF n
    <3> QED BY <3>2, <3>4
  <2>2. CASE cancel' = [cancel EXCEPT ![c] = [NoRequest EXCEPT !.pc = "failed"]] /\ UNCHANGED row
    <3> DEFINE n == [NoRequest EXCEPT !.pc = "failed"]
    <3>1. n \in Request /\ n.pc = "failed" /\ n.batch = NoRow
      BY DEF NoRequest, Request
    <3>2. cancel' = [cancel EXCEPT ![c] = n] /\ row' = row
      BY <2>2
    <3> HIDE DEF n
    <3> QED BY <3>1, <3>2
  <2> QED BY <1>a, <2>1, <2>2 DEF CancelBatch
<1>6. UNCHANGED <<executor, delivered, deleted, interrupted, overridden>>
  BY DEF CancelBatch
<1>7. /\ cancel'[c] = n /\ \A d \in Cancels \ {c} : cancel'[d] = cancel[d]
      /\ \A a \in Batches : row[a] # NoRow => row'[a] # NoRow
      /\ \A a \in Batches \ {b} : row'[a] = row[a]
      /\ \/ row'[b] = r /\ n.pc = "done"
         \/ row'[b] = row[b] /\ n.pc = "failed"
      /\ row' \in [Batches -> Batch \union {NoRow}]
  <2> QED BY <1>1, <1>2, <1>5 DEF Typed
<1>8. Typed'
  <2>1. cancel' \in [Cancels -> Request]
    BY <1>1, <1>5 DEF Typed
  <2>2. \A d \in Cancels : cancel'[d].batch = NoRow <=> cancel'[d].pc \in {"idle", "failed"}
    BY <1>1, <1>5, <1>7, NoRowAssumption DEF Typed
  <2> QED BY <1>1, <1>4, <1>6, <1>7, <2>1, <2>2 DEF Typed, executor
<1>0. \A a \in Batches : (Overridden(a)' <=> Overridden(a)) /\ (HasCancel(a) => HasCancel(a)')
  BY <1>1, <1>6, <1>7, OverriddenStays
<1>9. n.pc = "done" => HasCancel(b)'
  BY <1>1, <1>5, <1>7 DEF HasCancel
<1>10. ASSUME NEW a \in Batches
       PROVE  BatchInv(a)'
  <2>1. BatchInv(a) /\ UNCHANGED <<pc, mem, delivered, deleted, interrupted>>
    BY <1>6 DEF Inv, executor
  <2>2. flag'[a] \in {flag[a], "stop"}
    BY <1>4
  <2>3. CASE row'[a] = row[a]
    BY <1>0, <2>1, <2>2, <2>3 DEF BatchInv, Honest, Fresh
  <2>4. CASE a = b /\ row'[b] = r /\ n.pc = "done"
    <3>1. pc[b] \in {"saved", "loading"} => row'[b] = Cancelled(New) /\ HasCancel(b)'
      BY <1>3, <1>9, <2>4
    <3>2. /\ BatchInv(b) /\ (Overridden(b)' <=> Overridden(b)) /\ (HasCancel(b) => HasCancel(b)')
          /\ row'[b] = r /\ (row[b] # NoRow \/ deleted) /\ flag'[b] \in {flag[b], "stop"}
      BY <1>0, <1>1, <1>4, <2>1, <2>4
    <3>3. /\ row'[b] # NoRow /\ row'[b] \in Batch /\ row'[b].status = "cancelled"
          /\ ~Overridden(b) => Honest(row'[b])
      BY <1>2, <3>2
    <3>4. Fresh(b, mem[b]) => Fresh(b, mem[b])'
      BY <2>1, <3>2 DEF Fresh
    <3>5. pc[b] \in {"saved", "loading"} => Fresh(b, row[b])'
      BY <3>1 DEF Fresh
    <3>6. BatchInv(b)'
      BY <2>1, <3>2, <3>3, <3>4, <3>5 DEF BatchInv, Honest
    <3> QED BY <2>4, <3>6
  <2> QED BY <1>7, <2>3, <2>4
<1>11. ASSUME NEW d \in Cancels
       PROVE  RequestInv(d)'
  <2>1. RequestInv(d) /\ pc' = pc /\ deleted' = deleted /\ overridden' = overridden
    BY <1>6 DEF Inv, executor
  <2>2. CASE d = c
    <3>1. n.pc = "done" \/ n.pc = "failed"
      BY <1>5
    <3>2. n.pc = "done" => n.batch = b
      BY <1>5
    <3> QED BY <1>1, <1>2, <1>7, <2>1, <2>2, <3>1, <3>2 DEF RequestInv
  <2>3. CASE d # c
    <3>1. cancel'[d] = cancel[d]
      BY <1>7, <2>3
    <3>2. cancel[d].pc \in {"read", "done"} => cancel[d].batch \in Batches
      BY <2>1 DEF RequestInv
    <3> QED BY <1>0, <1>7, <2>1, <3>1, <3>2 DEF RequestInv, Honest
  <2> QED BY <2>2, <2>3
<1> QED BY <1>8, <1>10, <1>11 DEF Inv

LEMMA DeleteKeepsInv ==
  ASSUME Inv, DeleteSession
  PROVE  Inv'
<1>1. Typed /\ \A b \in Batches : row'[b] = NoRow
  BY DEF Inv, DeleteSession
<1>2. Typed'
  BY <1>1 DEF Typed, DeleteSession, executor
<1>0. \A a \in Batches : (Overridden(a)' <=> Overridden(a)) /\ (HasCancel(a) => HasCancel(a)')
  BY OverriddenStays DEF DeleteSession
<1>3. ASSUME NEW b \in Batches PROVE BatchInv(b)'
  <2>1. BatchInv(b)
    BY DEF Inv
  <2> QED BY <1>0, <1>1, <2>1 DEF BatchInv, Honest, Fresh, DeleteSession, executor
<1>4. ASSUME NEW c \in Cancels PROVE RequestInv(c)'
  <2>1. RequestInv(c)
    BY DEF Inv
  <2>2. cancel[c].pc \in {"read", "done"} => cancel[c].batch \in Batches
    BY <2>1 DEF RequestInv
  <2> QED BY <1>0, <2>1, <2>2 DEF RequestInv, Honest, DeleteSession, executor
<1> QED BY <1>2, <1>3, <1>4 DEF Inv

LEMMA RestartMoves ==
  ASSUME Inv, Restart
  PROVE  /\ Typed'
         /\ \A b \in Batches :
              /\ pc'[b] = "none"
              /\ row'[b] = IF Orphaned(row[b]) THEN [row[b] EXCEPT !.status = "failed"] ELSE row[b]
              /\ row[b] # NoRow => row'[b] # NoRow
         /\ \A c \in Cancels : IF cancel[c].pc \in {"done", "failed"}
                               THEN cancel'[c] = cancel[c] ELSE cancel'[c].pc = "idle"
         /\ UNCHANGED <<delivered, deleted, overridden>>
<1>1. Typed /\ UNCHANGED <<delivered, deleted, overridden>> /\ \A b \in Batches : pc'[b] = "none"
  BY DEF Inv, Restart, MemoryLost
<1>2. \A b \in Batches : row'[b] = IF Orphaned(row[b]) THEN [row[b] EXCEPT !.status = "failed"] ELSE row[b]
  BY DEF Restart
<1>3. \A b \in Batches : row'[b] \in Batch \union {NoRow} /\ (row[b] # NoRow => row'[b] # NoRow)
  <2> TAKE b \in Batches
  <2>1. row[b] \in Batch \union {NoRow}
    BY <1>1 DEF Typed
  <2>2. CASE Orphaned(row[b])
    <3>1. row[b] \in Batch /\ row'[b] = [row[b] EXCEPT !.status = "failed"]
      BY <1>2, <2>1, <2>2 DEF Orphaned
    <3>2. row'[b] \in Batch
      BY <3>1 DEF Batch, BatchStatus
    <3> QED BY <3>2, Sizes
  <2>3. CASE ~Orphaned(row[b])
    BY <1>2, <2>1, <2>3
  <2> QED BY <2>2, <2>3
<1>4. row' \in [Batches -> Batch \union {NoRow}]
  <2>1. row' = [b \in Batches |-> row'[b]]
    BY DEF Restart
  <2> QED BY <1>3, <2>1
<1>5. NoRequest \in Request /\ NoRequest.pc = "idle" /\ NoRequest.batch = NoRow
  BY DEF NoRequest, Request
<1>6. cancel' = [c \in Cancels |-> IF cancel[c].pc \in {"done", "failed"} THEN cancel[c] ELSE NoRequest]
  BY DEF Restart, MemoryLost
<1>7. cancel' \in [Cancels -> Request]
      /\ \A c \in Cancels : cancel'[c].batch = NoRow <=> cancel'[c].pc \in {"idle", "failed"}
  BY <1>1, <1>5, <1>6 DEF Typed
<1>8. interrupted' \in [Batches -> {"no", "boot", "fault"}]
  BY <1>1 DEF Restart, MemoryLost, Typed
<1>9. Typed'
  BY <1>1, <1>4, <1>7, <1>8 DEF Typed, Restart, MemoryLost, Places
<1> QED BY <1>1, <1>2, <1>3, <1>5, <1>6, <1>9

LEMMA RestartKeepsInv ==
  ASSUME Inv, Restart
  PROVE  Inv'
<1>0. \A a \in Batches : (Overridden(a)' <=> Overridden(a)) /\ (HasCancel(a) => HasCancel(a)')
  BY RestartMoves, OverriddenStays
<1>1. ASSUME NEW b \in Batches
      PROVE  BatchInv(b)'
  <2>1. BatchInv(b) /\ pc'[b] = "none" /\ UNCHANGED <<delivered, deleted>>
        /\ row[b] \in Batch \union {NoRow}
    BY RestartMoves DEF Inv, Typed
  <2>2. CASE ~Orphaned(row[b])
    <3>1. row'[b] = row[b]
      BY <2>2, RestartMoves
    <3> QED BY <1>0, <2>1, <2>2, <3>1 DEF BatchInv, Honest, Running, Orphaned
  <2>3. CASE Orphaned(row[b])
    <3>1. row[b] # NoRow /\ row[b].status = "processing" /\ row'[b] = [row[b] EXCEPT !.status = "failed"]
      BY <2>3, RestartMoves DEF Orphaned
    <3>2. /\ row'[b] \in Batch /\ row'[b].status = "failed" /\ row'[b] # NoRow
          /\ ~Overridden(b) => Honest(row'[b]) /\ row'[b].cancelled = 0
      BY <2>1, <3>1, Sizes DEF BatchInv, Honest, Batch, BatchStatus
    <3> QED BY <1>0, <2>1, <3>1, <3>2 DEF BatchInv, Honest, Running
  <2> QED BY <2>2, <2>3
<1>2. ASSUME NEW c \in Cancels
      PROVE  RequestInv(c)'
  <2>1. RequestInv(c) /\ UNCHANGED <<deleted, overridden>>
    BY RestartMoves DEF Inv
  <2>2. CASE cancel[c].pc \in {"done", "failed"}
    BY <2>1, <2>2, RestartMoves DEF RequestInv
  <2>3. CASE cancel[c].pc \notin {"done", "failed"}
    BY <2>1, <2>3, RestartMoves DEF RequestInv
  <2> QED BY <2>2, <2>3
<1> QED BY <1>1, <1>2, RestartMoves DEF Inv

LEMMA InvInit == Init => Inv
<1> SUFFICES ASSUME Init PROVE Inv
  OBVIOUS
<1>1. NoRequest \in Request /\ NoRequest.pc = "idle" /\ NoRequest.batch = NoRow
  BY DEF NoRequest, Request
<1>2. Typed
  BY <1>1 DEF Init, Typed, Places
<1>3. \A b \in Batches : BatchInv(b)
  BY Sizes DEF Init, BatchInv, Running
<1>4. \A c \in Cancels : RequestInv(c)
  BY <1>1 DEF Init, RequestInv
<1> QED BY <1>2, <1>3, <1>4 DEF Inv

LEMMA InvNext == Inv /\ [Next]_vars => Inv'
<1> SUFFICES ASSUME Inv, [Next]_vars PROVE Inv'
  OBVIOUS
<1>1. CASE UNCHANGED vars
  <2>1. Typed'
    BY <1>1 DEF vars, executor, Inv, Typed
  <2>2. \A b \in Batches : BatchInv(b)'
    BY <1>1 DEF vars, executor, Inv, BatchInv, Honest, Fresh, HasCancel, Overridden
  <2>3. \A c \in Cancels : RequestInv(c)'
    BY <1>1 DEF vars, executor, Inv, RequestInv, Honest, Overridden
  <2> QED BY <2>1, <2>2, <2>3 DEF Inv
<1>2. ASSUME NEW b \in Batches, ExecutorStep(b)
      PROVE  Inv'
  BY <1>2, StartKeepsInv, LoopKeepsInv, SendKeepsInv, Finalizes DEF ExecutorStep
<1> QED BY <1>1, <1>2, CreateKeepsInv, CancelReadsKeepsInv, CancelKeepsInv, DeleteKeepsInv,
           RestartKeepsInv DEF Next

LEMMA Invariant == Spec => []Inv
  BY InvInit, InvNext, PTL DEF Spec

-----------------------------------------------------------------------------
\* The counters of every stored batch add up to its messages, whichever of the executor,
\* the cancel requests and the boot wrote it last, unless its executor took it over from a
\* cancel that it wrote over.
THEOREM CountersAreExact == Spec => []CountersAddUp
<1>1. Inv => CountersAddUp
  BY DEF Inv, BatchInv, Honest, CountersAddUp
<1> QED BY <1>1, Invariant, PTL

\* A batch stored as COMPLETED has tried every message and counts the ones it sent, also
\* where a cancel of the PENDING batch was written over.
THEOREM CompletedIsComplete == Spec => []CompletedMeansAll
<1>1. Inv => CompletedMeansAll
  <2> SUFFICES ASSUME Inv, NEW b \in Batches, StatusOf(row[b]) = "completed"
               PROVE  row[b].sent + row[b].failed = Total /\ row[b].sent = delivered[b]
    BY DEF CompletedMeansAll
  <2>1. row[b] # NoRow /\ row[b].status = "completed"
    BY NoRowAssumption DEF StatusOf, BatchStatus
  <2> QED BY <2>1 DEF Inv, BatchInv
<1> QED BY <1>1, Invariant, PTL

\* No message of a batch goes out twice, restarts and cancels at any time included.
THEOREM NothingIsResent == Spec => []NoResend
<1>1. Inv => NoResend
  <2> SUFFICES ASSUME Inv, NEW b \in Batches PROVE delivered[b] <= Total
    BY DEF NoResend
  <2>1. delivered[b] \in 0..Total
    BY DEF Inv, BatchInv
  <2> QED BY <2>1, Sizes
<1> QED BY <1>1, Invariant, PTL

\* A batch stored as PROCESSING has an executor that will still save it, or lost it to a
\* save that rejected.
THEOREM ProcessingHasAnExecutor == Spec => []ProcessingIsDriven
<1>1. Inv => ProcessingIsDriven
  <2> SUFFICES ASSUME Inv, NEW b \in Batches, StatusOf(row[b]) = "processing"
               PROVE  pc[b] \in Running \ {"finishing"} \/ interrupted[b] = "fault"
    BY DEF ProcessingIsDriven
  <2>1. row[b] # NoRow /\ row[b].status = "processing"
    BY NoRowAssumption DEF StatusOf, BatchStatus
  <2> QED BY <2>1 DEF Inv, BatchInv
<1> QED BY <1>1, Invariant, PTL

-----------------------------------------------------------------------------
\* The in-flight count.  A step moves one batch in or out of its executor and changes the
\* count accordingly, or does neither.
InExecutor == {b \in Batches : pc[b] \in Running}

LEMMA CountKept ==
  ASSUME InFlightExact, UNCHANGED inFlight,
         \A b \in Batches : pc'[b] \in Running <=> pc[b] \in Running
  PROVE  InFlightExact'
<1>1. {b \in Batches : pc'[b] \in Running} = {b \in Batches : pc[b] \in Running}
  OBVIOUS
<1> QED BY <1>1 DEF InFlightExact

LEMMA CountedOut ==
  ASSUME IsFiniteSet(Batches), Typed, InFlightExact, NEW b \in Batches, pc[b] \in Running,
         Goto(b, "none"), Release(b)
  PROVE  InFlightExact'
<1>1. IsFiniteSet(InExecutor) /\ b \in InExecutor
  BY FS_Subset DEF InExecutor
<1>2. Cardinality(InExecutor \ {b}) = Cardinality(InExecutor) - 1
  BY <1>1, FS_RemoveElement
<1>3. {a \in Batches : pc'[a] \in Running} = InExecutor \ {b}
  BY DEF InExecutor, Typed, Goto, Running, Places
<1> QED BY <1>2, <1>3 DEF InFlightExact, Release, InExecutor

LEMMA CountedIn ==
  ASSUME IsFiniteSet(Batches), Typed, InFlightExact, NEW b \in Batches, pc[b] \notin Running,
         Goto(b, "starting"), inFlight' = inFlight + 1
  PROVE  InFlightExact'
<1>1. IsFiniteSet(InExecutor) /\ b \notin InExecutor
  BY FS_Subset DEF InExecutor
<1>2. Cardinality(InExecutor \union {b}) = Cardinality(InExecutor) + 1
  BY <1>1, FS_AddElement
<1>3. {a \in Batches : pc'[a] \in Running} = InExecutor \union {b}
  BY DEF InExecutor, Typed, Goto, Running, Places
<1> QED BY <1>2, <1>3 DEF InFlightExact, InExecutor

LEMMA CountGoto ==
  ASSUME Typed, InFlightExact, NEW b \in Batches, NEW place, Goto(b, place),
         pc[b] \in Running <=> place \in Running, UNCHANGED inFlight
  PROVE  InFlightExact'
<1>1. \A a \in Batches : pc'[a] \in Running <=> pc[a] \in Running
  BY DEF Typed, Goto
<1> QED BY <1>1, CountKept

LEMMA CountSave ==
  ASSUME IsFiniteSet(Batches), Typed, InFlightExact, NEW b \in Batches, NEW r,
         NEW place \in {"loop", "finishing"}, Save(b, r, place), pc[b] \in Running
  PROVE  InFlightExact'
<1>1. place \in Running
  BY DEF Running, Places
<1> QED BY <1>1, CountGoto, CountedOut DEF Save, SaveRejects

LEMMA CountNext ==
  ASSUME IsFiniteSet(Batches), Typed, InFlightExact, [Next]_vars
  PROVE  InFlightExact'
<1>0. {"starting", "loop", "sending", "cadence", "final", "finishing"} \subseteq Running
      /\ {"none", "saved", "loading"} \intersect Running = {}
  BY DEF Running, Places
<1>1. ASSUME NEW b \in Batches, CreateBatch(b) \/ ProcessLoads(b)
      PROVE  InFlightExact'
  BY <1>0, <1>1, CountGoto DEF CreateBatch, ProcessLoads
<1>2. ASSUME NEW b \in Batches, ProcessBatch(b)
      PROVE  InFlightExact'
  BY <1>0, <1>2, CountGoto, CountedIn DEF ProcessBatch
<1>3. ASSUME NEW b \in Batches, ExecuteBatch(b)
      PROVE  InFlightExact'
  BY <1>0, <1>3, CountGoto, CountedOut DEF ExecuteBatch, SaveRejects
<1>4. ASSUME NEW b \in Batches, SendNext(b) \/ LoopEnds(b)
      PROVE  InFlightExact'
  BY <1>0, <1>4, CountGoto DEF SendNext, LoopEnds
<1>5. ASSUME NEW b \in Batches, NEW r, Processed(b, r), pc[b] = "sending", UNCHANGED inFlight
      PROVE  InFlightExact'
  BY <1>0, <1>5, CountGoto DEF Processed
<1>6. ASSUME NEW b \in Batches, Sent(b)
      PROVE  InFlightExact'
  <2> PICK r : Processed(b, r)
    BY <1>6 DEF Sent
  <2> QED BY <1>5, <1>6 DEF Sent
<1>7. ASSUME NEW b \in Batches, SendFailed(b)
      PROVE  InFlightExact'
  <2>1. CASE \E r : Processed(b, r)
    BY <1>5, <1>7, <2>1 DEF SendFailed
  <2>2. CASE Goto(b, "final")
    BY <1>0, <1>7, <2>2, CountGoto DEF SendFailed
  <2> QED BY <1>7, <2>1, <2>2 DEF SendFailed
<1>8. ASSUME NEW b \in Batches, SaveProgress(b) \/ FinalSave(b)
      PROVE  InFlightExact'
  BY <1>0, <1>8, CountSave DEF SaveProgress, FinalSave
<1>9. ASSUME NEW b \in Batches, Finish(b)
      PROVE  InFlightExact'
  BY <1>0, <1>9, CountedOut DEF Finish
<1>10. CASE Restart
  <2>1. {b \in Batches : pc'[b] \in Running} = {} /\ inFlight' = 0
    BY <1>0, <1>10 DEF Restart, MemoryLost
  <2> QED BY <2>1, FS_EmptySet DEF InFlightExact
<1>11. CASE UNCHANGED <<pc, inFlight>>
  BY <1>11, CountKept
<1> QED BY <1>1, <1>2, <1>3, <1>4, <1>6, <1>7, <1>8, <1>9, <1>10, <1>11
        DEF Next, ExecutorStep, CancelReads, CancelBatch, DeleteSession, vars, executor

\* The in-flight count is the number of batches in their executor, for any number of
\* batches and whichever saves reject: a failing batch never eats up the cap.
THEOREM InFlightIsExact ==
  ASSUME IsFiniteSet(Batches)
  PROVE  Spec => []InFlightExact
<1>1. Init => InFlightExact
  <2> SUFFICES ASSUME Init PROVE InFlightExact
    OBVIOUS
  <2>1. {b \in Batches : pc[b] \in Running} = {} /\ inFlight = 0
    BY DEF Init, Running
  <2> QED BY <2>1, FS_EmptySet DEF InFlightExact
<1>2. Inv /\ InFlightExact /\ [Next]_vars => InFlightExact'
  BY CountNext DEF Inv
<1> QED BY <1>1, <1>2, Invariant, PTL DEF Spec

\* Type correctness: no stored counter is out of its range, the rest of a batch included
\* that was cancelled twice, and the count under the cap is one of executors.
THEOREM TypeCorrect ==
  ASSUME IsFiniteSet(Batches)
  PROVE  Spec => []TypeOK
<1>1. Inv /\ InFlightExact => TypeOK
  <2> SUFFICES ASSUME Inv, InFlightExact PROVE TypeOK
    OBVIOUS
  <2>1. inFlight \in 0..Cardinality(Batches)
    <3>1. IsFiniteSet(InExecutor) /\ Cardinality(InExecutor) <= Cardinality(Batches)
      BY FS_Subset DEF InExecutor
    <3>2. Cardinality(InExecutor) \in Nat /\ Cardinality(Batches) \in Nat
      BY <3>1, FS_CardinalityType
    <3> QED BY <3>1, <3>2 DEF InFlightExact, InExecutor
  <2> QED BY <2>1 DEF Inv, Typed, TypeOK, Request
<1> QED BY <1>1, Invariant, InFlightIsExact, PTL

\* Types and the count under the cap together.
THEOREM Consistency ==
  ASSUME IsFiniteSet(Batches)
  PROVE  Spec => []Consistent
  BY TypeCorrect, InFlightIsExact, PTL DEF Consistent

\* What a row tells is so: its counters, that it is COMPLETED, that it is PROCESSING.
THEOREM RowsAreHonest == Spec => []RowHonest
  BY CountersAreExact, CompletedIsComplete, ProcessingHasAnExecutor, PTL DEF RowHonest

-----------------------------------------------------------------------------
\* Cancellation.  An executor whose process has answered a cancel either still sees its
\* flag down, so that its last save says CANCELLED, or is past that save.
Driven == {"starting", "loop", "sending", "cadence", "final"}

Answered(b) ==
  \E c \in Cancels \ (Remote \union overridden) : cancel[c].pc = "done" /\ cancel[c].batch = b

CancelHeld(b) ==
  \/ CutShort(b)
  \/ pc[b] \in Driven /\ flag[b] = "stop"
  \/ pc[b] \notin Driven /\ StatusOf(row[b]) \in {"cancelled", NoRow}

CancelInv(b) ==
  /\ pc[b] \in Driven => StatusOf(row[b]) \in {"processing", "cancelled", NoRow}
  /\ pc[b] \in {"saved", "loading"} /\ row[b] = NoRow => deleted
  /\ Answered(b) => (row[b] # NoRow \/ deleted) /\ CancelHeld(b)

\* A step that leaves b, its flag, its row and the answered cancels of it alone, or only
\* moves its executor along.
LEMMA CancelInvMoves ==
  ASSUME NEW b \in Batches, CancelInv(b), UNCHANGED deleted, Answered(b)' => Answered(b),
         (CutShort(b) => CutShort(b)'), row'[b] = row[b],
         \/ pc'[b] = pc[b] /\ flag'[b] = flag[b]
         \/ pc[b] \in {"saved", "loading"} /\ pc'[b] \in {"loading", "none"}
         \/ pc[b] \in Driven /\ pc'[b] \in Driven /\ flag'[b] = flag[b]
         \/ pc[b] = "finishing" /\ pc'[b] = "none"
  PROVE  CancelInv(b)'
<1>1. StatusOf(row[b])' = StatusOf(row[b])
  BY DEF StatusOf
<1> QED BY <1>1 DEF CancelInv, CancelHeld, Driven

\* Without an answered cancel only the row of a driven batch matters.
LEMMA CancelInvUnanswered ==
  ASSUME NEW b \in Batches, ~Answered(b)',
         pc'[b] \in Driven => StatusOf(row[b])' \in {"processing", "cancelled", NoRow},
         pc'[b] \in {"saved", "loading"} => row'[b] # NoRow
  PROVE  CancelInv(b)'
BY DEF CancelInv

\* A batch that is cut short has only its row to answer for.
LEMMA CancelInvCut ==
  ASSUME NEW b \in Batches, CancelInv(b), UNCHANGED deleted, Answered(b)' => Answered(b),
         CutShort(b)', row[b] # NoRow => row'[b] # NoRow,
         pc'[b] \in {"none", "finishing"}
  PROVE  CancelInv(b)'
BY DEF CancelInv, CancelHeld, Driven

\* A step of the executor of b leaves the other batches and the cancels alone.
LEMMA CancelInvOthers ==
  ASSUME NEW b \in Batches, NEW a \in Batches, a # b, Typed, CancelInv(a), ExecutorStep(b) \/ CreateBatch(b)
  PROVE  CancelInv(a)'
<1>1. /\ row'[a] = row[a] /\ pc'[a] = pc[a] /\ flag'[a] = flag[a]
      /\ UNCHANGED <<cancel, deleted>> /\ (CutShort(a) => CutShort(a)')
      /\ overridden \subseteq overridden'
  BY DEF CutShort, Typed, ExecutorStep, CreateBatch, ProcessLoads, ProcessBatch, ExecuteBatch, SendNext,
         LoopEnds, Sent, SendFailed, SaveProgress, FinalSave, Finish, Save, SaveRejects, Goto,
         Release, Processed
<1>2. Answered(a)' => Answered(a)
  BY <1>1 DEF Answered
<1> QED BY <1>1, <1>2, CancelInvMoves

LEMMA RejectKeepsCancel ==
  ASSUME Typed, NEW b \in Batches, CancelInv(b), SaveRejects(b), UNCHANGED <<cancel, overridden, deleted>>
  PROVE  CancelInv(b)'
<1>1. pc'[b] = "none" /\ row' = row /\ CutShort(b)' /\ (Answered(b)' => Answered(b))
  BY DEF Typed, SaveRejects, Goto, CutShort, Answered
<1> QED BY <1>1, CancelInvCut

LEMMA FinalKeepsCancel ==
  ASSUME Inv, NEW b \in Batches, CancelInv(b), SaveProgress(b) \/ FinalSave(b)
  PROVE  CancelInv(b)'
<1>1. /\ Typed /\ BatchInv(b) /\ UNCHANGED <<cancel, overridden, deleted>> /\ (Answered(b)' => Answered(b))
      /\ pc[b] \in Driven
  BY DEF Inv, SaveProgress, FinalSave, Answered, Driven
<1>2. CASE SaveRejects(b)
  BY <1>1, <1>2, RejectKeepsCancel
<1>3. CASE /\ pc[b] = "cadence" /\ seen[b] # "cancelled" /\ row' = [row EXCEPT ![b] = mem[b]]
           /\ Goto(b, "loop") /\ UNCHANGED <<flag, interrupted>>
  <2>1. row'[b] = mem[b] /\ pc'[b] = "loop" /\ mem[b].status = "processing" /\ mem[b] # NoRow
    BY <1>1, <1>3, Sizes DEF Typed, Goto, BatchInv, Running, Places, Honest
  <2>2. StatusOf(row[b])' = "processing"
    BY <2>1 DEF StatusOf
  <2>3. CancelHeld(b) /\ Answered(b) => CancelHeld(b)'
    BY <1>1, <1>3, <2>1 DEF CancelHeld, Driven, CutShort
  <2> QED BY <1>1, <2>1, <2>2, <2>3 DEF CancelInv
<1>4. CASE /\ pc[b] = "final" \/ (pc[b] = "cadence" /\ seen[b] = "cancelled")
           /\ row' = [row EXCEPT ![b] = Finalized(b)]
           /\ Goto(b, "finishing") /\ UNCHANGED <<flag, interrupted>>
  <2>1. Finalized(b) # NoRow /\ row'[b] = Finalized(b) /\ pc'[b] = "finishing"
    BY <1>1, <1>4, FinalizedIsHonest, Sizes DEF Typed, Goto, WasCancelled
  <2>2. flag[b] = "stop" => Finalized(b).status = "cancelled"
    <3> SUFFICES ASSUME flag[b] = "stop" PROVE Finalized(b).status = "cancelled"
      OBVIOUS
    <3>1. WasCancelled(b) /\ mem[b] \in Batch
      BY <1>1, <1>4 DEF WasCancelled, BatchInv, Running, Places, Honest
    <3>2. Finalized(b) = [Cancelled(mem[b]) EXCEPT !.status = "cancelled"]
      BY <3>1 DEF Finalized, FinalStatus
    <3> QED BY <3>1, <3>2 DEF Cancelled, Batch
  <2>3. StatusOf(row[b])' = Finalized(b).status
    BY <2>1 DEF StatusOf
  <2>4. CancelHeld(b) => CancelHeld(b)'
    BY <1>1, <1>4, <2>1, <2>2, <2>3 DEF CancelHeld, Driven, CutShort
  <2> QED BY <1>1, <2>1, <2>4 DEF CancelInv, Driven
<1> QED BY <1>1, <1>2, <1>3, <1>4 DEF SaveProgress, FinalSave, Save

LEMMA ExecutorKeepsCancel ==
  ASSUME Inv, NEW b \in Batches, CancelInv(b), ExecutorStep(b)
  PROVE  CancelInv(b)'
<1>1. Typed /\ BatchInv(b)
  BY DEF Inv
<1>2. UNCHANGED <<cancel, deleted>> /\ (Answered(b)' => Answered(b)) /\ (CutShort(b) => CutShort(b)')
  BY <1>1 DEF Typed, CutShort, ExecutorStep, ProcessLoads, ProcessBatch, ExecuteBatch, SendNext, LoopEnds, Sent, SendFailed,
         SaveProgress, FinalSave, Finish, Save, SaveRejects, Answered
<1>3. CASE ProcessLoads(b)
  <2>1. pc[b] = "saved" /\ pc'[b] = "loading" /\ row' = row
    BY <1>1, <1>3 DEF ProcessLoads, Typed, Goto
  <2> QED BY <1>2, <2>1, CancelInvMoves
<1>4. CASE ProcessBatch(b)
  <2>1. pc[b] = "loading"
    BY <1>4 DEF ProcessBatch
  <2>2. CASE Goto(b, "none") /\ UNCHANGED row
    <3>1. pc'[b] = "none" /\ row' = row
      BY <1>1, <2>2 DEF Typed, Goto
    <3> QED BY <1>2, <2>1, <3>1, CancelInvMoves
  <2>3. CASE /\ mem[b] # NoRow
             /\ row' = [row EXCEPT ![b] = [mem[b] EXCEPT !.status = "processing"]]
             /\ Goto(b, "starting")
             /\ overridden' = overridden \union {c \in Cancels : cancel[c].pc = "done" /\ cancel[c].batch = b}
    <3>1. mem[b] \in Batch /\ row'[b] = [mem[b] EXCEPT !.status = "processing"] /\ pc'[b] = "starting"
      BY <1>1, <2>3 DEF Typed, Goto
    <3>2. row'[b] \in Batch /\ row'[b].status = "processing"
      BY <3>1 DEF Batch, BatchStatus
    <3>3. StatusOf(row[b])' = "processing"
      BY <3>2, Sizes DEF StatusOf
    <3>4. ~Answered(b)'
      BY <1>2, <2>3 DEF Answered
    <3> QED BY <3>1, <3>3, <3>4, CancelInvUnanswered
  <2> QED BY <1>4, <2>2, <2>3 DEF ProcessBatch
<1>5. CASE ExecuteBatch(b)
  <2>0. pc[b] = "starting"
    BY <1>5 DEF ExecuteBatch
  <2>1. CASE Goto(b, "loop") /\ UNCHANGED <<row, flag, inFlight, mem, interrupted>>
    BY <1>1, <1>2, <2>0, <2>1, CancelInvMoves DEF Goto, Driven, Typed
  <2>2. CASE /\ row' = [row EXCEPT ![b] = [mem[b] EXCEPT !.status = "failed"]]
             /\ Goto(b, "finishing")
             /\ interrupted' = [interrupted EXCEPT ![b] = "fault"]
    <3>1. mem[b] \in Batch
      BY <1>1, <2>0 DEF BatchInv, Running, Places, Honest
    <3>2. [mem[b] EXCEPT !.status = "failed"] # NoRow
      BY <3>1, Sizes DEF Batch, BatchStatus
    <3>3. row'[b] # NoRow /\ pc'[b] = "finishing" /\ CutShort(b)'
      BY <1>1, <2>2, <3>2 DEF Typed, Goto, CutShort
    <3> QED BY <1>2, <3>3, CancelInvCut
  <2>3. CASE SaveRejects(b)
    <3>1. UNCHANGED overridden
      BY <1>5 DEF ExecuteBatch
    <3> QED BY <1>1, <1>2, <2>3, <3>1, RejectKeepsCancel
  <2> QED BY <1>5, <2>1, <2>2, <2>3 DEF ExecuteBatch
<1>6. CASE SendNext(b) \/ LoopEnds(b) \/ Sent(b) \/ SendFailed(b)
  <2>1. /\ pc[b] \in Driven /\ pc'[b] \in Driven /\ flag'[b] = flag[b] /\ row'[b] = row[b]
    BY <1>1, <1>6 DEF SendNext, LoopEnds, Sent, SendFailed, Processed, Goto, Typed, Driven
  <2> QED BY <1>2, <2>1, CancelInvMoves
<1>7. CASE Finish(b)
  <2>1. pc[b] = "finishing" /\ pc'[b] = "none" /\ row' = row
    BY <1>1, <1>7 DEF Finish, Goto, Typed
  <2> QED BY <1>2, <2>1, CancelInvMoves
<1> QED BY <1>3, <1>4, <1>5, <1>6, <1>7, FinalKeepsCancel DEF ExecutorStep

\* A new batch has no answered cancel: the row of a batch that has one is gone only with
\* the session.
LEMMA CreateKeepsCancel ==
  ASSUME Inv, NEW b \in Batches, CancelInv(b), CreateBatch(b)
  PROVE  CancelInv(b)'
<1>1. ~Answered(b)' /\ pc'[b] = "saved" /\ row'[b] = New
  BY DEF Inv, Typed, CreateBatch, CancelInv, Answered, Goto
<1> QED BY <1>1, NewIsHonest, CancelInvUnanswered DEF Driven

LEMMA CancelReadsKeepsCancel ==
  ASSUME Inv, NEW c \in Cancels, NEW b \in Batches, NEW a \in Batches,
         CancelInv(a), CancelReads(c, b)
  PROVE  CancelInv(a)'
<1>1. ASSUME NEW d \in Cancels, cancel'[d].pc = "done"
      PROVE  cancel'[d] = cancel[d]
  <2>1. CASE d = c
    <3>1. cancel'[c].pc = "read"
      BY DEF Inv, Typed, CancelReads
    <3> QED BY <1>1, <2>1, <3>1
  <2>2. CASE d # c
    BY <2>2 DEF Inv, Typed, CancelReads
  <2> QED BY <2>1, <2>2
<1>2. Answered(a)' => Answered(a)
  BY <1>1 DEF Answered, CancelReads
<1>3. CutShort(a) => CutShort(a)'
  BY DEF CancelReads, CutShort
<1> QED BY <1>2, <1>3, CancelInvMoves DEF CancelReads, executor

\* cancelBatch answers: its row is cancelled, and of its own process the flag is down.  Or its
\* save rejects, and the flag is down all the same: the executor will still say CANCELLED.
LEMMA CancelKeepsCancel ==
  ASSUME Inv, NEW c \in Cancels, NEW a \in Batches, CancelInv(a), CancelBatch(c)
  PROVE  CancelInv(a)'
<1>1. PICK b \in Batches, r \in Batch :
        /\ b = cancel[c].batch /\ r = Cancelled(cancel[c].snap)
        /\ r.status = "cancelled" /\ r # NoRow
  <2>1. cancel[c].batch \in Batches /\ cancel[c].snap \in Batch
    BY DEF Inv, RequestInv, CancelBatch
  <2> QED BY <2>1, CancelledIs
<1>2. /\ flag'[a] = IF a = b /\ c \notin Remote THEN "stop" ELSE flag[a]
      /\ UNCHANGED <<pc, deleted, interrupted, overridden>>
      /\ \A d \in Cancels \ {c} : cancel'[d] = cancel[d]
  BY <1>1 DEF Inv, Typed, CancelBatch, executor
<1>3. \/ cancel'[c].pc = "done" /\ cancel'[c].batch = b /\ row'[a] = IF a = b THEN r ELSE row[a]
      \/ cancel'[c].pc = "failed" /\ row' = row
  <2>1. CASE /\ row' = [row EXCEPT ![b] = r]
             /\ cancel' = [cancel EXCEPT ![c].pc = "done", ![c].snap = NoRow]
    BY <1>1, <2>1 DEF Inv, Typed, Request
  <2>2. CASE cancel' = [cancel EXCEPT ![c] = [NoRequest EXCEPT !.pc = "failed"]] /\ UNCHANGED row
    BY <2>2 DEF Inv, Typed, NoRequest
  <2> QED BY <1>1, <2>1, <2>2 DEF CancelBatch
<1>4. CutShort(a)' = CutShort(a)
  BY <1>2 DEF CutShort
<1>5. Answered(a)' => Answered(a) \/ (a = b /\ c \notin Remote /\ cancel'[c].pc = "done")
  BY <1>2, <1>3 DEF Answered
<1>6. CASE a # b
  <2>1. Answered(a)' => Answered(a)
    BY <1>5, <1>6
  <2>2. row'[a] = row[a] /\ pc'[a] = pc[a] /\ flag'[a] = flag[a]
    BY <1>2, <1>3, <1>6
  <2> QED BY <1>2, <1>4, <2>1, <2>2, CancelInvMoves
<1>7. CASE a = b /\ row'[a] = r
  <2>1. StatusOf(row[a])' = "cancelled" /\ row'[a] # NoRow
    BY <1>1, <1>7 DEF StatusOf
  <2>2. Answered(a)' /\ pc[a] \in Driven => CutShort(a) \/ flag'[a] = "stop"
    BY <1>2, <1>5 DEF CancelInv, CancelHeld, Driven
  <2>3. Answered(a)' => CancelHeld(a)'
    BY <1>2, <1>4, <2>1, <2>2 DEF CancelHeld
  <2> QED BY <1>2, <2>1, <2>3 DEF CancelInv
<1>8. CASE row' = row /\ cancel'[c].pc = "failed"
  <2>1. Answered(a)' => Answered(a)
    BY <1>5, <1>8
  <2>2. StatusOf(row[a])' = StatusOf(row[a]) /\ row'[a] = row[a]
    BY <1>8 DEF StatusOf
  <2>3. flag[a] = "stop" => flag'[a] = "stop"
    BY <1>2
  <2> QED BY <1>2, <1>4, <2>1, <2>2, <2>3 DEF CancelInv, CancelHeld
<1> QED BY <1>3, <1>6, <1>7, <1>8

LEMMA DeleteKeepsCancel ==
  ASSUME Inv, NEW b \in Batches, CancelInv(b), DeleteSession
  PROVE  CancelInv(b)'
<1>1. UNCHANGED <<pc, flag, cancel, interrupted, overridden>> /\ deleted' = TRUE /\ row'[b] = NoRow
  BY DEF DeleteSession, executor
<1>2. StatusOf(row[b])' = NoRow /\ (Answered(b)' => Answered(b)) /\ (CutShort(b) => CutShort(b)')
  BY <1>1 DEF StatusOf, Answered, CutShort
<1> QED BY <1>1, <1>2 DEF CancelInv, CancelHeld, Driven

\* A boot ends every executor: the one it finds PROCESSING was cut short, the others have
\* an ended row.
LEMMA RestartKeepsCancel ==
  ASSUME Inv, NEW b \in Batches, CancelInv(b), Restart
  PROVE  CancelInv(b)'
<1>1. /\ UNCHANGED <<deleted, overridden>> /\ pc'[b] = "none"
      /\ row'[b] = IF Orphaned(row[b]) THEN [row[b] EXCEPT !.status = "failed"] ELSE row[b]
      /\ row[b] # NoRow => row'[b] # NoRow
  BY RestartMoves
<1>2. Answered(b)' => Answered(b)
  <2>1. \A c \in Cancels : cancel'[c].pc = "done" => cancel'[c] = cancel[c]
    BY RestartMoves
  <2> QED BY <1>1, <2>1 DEF Answered
<1>3. /\ Orphaned(row[b]) => CutShort(b)'
      /\ CutShort(b) => CutShort(b)'
  BY DEF CutShort, Restart, MemoryLost
<1>4. CASE Orphaned(row[b])
  BY <1>1, <1>2, <1>3, <1>4, CancelInvCut
<1>5. CASE ~Orphaned(row[b])
  <2>1. StatusOf(row[b])' = StatusOf(row[b]) /\ StatusOf(row[b]) # "processing"
    BY <1>1, <1>5, NoRowAssumption DEF StatusOf, Orphaned, BatchStatus
  <2>3. Answered(b) => CancelHeld(b)'
    BY <1>1, <1>3, <2>1 DEF CancelInv, CancelHeld, Driven
  <2> QED BY <1>1, <1>2, <2>3 DEF CancelInv, Driven
<1> QED BY <1>4, <1>5

LEMMA CancelNext ==
  ASSUME Inv, [Next]_vars, \A b \in Batches : CancelInv(b)
  PROVE  \A b \in Batches : CancelInv(b)'
<1> SUFFICES ASSUME NEW a \in Batches PROVE CancelInv(a)'
  OBVIOUS
<1>0. CancelInv(a) /\ Typed
  BY DEF Inv
<1>1. ASSUME NEW b \in Batches, ExecutorStep(b) \/ CreateBatch(b)
      PROVE  CancelInv(a)'
  <2>1. CASE a = b
    BY <1>0, <1>1, <2>1, ExecutorKeepsCancel, CreateKeepsCancel
  <2>2. CASE a # b
    BY <1>0, <1>1, <2>2, CancelInvOthers
  <2> QED BY <2>1, <2>2
<1>2. ASSUME NEW c \in Cancels, NEW b \in Batches, CancelReads(c, b)
      PROVE  CancelInv(a)'
  BY <1>0, <1>2, CancelReadsKeepsCancel
<1>3. CASE UNCHANGED vars
  <2>1. Answered(a)' => Answered(a)
    BY <1>3 DEF vars, Answered
  <2>2. CutShort(a) => CutShort(a)'
    BY <1>3 DEF vars, CutShort
  <2> QED BY <1>0, <1>3, <2>1, <2>2, CancelInvMoves DEF vars, executor
<1> QED BY <1>0, <1>1, <1>2, <1>3, CancelKeepsCancel, DeleteKeepsCancel, RestartKeepsCancel DEF Next

\* A cancel that the executor's own process has answered holds, for any number of batches
\* and of cancels of the same batch, whatever the executor was saving meanwhile, unless it
\* was answered while the batch was PENDING and the executor then wrote over it.
THEOREM CancelIsKept == Spec => []CancelHolds
<1> DEFINE All == \A b \in Batches : CancelInv(b)
<1>1. Init => All
  <2> SUFFICES ASSUME Init, NEW b \in Batches PROVE CancelInv(b)
    OBVIOUS
  <2>1. pc[b] = "none" /\ \A c \in Cancels : cancel[c].pc = "idle"
    BY DEF Init, NoRequest
  <2> QED BY <2>1 DEF CancelInv, Answered, Driven
<1>2. Inv /\ All /\ [Next]_vars => All'
  BY CancelNext
<1>3. Inv /\ All => CancelHolds
  <2> SUFFICES ASSUME Inv, All, NEW c \in Cancels, cancel[c].pc = "done",
                      c \notin Remote \union overridden,
                      AtRest(cancel[c].batch), ~CutShort(cancel[c].batch)
               PROVE  StatusOf(row[cancel[c].batch]) \in {"cancelled", NoRow}
    BY DEF CancelHolds
  <2>1. cancel[c].batch \in Batches /\ Answered(cancel[c].batch) /\ pc[cancel[c].batch] = "none"
    BY DEF Inv, RequestInv, Answered, AtRest
  <2> QED BY <2>1 DEF CancelInv, CancelHeld, Driven
<1> HIDE DEF All
<1> QED BY <1>1, <1>2, <1>3, Invariant, PTL DEF Spec

-----------------------------------------------------------------------------
(***************************************************************************)
(* The chat page.                                                          *)
(***************************************************************************)

\* A thread holds its chat's messages, each key once; a placeholder waits for the send under way.
Whole(list, c, s) ==
  /\ list \in Seq(Bubble)
  /\ \A i \in 1..Len(list) :
       /\ ChatOf[list[i].msg] = c
       /\ list[i].kind = "temp" /\ list[i].tick = "pending" => list[i].msg = s
  /\ \A i, j \in 1..Len(list) : Key(list[i]) = Key(list[j]) => i = j
Threads == \A c \in Chats : thread[c] # Absent => Whole(thread[c], c, sending)

\* The rows a fetch has read are the chat's, and one for a message.
RowsRead(c) ==
  /\ IsFiniteSet(load[c].rows)
  /\ \A b \in load[c].rows : ChatOf[b.msg] = c /\ b.kind # "temp"
  /\ \A a, b \in load[c].rows : a.msg = b.msg => a = b
  /\ load[c].st # "read" => load[c].rows = {}
Loads == \A c \in Chats : RowsRead(c)

\* What was announced has its row, and is shown, on its way or known to be missed, in the thread
\* and in the rows that will replace it.
Announced == \A m \in announced : at[m] \in {"engine", "stored"} /\ HasRow(m)
Accounted(m) == <<"message", m>> \in wire \/ m \in missed
Followed ==
  \A m \in announced :
    /\ ChatOf[m] \in landed => Shows(thread[ChatOf[m]], m) \/ Accounted(m)
    /\ Overtook(m) => Accounted(m)

\* The session on the page has the last word in what is asked of the server.
Subscribed ==
  LET on == <<"on", selected>>
      off == <<"off", selected>>
  IN  online =>
        \/ \E i \in 1..Len(up) : up[i] = on /\ \A j \in 1..Len(up) : i < j => up[j] # off
        \/ selected \in joining \union joined /\ \A j \in 1..Len(up) : up[j] # off

Begun == {m \in Messages : at[m] # "none"}
ViewInv ==
  /\ ViewTypeOK /\ Threads /\ Loads /\ Announced /\ Followed /\ Subscribed
  /\ IsFiniteSet(Begun)
  /\ \A c \in landed : thread[c] # Absent

-----------------------------------------------------------------------------
\* Lists of bubbles.

\* Whatever of a list is shown is shown by the other: the statement of TicksAdvance on two lists.
Kept(old, new) ==
  \A i \in DOMAIN old : \E j \in DOMAIN new :
    /\ new[j].msg = old[i].msg
    /\ old[i].kind \in {"wa", new[j].kind} => new[j].kind = old[i].kind
    /\ old[i].kind = new[j].kind => Advances(old[i].tick, new[j].tick)

LEMMA Merged ==
  ASSUME NEW t \in Ticks, NEW u \in Ticks
  PROVE  /\ MergeDeliveryStatus(t, u) \in Ticks
         /\ Advances(t, MergeDeliveryStatus(t, u)) /\ Advances(t, t)
         /\ MergeDeliveryStatus(t, u) = "pending" => t = "pending" /\ u # "failed"
<1>1. /\ Rank["pending"] = 0 /\ Rank["sent"] = 1 /\ Rank["delivered"] = 2 /\ Rank["read"] = 3
  BY DEF Rank
<1>2. t \in {"pending", "sent", "delivered", "read", "failed"}
  BY DEF Ticks, Receipts
<1>3. u \in {"pending", "sent", "delivered", "read", "failed"}
  BY DEF Ticks, Receipts
<1>4. CASE t = "failed"
  BY <1>4 DEF MergeDeliveryStatus, Advances, Ticks
<1>5. CASE t # "failed" /\ u = "failed"
  BY <1>1, <1>2, <1>5 DEF MergeDeliveryStatus, Advances, Ticks, Receipts
<1>6. CASE t # "failed" /\ u # "failed"
  BY <1>1, <1>2, <1>3, <1>6 DEF MergeDeliveryStatus, Advances, Ticks, Receipts
<1>7. QED
  BY <1>4, <1>5, <1>6

LEMMA BubbleParts ==
  ASSUME NEW b \in Bubble
  PROVE  /\ b.kind \in {"wa", "row", "temp"} /\ b.msg \in Messages /\ b.tick \in Ticks
         /\ Key(b) = <<b.kind, b.msg>>
  BY DEF Bubble, Key

LEMMA KeptItself ==
  ASSUME NEW list \in Seq(Bubble) PROVE Kept(list, list)
<1>1. SUFFICES ASSUME NEW i \in DOMAIN list
               PROVE  Advances(list[i].tick, list[i].tick)
  BY DEF Kept
<1>2. list[i] \in Bubble
  BY <1>1
<1>3. QED
  BY <1>2, BubbleParts, Merged

LEMMA KeptShows ==
  ASSUME NEW old, NEW new, Kept(old, new), NEW m, Shows(old, m)
  PROVE  Shows(new, m)
  BY DEF Kept, Shows

\* A status is given to the bubble with a key.
LEMMA Ticked ==
  ASSUME NEW list \in Seq(Bubble), NEW key, NEW t \in Ticks
  PROVE  LET new == WithTick(list, key, t) IN
         /\ new \in Seq(Bubble) /\ Len(new) = Len(list)
         /\ \A i \in 1..Len(list) :
              /\ new[i].kind = list[i].kind /\ new[i].msg = list[i].msg /\ Key(new[i]) = Key(list[i])
              /\ new[i].tick = IF Key(list[i]) = key THEN MergeDeliveryStatus(list[i].tick, t)
                                                     ELSE list[i].tick
         /\ Kept(list, new)
<1> DEFINE f == [i \in 1..Len(list) |->
                   IF Key(list[i]) = key
                   THEN [list[i] EXCEPT !.tick = MergeDeliveryStatus(@, t)] ELSE list[i]]
<1>1. WithTick(list, key, t) = f
  BY DEF WithTick
<1>2. ASSUME NEW i \in 1..Len(list)
      PROVE  /\ f[i] \in Bubble
             /\ f[i].kind = list[i].kind /\ f[i].msg = list[i].msg /\ Key(f[i]) = Key(list[i])
             /\ f[i].tick = IF Key(list[i]) = key THEN MergeDeliveryStatus(list[i].tick, t)
                                                  ELSE list[i].tick
             /\ Advances(list[i].tick, f[i].tick)
  <2>1. list[i] \in Bubble
    OBVIOUS
  <2>2. list[i].tick \in Ticks
    BY <2>1, BubbleParts
  <2>3. MergeDeliveryStatus(list[i].tick, t) \in Ticks
    BY <2>2, Merged
  <2>4. CASE Key(list[i]) = key
    <3>1. f[i] = [list[i] EXCEPT !.tick = MergeDeliveryStatus(list[i].tick, t)]
      BY <2>4
    <3>2. /\ f[i] \in Bubble /\ f[i].kind = list[i].kind /\ f[i].msg = list[i].msg
          /\ f[i].tick = MergeDeliveryStatus(list[i].tick, t)
      BY <2>1, <2>3, <3>1 DEF Bubble
    <3>3. QED
      BY <2>2, <2>4, <3>2, Merged DEF Key
  <2>5. CASE Key(list[i]) # key
    <3>1. f[i] = list[i]
      BY <2>5
    <3>2. QED
      BY <2>1, <2>2, <2>5, <3>1, Merged
  <2>6. QED
    BY <2>4, <2>5
<1>3. f \in Seq(Bubble) /\ Len(f) = Len(list) /\ DOMAIN f = 1..Len(list)
  <2>1. f \in [1..Len(list) -> Bubble] /\ Len(list) \in Nat
    BY <1>2
  <2>2. QED
    BY <2>1
<1> HIDE DEF f
<1>4. Kept(list, f)
  BY <1>2, <1>3 DEF Kept
<1>5. QED
  BY <1>1, <1>2, <1>3, <1>4

LEMMA TickedWhole ==
  ASSUME NEW c, NEW s, NEW list, Whole(list, c, s), NEW key, NEW t \in Ticks
  PROVE  Whole(WithTick(list, key, t), c, s) /\ Kept(list, WithTick(list, key, t))
<1>1. PICK new : new = WithTick(list, key, t)
  OBVIOUS
<1>2. list \in Seq(Bubble)
  BY DEF Whole
<1>3. /\ new \in Seq(Bubble) /\ Len(new) = Len(list)
      /\ \A i \in 1..Len(list) :
           /\ new[i].kind = list[i].kind /\ new[i].msg = list[i].msg /\ Key(new[i]) = Key(list[i])
           /\ new[i].tick = IF Key(list[i]) = key THEN MergeDeliveryStatus(list[i].tick, t)
                                                  ELSE list[i].tick
      /\ Kept(list, new)
  BY <1>1, <1>2, Ticked
<1>4. ASSUME NEW i \in 1..Len(new), new[i].kind = "temp", new[i].tick = "pending"
      PROVE  new[i].msg = s
  <2>1. list[i].tick \in Ticks
    BY <1>2, <1>3, BubbleParts
  <2>2. list[i].tick = "pending"
    BY <1>3, <1>4, <2>1, Merged
  <2>3. QED
    BY <1>3, <1>4, <2>2 DEF Whole
<1>5. QED
  BY <1>1, <1>3, <1>4 DEF Whole

\* The placeholder's failure leaves none that waits.
LEMMA FailedWhole ==
  ASSUME NEW c, NEW m \in Messages, NEW list, Whole(list, c, m)
  PROVE  /\ Whole(WithTick(list, <<"temp", m>>, "failed"), c, NoMessage)
         /\ Kept(list, WithTick(list, <<"temp", m>>, "failed"))
<1>1. PICK new : new = WithTick(list, <<"temp", m>>, "failed")
  OBVIOUS
<1>2. list \in Seq(Bubble) /\ "failed" \in Ticks
  BY DEF Whole, Ticks
<1>3. /\ new \in Seq(Bubble) /\ Len(new) = Len(list)
      /\ \A i \in 1..Len(list) :
           /\ new[i].kind = list[i].kind /\ new[i].msg = list[i].msg /\ Key(new[i]) = Key(list[i])
           /\ new[i].tick = IF Key(list[i]) = <<"temp", m>>
                            THEN MergeDeliveryStatus(list[i].tick, "failed") ELSE list[i].tick
      /\ Kept(list, new)
  BY <1>1, <1>2, Ticked
<1>4. ASSUME NEW i \in 1..Len(new), new[i].kind = "temp" PROVE new[i].tick # "pending"
  <2>1. list[i].tick \in Ticks /\ Key(list[i]) = <<list[i].kind, list[i].msg>>
    BY <1>2, <1>3, BubbleParts
  <2>2. CASE list[i].msg = m
    <3>1. Key(list[i]) = <<"temp", m>>
      BY <1>3, <1>4, <2>1, <2>2
    <3>2. new[i].tick = MergeDeliveryStatus(list[i].tick, "failed")
      BY <1>3, <3>1
    <3>3. QED
      BY <1>2, <2>1, <3>2, Merged
  <2>3. CASE list[i].msg # m
    <3>1. list[i].tick # "pending"
      BY <1>3, <1>4, <2>3 DEF Whole
    <3>2. Key(list[i]) # <<"temp", m>>
      BY <2>1, <2>3
    <3>3. QED
      BY <1>3, <3>1, <3>2
  <2>4. QED
    BY <2>2, <2>3
<1>5. QED
  BY <1>1, <1>3, <1>4 DEF Whole

LEMMA AppendedWhole ==
  ASSUME NEW c, NEW s, NEW list, Whole(list, c, s), NEW b \in Bubble, ChatOf[b.msg] = c,
         \A i \in 1..Len(list) : Key(list[i]) # Key(b),
         b.kind = "temp" => b.msg = s
  PROVE  /\ Whole(Append(list, b), c, s) /\ Kept(list, Append(list, b))
         /\ Shows(Append(list, b), b.msg)
<1>1. PICK new : new = Append(list, b)
  OBVIOUS
<1>2. list \in Seq(Bubble) /\ Len(list) \in Nat
  BY DEF Whole
<1>3. /\ new \in Seq(Bubble) /\ Len(new) = Len(list) + 1 /\ new[Len(list) + 1] = b
      /\ \A i \in 1..Len(list) : new[i] = list[i]
  BY <1>1, <1>2, AppendProperties
<1>4. \A i \in 1..Len(new) : i \in 1..Len(list) \/ i = Len(list) + 1
  BY <1>2, <1>3
<1>5. ASSUME NEW i \in 1..Len(new)
      PROVE  /\ ChatOf[new[i].msg] = c
             /\ new[i].kind = "temp" /\ new[i].tick = "pending" => new[i].msg = s
  BY <1>3, <1>4 DEF Whole
<1>6. ASSUME NEW i \in 1..Len(new), NEW j \in 1..Len(new), Key(new[i]) = Key(new[j])
      PROVE  i = j
  <2>1. CASE i \in 1..Len(list) /\ j \in 1..Len(list)
    BY <1>3, <1>6, <2>1 DEF Whole
  <2>2. CASE i = Len(list) + 1 /\ j \in 1..Len(list)
    BY <1>3, <1>6, <2>2
  <2>3. CASE i \in 1..Len(list) /\ j = Len(list) + 1
    BY <1>3, <1>6, <2>3
  <2>4. QED
    BY <1>4, <2>1, <2>2, <2>3
<1>7. Whole(new, c, s)
  BY <1>3, <1>5, <1>6 DEF Whole
<1>8. DOMAIN new = 1..Len(list) + 1 /\ DOMAIN list = 1..Len(list)
  BY <1>2, <1>3
<1>9. Kept(list, new)
  <2>1. SUFFICES ASSUME NEW i \in 1..Len(list)
                 PROVE  i \in DOMAIN new /\ new[i] = list[i] /\ Advances(list[i].tick, list[i].tick)
    BY <1>8 DEF Kept
  <2>2. list[i] \in Bubble
    BY <1>2
  <2>3. i \in DOMAIN new /\ new[i] = list[i]
    BY <1>2, <1>3, <1>8
  <2>4. QED
    BY <2>2, <2>3, BubbleParts, Merged
<1>10. Shows(new, b.msg)
  BY <1>2, <1>3, <1>8 DEF Shows
<1>11. QED
  BY <1>1, <1>7, <1>9, <1>10

LEMMA MergedWhole ==
  ASSUME NEW c, NEW s, NEW list, Whole(list, c, s), list # Absent, NEW b \in Bubble, ChatOf[b.msg] = c,
         b.kind = "temp" => b.msg = s
  PROVE  /\ Whole(MergeOrAppend(list, b), c, s) /\ Kept(list, MergeOrAppend(list, b))
         /\ Shows(MergeOrAppend(list, b), b.msg)
<1>1. list \in Seq(Bubble) /\ b.tick \in Ticks /\ DOMAIN list = 1..Len(list)
  BY BubbleParts DEF Whole
<1>2. CASE Held(list, Key(b))
  <2>1. MergeOrAppend(list, b) = WithTick(list, Key(b), b.tick)
    BY <1>2 DEF MergeOrAppend
  <2>2. Whole(WithTick(list, Key(b), b.tick), c, s) /\ Kept(list, WithTick(list, Key(b), b.tick))
    BY <1>1, TickedWhole
  <2>3. Shows(list, b.msg)
    <3>1. PICK i \in 1..Len(list) : Key(list[i]) = Key(b)
      BY <1>1, <1>2 DEF Held
    <3>2. list[i].msg = b.msg
      BY <1>1, <3>1, BubbleParts
    <3>3. QED
      BY <1>1, <3>2 DEF Shows
  <2>4. QED
    BY <2>1, <2>2, <2>3, KeptShows
<1>3. CASE ~Held(list, Key(b))
  <2>1. \A i \in 1..Len(list) : Key(list[i]) # Key(b)
    BY <1>1, <1>3 DEF Held
  <2>2. MergeOrAppend(list, b) = Append(list, b)
    BY <1>3 DEF MergeOrAppend
  <2>3. QED
    BY <2>1, <2>2, AppendedWhole
<1>4. QED
  BY <1>2, <1>3

LEMMA WholeWithout ==
  ASSUME NEW list, NEW c, Whole(list, c, NoMessage), NEW s PROVE Whole(list, c, s)
<1>1. ASSUME NEW i \in 1..Len(list) PROVE list[i].msg # NoMessage
  BY BubbleParts, ChatViewAssumption DEF Whole
<1>2. QED
  BY <1>1 DEF Whole

LEMMA EmptyWhole ==
  ASSUME NEW c, NEW s PROVE Whole(<<>>, c, s)
<1>1. <<>> \in Seq(Bubble) /\ Len(<<>>) = 0
  OBVIOUS
<1>2. QED
  BY <1>1 DEF Whole

\* The answer renames the placeholder, or drops it: no other waits.
LEMMA RenamedWhole ==
  ASSUME NEW c, NEW m \in Messages, NEW list, Whole(list, c, m), ~Held(list, <<"wa", m>>), list # Absent
  PROVE  Whole(Renamed(list, m), c, NoMessage) /\ Kept(list, Renamed(list, m))
<1> DEFINE f == [i \in 1..Len(list) |-> IF Key(list[i]) = <<"temp", m>> THEN Wa(m, "sent") ELSE list[i]]
<1>1. list \in Seq(Bubble) /\ DOMAIN list = 1..Len(list) /\ Len(list) \in Nat
  BY DEF Whole
<1>2. Renamed(list, m) = f
  BY <1>1 DEF Renamed
<1>3. Wa(m, "sent") \in Bubble /\ Wa(m, "sent").kind = "wa" /\ Wa(m, "sent").msg = m
  BY DEF Wa, Bubble, Ticks
<1>4. \A i \in 1..Len(list) : Key(list[i]) = <<list[i].kind, list[i].msg>> /\ list[i] \in Bubble
  BY <1>1, BubbleParts
<1>5. /\ f \in Seq(Bubble) /\ Len(f) = Len(list) /\ DOMAIN f = 1..Len(list)
      /\ \A i \in 1..Len(list) : f[i] = IF Key(list[i]) = <<"temp", m>> THEN Wa(m, "sent") ELSE list[i]
  <2>1. f \in [1..Len(list) -> Bubble]
    BY <1>3, <1>4
  <2>2. QED
    BY <1>1, <2>1
<1> HIDE DEF f
<1>6. ASSUME NEW i \in 1..Len(list)
      PROVE  /\ f[i].msg = list[i].msg
             /\ f[i].kind = "temp" => f[i].tick # "pending"
             /\ Key(f[i]) = IF Key(list[i]) = <<"temp", m>> THEN <<"wa", m>> ELSE Key(list[i])
  <2>1. CASE Key(list[i]) = <<"temp", m>>
    <3>1. f[i] = Wa(m, "sent") /\ list[i].msg = m
      BY <1>4, <1>5, <2>1
    <3>2. QED
      BY <1>3, <2>1, <3>1 DEF Key
  <2>2. CASE Key(list[i]) # <<"temp", m>>
    <3>1. f[i] = list[i]
      BY <1>5, <2>2
    <3>2. list[i].kind = "temp" => list[i].msg # m
      BY <1>4, <2>2
    <3>3. list[i].kind = "temp" => list[i].tick # "pending"
      BY <3>2 DEF Whole
    <3>4. QED
      BY <2>2, <3>1, <3>3
  <2>3. QED
    BY <2>1, <2>2
<1>7. \A i \in 1..Len(list) : Key(list[i]) # <<"wa", m>>
  BY <1>1 DEF Held
<1>8. ASSUME NEW i \in 1..Len(list), NEW j \in 1..Len(list), Key(f[i]) = Key(f[j]) PROVE i = j
  <2>1. Key(list[i]) = Key(list[j])
    BY <1>6, <1>7, <1>8
  <2>2. QED
    BY <2>1 DEF Whole
<1>9. Whole(f, c, NoMessage)
  BY <1>5, <1>6, <1>8 DEF Whole
<1>10. Kept(list, f)
  <2>1. SUFFICES ASSUME NEW i \in 1..Len(list)
                 PROVE  /\ f[i].msg = list[i].msg
                        /\ list[i].kind \in {"wa", f[i].kind} => f[i].kind = list[i].kind
                        /\ list[i].kind = f[i].kind => Advances(list[i].tick, f[i].tick)
    BY <1>1, <1>5 DEF Kept
  <2>2. CASE Key(list[i]) = <<"temp", m>>
    <3>1. f[i] = Wa(m, "sent") /\ list[i].kind = "temp" /\ list[i].msg = m
      BY <1>4, <1>5, <2>2
    <3>2. QED
      BY <1>3, <3>1
  <2>3. CASE Key(list[i]) # <<"temp", m>>
    BY <1>4, <1>5, <2>3, BubbleParts, Merged
  <2>4. QED
    BY <2>2, <2>3
<1>11. QED
  BY <1>2, <1>9, <1>10

LEMMA MinOf ==
  ASSUME NEW I, I \subseteq Nat, I # {} PROVE Min(I) \in I
<1>1. PICK x \in I : \A y \in I : <<y, x>> \notin OpToRel(<, Nat)
  BY NatLessThanWellFounded, WFMin
<1>2. \A y \in I : ~(y < x)
  BY <1>1 DEF OpToRel
<1>3. \A y \in I : x <= y
  BY <1>2
<1>4. QED
  BY <1>3 DEF Min

LEMMA TakenOut ==
  ASSUME NEW S, NEW s \in Seq(S), NEW n \in 1..Len(s)
  PROVE  /\ RemoveAt(s, n) \in Seq(S) /\ Len(RemoveAt(s, n)) = Len(s) - 1
         /\ \A i \in 1..Len(s) - 1 : RemoveAt(s, n)[i] = IF i < n THEN s[i] ELSE s[i + 1]
<1> DEFINE a == SubSeq(s, 1, n - 1)
           b == SubSeq(s, n + 1, Len(s))
<1>1. a \in Seq(S) /\ Len(a) = n - 1 /\ \A i \in 1..n - 1 : a[i] = s[i]
  BY SubSeqProperties
<1>2. b \in Seq(S) /\ Len(b) = Len(s) - n /\ \A i \in 1..Len(s) - n : b[i] = s[n + i]
  BY SubSeqProperties
<1> HIDE DEF a, b
<1>3. /\ a \o b \in Seq(S) /\ Len(a \o b) = Len(s) - 1
      /\ \A i \in 1..Len(s) - 1 : (a \o b)[i] = IF i <= n - 1 THEN a[i] ELSE b[i - (n - 1)]
  <2>1. Len(a) + Len(b) = Len(s) - 1
    BY <1>1, <1>2
  <2>2. /\ a \o b \in Seq(S) /\ Len(a \o b) = Len(a) + Len(b)
        /\ \A i \in 1..Len(a) + Len(b) : (a \o b)[i] = IF i <= Len(a) THEN a[i] ELSE b[i - Len(a)]
    BY <1>1, <1>2, ConcatProperties
  <2>3. QED
    BY <1>1, <2>1, <2>2
<1>4. \A i \in 1..Len(s) - 1 : i >= n => b[i - (n - 1)] = s[i + 1]
  BY <1>2
<1>5. RemoveAt(s, n) = a \o b
  BY DEF RemoveAt, a, b
<1>6. QED
  BY <1>1, <1>3, <1>4, <1>5

\* A list without one of its bubbles has the others.
LEMMA DroppedWhole ==
  ASSUME NEW c, NEW m \in Messages, NEW list, Whole(list, c, m), NEW n \in 1..Len(list),
         Key(list[n]) = <<"temp", m>>,
         NEW k \in 1..Len(list), Key(list[k]) = <<"wa", m>>
  PROVE  Whole(RemoveAt(list, n), c, NoMessage) /\ Kept(list, RemoveAt(list, n))
<1>1. list \in Seq(Bubble) /\ DOMAIN list = 1..Len(list) /\ Len(list) \in Nat
  BY DEF Whole
<1>2. PICK new : new = RemoveAt(list, n)
  OBVIOUS
<1>3. /\ new \in Seq(Bubble) /\ Len(new) = Len(list) - 1
      /\ \A i \in 1..Len(list) - 1 : new[i] = IF i < n THEN list[i] ELSE list[i + 1]
  BY <1>1, <1>2, TakenOut
<1>4. \A i \in 1..Len(list) : Key(list[i]) = <<list[i].kind, list[i].msg>> /\ list[i] \in Bubble
  BY <1>1, BubbleParts
<1> DEFINE from(i) == IF i < n THEN i ELSE i + 1
<1>5. \A i \in 1..Len(new) : from(i) \in 1..Len(list) /\ from(i) # n /\ new[i] = list[from(i)]
  BY <1>1, <1>3
<1>6. \A i, j \in 1..Len(new) : from(i) = from(j) => i = j
  BY <1>1, <1>3
<1>7. \A i \in 1..Len(list) : i # n => \E j \in 1..Len(new) : new[j] = list[i]
  <2>1. SUFFICES ASSUME NEW i \in 1..Len(list), i # n PROVE \E j \in 1..Len(new) : new[j] = list[i]
    OBVIOUS
  <2>2. CASE i < n
    BY <1>1, <1>3, <2>2
  <2>3. CASE i > n
    <3>1. i - 1 \in 1..Len(new) /\ ~(i - 1 < n) /\ (i - 1) + 1 = i
      BY <1>1, <1>3, <2>3
    <3>2. new[i - 1] = list[i]
      BY <1>1, <1>3, <3>1
    <3>3. QED
      BY <3>1, <3>2
  <2>4. QED
    BY <2>1, <2>2, <2>3
<1> HIDE DEF from
<1>8. \A i \in 1..Len(list) : i # n => Key(list[i]) # <<"temp", m>>
  BY DEF Whole
<1>9. Whole(new, c, NoMessage)
  <2>1. ASSUME NEW i \in 1..Len(new)
        PROVE  ChatOf[new[i].msg] = c /\ ~(new[i].kind = "temp" /\ new[i].tick = "pending")
    <3>1. PICK l \in 1..Len(list) : l # n /\ new[i] = list[l]
      BY <1>5
    <3>2. list[l].kind = "temp" => list[l].msg # m
      BY <1>4, <1>8, <3>1
    <3>3. QED
      BY <3>1, <3>2 DEF Whole
  <2>2. ASSUME NEW i \in 1..Len(new), NEW j \in 1..Len(new), Key(new[i]) = Key(new[j]) PROVE i = j
    <3>1. from(i) = from(j)
      BY <1>5, <2>2 DEF Whole
    <3>2. QED
      BY <1>6, <3>1
  <2>3. QED
    BY <1>3, <2>1, <2>2 DEF Whole
<1>10. Kept(list, new)
  <2>1. DOMAIN new = 1..Len(new)
    BY <1>3
  <2>2. SUFFICES ASSUME NEW i \in 1..Len(list)
                 PROVE  \E j \in 1..Len(new) :
                          /\ new[j].msg = list[i].msg
                          /\ list[i].kind \in {"wa", new[j].kind} => new[j].kind = list[i].kind
                          /\ list[i].kind = new[j].kind => Advances(list[i].tick, new[j].tick)
    BY <1>1, <2>1 DEF Kept
  <2>3. CASE i = n
    <3>1. n # k /\ list[n].kind = "temp" /\ list[n].msg = m /\ list[k].kind = "wa" /\ list[k].msg = m
      BY <1>4
    <3>2. PICK j \in 1..Len(new) : new[j] = list[k]
      BY <1>7, <3>1
    <3>3. QED
      BY <2>3, <3>1, <3>2
  <2>4. CASE i # n
    <3>1. PICK j \in 1..Len(new) : new[j] = list[i]
      BY <1>7, <2>4
    <3>2. Advances(list[i].tick, list[i].tick)
      BY <1>4, BubbleParts, Merged
    <3>3. QED
      BY <3>1, <3>2
  <2>5. QED
    BY <2>3, <2>4
<1>11. QED
  BY <1>2, <1>9, <1>10

LEMMA ResolvedWhole ==
  ASSUME NEW c, NEW m \in Messages, NEW list, Whole(list, c, m), list # Absent
  PROVE  Whole(Resolved(list, m), c, NoMessage) /\ Kept(list, Resolved(list, m))
<1>1. list \in Seq(Bubble) /\ DOMAIN list = 1..Len(list) /\ Len(list) \in Nat
  BY DEF Whole
<1>2. CASE ~Held(list, <<"wa", m>>)
  BY <1>2, RenamedWhole DEF Resolved
<1>3. CASE Held(list, <<"wa", m>>)
  <2>1. PICK k \in 1..Len(list) : Key(list[k]) = <<"wa", m>>
    BY <1>1, <1>3 DEF Held
  <2> DEFINE I == {i \in 1..Len(list) : Key(list[i]) = <<"temp", m>>}
  <2>2. CASE I = {}
    <3>1. Resolved(list, m) = list
      BY <1>3, <2>2 DEF Resolved, RemoveFirstMatch
    <3>2. \A i \in 1..Len(list) : list[i].kind = "temp" => list[i].msg # m
      BY <1>1, <2>2, BubbleParts
    <3>3. Whole(list, c, NoMessage)
      BY <3>2 DEF Whole
    <3>4. QED
      BY <1>1, <3>1, <3>3, KeptItself
  <2>3. CASE I # {}
    <3>1. Min(I) \in I
      <4>1. I \subseteq Nat
        BY <1>1
      <4>2. QED
        BY <2>3, <4>1, MinOf
    <3>2. Resolved(list, m) = RemoveAt(list, Min(I))
      BY <1>1, <1>3, <2>3 DEF Resolved, RemoveFirstMatch, SelectInSeq
    <3>3. PICK n \in 1..Len(list) : Key(list[n]) = <<"temp", m>> /\ n = Min(I)
      BY <3>1
    <3>4. QED
      BY <2>1, <3>2, <3>3, DroppedWhole
  <2>4. QED
    BY <2>2, <2>3
<1>4. QED
  BY <1>2, <1>3

\* What the library makes of a finite set: its elements, each once.
LEMMA Listed ==
  ASSUME NEW S, IsFiniteSet(S)
  PROVE  /\ SetToSeq(S) \in Seq(S)
         /\ \A i, j \in 1..Len(SetToSeq(S)) : SetToSeq(S)[i] = SetToSeq(S)[j] => i = j
         /\ \A x \in S : \E i \in 1..Len(SetToSeq(S)) : SetToSeq(S)[i] = x
<1> DEFINE n == Cardinality(S)
<1>1. n \in Nat /\ ExistsBijection(1..n, S)
  BY FS_CardinalityType
<1>2. PICK g \in [1..n -> S] : IsInjective(g)
  BY <1>1 DEF ExistsBijection, Bijection, Injection
<1>3. PICK f : f = SetToSeq(S)
  OBVIOUS
<1>4. f \in [1..n -> S] /\ IsInjective(f)
  BY <1>2, <1>3 DEF SetToSeq
<1>5. IsFiniteSet(1..n) /\ Cardinality(1..n) = n
  BY <1>1, FS_Interval
<1>6. f \in Injection(1..n, S)
  BY <1>4 DEF Injection
<1>7. f \in Surjection(1..n, S)
  BY <1>5, <1>6, FS_Injection
<1> HIDE DEF n
<1>8. f \in Seq(S) /\ Len(f) = n /\ DOMAIN f = 1..n
  BY <1>1, <1>4
<1>9. \A x \in S : \E i \in 1..n : f[i] = x
  BY <1>7 DEF Surjection
<1>10. \A i, j \in 1..n : f[i] = f[j] => i = j
  BY <1>4, <1>8 DEF IsInjective
<1>11. QED
  BY <1>3, <1>8, <1>9, <1>10

LEMMA LandedWhole ==
  ASSUME ViewInv, NEW c \in Chats, NEW history \in Histories(c), NEW s
  PROVE  /\ Whole(MergeChatMessages(load[c].rows, history), c, s)
         /\ \A b \in load[c].rows : Shows(MergeChatMessages(load[c].rows, history), b.msg)
<1> DEFINE db == load[c].rows
           kept == {h \in history : \A b \in db : Key(b) # Key(h)}
           all == {Wa(m, "read") : m \in Begun}
<1>1. /\ RowsRead(c) /\ IsFiniteSet(Begun) /\ at \in [Messages -> Stages] /\ db \subseteq Bubble
  BY DEF ViewInv, ViewTypeOK, Loads, Load
<1>2. \A m \in Messages :
        Wa(m, "read") \in Bubble /\ Wa(m, "read").kind = "wa" /\ Wa(m, "read").msg = m
  BY DEF Wa, Bubble, Ticks, Receipts
<1>3. \A h \in history : /\ h \in all /\ h \in Bubble /\ h = Wa(h.msg, "read")
                         /\ h.kind = "wa" /\ ChatOf[h.msg] = c
  <2>1. SUFFICES ASSUME NEW h \in history
                 PROVE  /\ h \in all /\ h \in Bubble /\ h = Wa(h.msg, "read")
                        /\ h.kind = "wa" /\ ChatOf[h.msg] = c
    OBVIOUS
  <2>2. PICK m \in Messages : h = Wa(m, "read") /\ ChatOf[m] = c /\ at[m] \in {"engine", "stored"}
    BY <2>1 DEF Histories
  <2>3. m \in Begun
    BY <2>2 DEF Begun
  <2>4. QED
    BY <1>2, <2>2, <2>3
<1>4. IsFiniteSet(all)
  <2> DEFINE f == [m \in Begun |-> Wa(m, "read")]
  <2>1. f \in Surjection(Begun, all)
    BY DEF Surjection
  <2>2. QED
    BY <1>1, <2>1, FS_Surjection
<1>5. IsFiniteSet(kept)
  <2>1. kept \subseteq all
    BY <1>3
  <2>2. QED
    BY <1>4, <2>1, FS_Subset
<1>6. IsFiniteSet(db \union kept)
  BY <1>1, <1>5, FS_Union DEF RowsRead
<1> DEFINE list == SetToSeq(db \union kept)
<1>7. /\ list \in Seq(db \union kept)
      /\ \A i, j \in 1..Len(list) : list[i] = list[j] => i = j
      /\ \A x \in db \union kept : \E i \in 1..Len(list) : list[i] = x
  BY <1>6, Listed
<1>8. MergeChatMessages(db, history) = list
  BY DEF MergeChatMessages
<1>9. \A x \in db \union kept : x \in Bubble /\ ChatOf[x.msg] = c /\ x.kind # "temp"
  BY <1>1, <1>3 DEF RowsRead
<1>10. \A x, y \in db \union kept : Key(x) = Key(y) => x = y
  <2>1. SUFFICES ASSUME NEW x \in db \union kept, NEW y \in db \union kept, Key(x) = Key(y)
                 PROVE  x = y
    OBVIOUS
  <2>2. x.msg = y.msg
    BY <1>9, <2>1, BubbleParts
  <2>3. CASE x \in db /\ y \in db
    BY <1>1, <2>2, <2>3 DEF RowsRead
  <2>4. CASE x \in kept /\ y \in kept
    BY <1>3, <2>2, <2>4
  <2>5. ~(x \in db /\ y \in kept) /\ ~(x \in kept /\ y \in db)
    BY <2>1
  <2>6. QED
    BY <2>1, <2>3, <2>4, <2>5
<1> HIDE DEF db, kept, list
<1>11. list \in Seq(Bubble) /\ DOMAIN list = 1..Len(list)
  <2>1. db \union kept \subseteq Bubble
    BY <1>9
  <2>2. QED
    BY <1>7, <2>1
<1>12. \A i \in 1..Len(list) : list[i] \in db \union kept
  BY <1>7
<1>13. \A i, j \in 1..Len(list) : Key(list[i]) = Key(list[j]) => i = j
  BY <1>7, <1>10, <1>12
<1>14. Whole(list, c, s)
  BY <1>9, <1>11, <1>12, <1>13 DEF Whole
<1>15. \A b \in db : Shows(list, b.msg)
  BY <1>7, <1>11 DEF Shows
<1>16. QED
  BY <1>8, <1>14, <1>15 DEF db

-----------------------------------------------------------------------------
\* Steps.

\* A thread that stays keeps what it shows, and its placeholders wait for the send under way.
Grown(c) ==
  \/ thread[c] = Absent /\ thread'[c] = Absent
  \/ Whole(thread'[c], c, sending') /\ (thread[c] # Absent => Kept(thread[c], thread'[c]))
Ticking ==
  \A c \in Chats : thread[c] # Absent /\ thread'[c] # Absent /\ load'[c] = load[c] =>
                     Kept(thread[c], thread'[c])

LEMMA Facts ==
  ASSUME ViewInv
  PROVE  /\ selected \in Sessions /\ active \in Chats \union {NoChat}
         /\ thread \in [Chats -> Seq(Bubble) \union {Absent}]
         /\ load \in [Chats -> Load] /\ landed \subseteq Chats
         /\ sending \in Own \union {NoMessage} /\ announced \subseteq Messages
         /\ at \in [Messages -> Stages] /\ missed \subseteq Messages
         /\ \A m \in Messages : ChatOf[m] \in Chats /\ m # NoMessage
         /\ \A c \in Chats : thread[c] # Absent => Whole(thread[c], c, sending)
  BY ChatViewAssumption DEF ViewInv, ViewTypeOK, Threads

LEMMA WholeIsThere ==
  ASSUME NEW list, NEW c, NEW s, Whole(list, c, s) PROVE list \in Seq(Bubble) /\ list # Absent
  BY AbsentAssumption DEF Whole

LEMMA Unmoved ==
  ASSUME ViewInv, UNCHANGED <<thread, sending>> PROVE \A c \in Chats : Grown(c)
<1>1. SUFFICES ASSUME NEW c \in Chats, thread[c] # Absent
               PROVE  Whole(thread[c], c, sending) /\ Kept(thread[c], thread[c])
  BY DEF Grown
<1>2. Whole(thread[c], c, sending)
  BY <1>1, Facts
<1>3. QED
  BY <1>2, WholeIsThere, KeptItself

LEMMA GrowsAt ==
  ASSUME ViewInv, NEW c \in Chats, NEW list,
         thread' = [thread EXCEPT ![c] = list],
         Whole(list, c, sending'), thread[c] # Absent => Kept(thread[c], list),
         \A d \in Chats : d # c /\ thread[d] # Absent => Whole(thread[d], d, sending')
  PROVE  /\ \A d \in Chats : Grown(d)
         /\ thread' \in [Chats -> Seq(Bubble) \union {Absent}]
<1>1. list \in Seq(Bubble)
  BY WholeIsThere
<1>2. thread \in [Chats -> Seq(Bubble) \union {Absent}]
  BY Facts
<1>3. thread'[c] = list /\ \A d \in Chats : d # c => thread'[d] = thread[d]
  BY <1>2
<1>4. Grown(c)
  BY <1>3 DEF Grown
<1>5. ASSUME NEW d \in Chats, d # c PROVE Grown(d)
  <2>1. CASE thread[d] = Absent
    BY <1>3, <1>5, <2>1 DEF Grown
  <2>2. CASE thread[d] # Absent
    <3>1. thread[d] \in Seq(Bubble)
      BY <1>2, <2>2
    <3>2. Kept(thread[d], thread[d])
      BY <3>1, KeptItself
    <3>3. QED
      BY <1>3, <1>5, <2>2, <3>2 DEF Grown
  <2>3. QED
    BY <2>1, <2>2
<1>6. thread' \in [Chats -> Seq(Bubble) \union {Absent}]
  BY <1>1, <1>2
<1>7. QED
  BY <1>4, <1>5, <1>6

\* A bubble that is appended where the thread is cached.
LEMMA AppendGrows ==
  ASSUME ViewInv, NEW c \in Chats, NEW b \in Bubble, ChatOf[b.msg] = c,
         b.kind = "temp" => b.msg = sending',
         thread' = AppendMessage(c, b), sending = sending' \/ sending = NoMessage
  PROVE  /\ \A d \in Chats : Grown(d)
         /\ thread' \in [Chats -> Seq(Bubble) \union {Absent}]
         /\ thread[c] # Absent => Shows(thread'[c], b.msg)
<1>1. \A d \in Chats : thread[d] # Absent => Whole(thread[d], d, sending')
  BY Facts, WholeWithout
<1>2. thread \in [Chats -> Seq(Bubble) \union {Absent}]
  BY Facts
<1>3. CASE thread[c] = Absent
  <2>1. thread' = thread
    BY <1>2, <1>3 DEF AppendMessage
  <2>2. ASSUME NEW d \in Chats, thread[d] # Absent PROVE Kept(thread[d], thread[d])
    BY <1>2, <2>2, KeptItself
  <2>3. QED
    BY <1>1, <1>2, <1>3, <2>1, <2>2 DEF Grown
<1>4. CASE thread[c] # Absent
  <2>1. PICK list : list = MergeOrAppend(thread[c], b)
    OBVIOUS
  <2>2. thread' = [thread EXCEPT ![c] = list]
    BY <1>2, <1>4, <2>1 DEF AppendMessage
  <2>3. Whole(list, c, sending') /\ Kept(thread[c], list) /\ Shows(list, b.msg)
    BY <1>1, <1>4, <2>1, MergedWhole
  <2>4. /\ \A d \in Chats : Grown(d)
        /\ thread' \in [Chats -> Seq(Bubble) \union {Absent}]
    BY <1>1, <2>2, <2>3, GrowsAt
  <2>5. thread'[c] = list
    BY <1>2, <2>2
  <2>6. QED
    BY <2>3, <2>4, <2>5
<1>5. QED
  BY <1>3, <1>4

\* What follows for a step that loads and evicts nothing.
LEMMA GrownIsWhole ==
  ASSUME ViewInv, \A c \in Chats : Grown(c), landed' = landed
  PROVE  /\ Threads' /\ Ticking
         /\ \A c \in landed' : thread'[c] # Absent
         /\ \A m \in Messages : ChatOf[m] \in landed /\ Shows(thread[ChatOf[m]], m) =>
                                  Shows(thread'[ChatOf[m]], m)
<1>1. ASSUME NEW c \in Chats, thread[c] # Absent
      PROVE  Whole(thread'[c], c, sending') /\ thread'[c] # Absent /\ Kept(thread[c], thread'[c])
  <2>1. Whole(thread'[c], c, sending') /\ Kept(thread[c], thread'[c])
    BY <1>1 DEF Grown
  <2>2. QED
    BY <2>1, WholeIsThere
<1>2. \A c \in landed : thread[c] # Absent /\ c \in Chats
  BY Facts DEF ViewInv
<1>3. Threads'
  BY DEF Threads, Grown
<1>4. Ticking
  BY <1>1 DEF Ticking
<1>5. \A m \in Messages : ChatOf[m] \in landed /\ Shows(thread[ChatOf[m]], m) =>
                             Shows(thread'[ChatOf[m]], m)
  BY <1>1, <1>2, KeptShows
<1>6. QED
  BY <1>1, <1>2, <1>3, <1>4, <1>5

LEMMA StillFollowed ==
  ASSUME ViewInv, announced' = announced, landed' \subseteq landed,
         \A m \in announced : Accounted(m) => Accounted(m)',
         \A m \in Messages : ChatOf[m] \in landed' /\ Shows(thread[ChatOf[m]], m) =>
                                  Shows(thread'[ChatOf[m]], m),
         \A m \in Messages : Overtook(m)' => Overtook(m)
  PROVE  Followed'
<1>1. ASSUME NEW m \in announced
      PROVE  /\ ChatOf[m] \in landed' => Shows(thread'[ChatOf[m]], m) \/ Accounted(m)'
             /\ Overtook(m)' => Accounted(m)'
  BY <1>1, Facts DEF ViewInv, Followed
<1>2. QED
  BY <1>1 DEF Followed

LEMMA StillSubscribed ==
  ASSUME ViewInv, UNCHANGED <<selected, socket>> PROVE Subscribed'
  BY DEF ViewInv, Subscribed, socket

LEMMA StillAnnounced ==
  ASSUME ViewInv, UNCHANGED <<at, announced>>
  PROVE  Announced' /\ IsFiniteSet(Begun)'
  BY DEF ViewInv, Announced, Begun, HasRow

LEMMA StillLoads ==
  ASSUME ViewInv, UNCHANGED load
  PROVE  Loads' /\ \A m \in Messages : Overtook(m)' => Overtook(m)
  BY DEF ViewInv, Loads, RowsRead, Overtook

\* A step of the page that fetches nothing.
LEMMA PageStep ==
  ASSUME ViewInv, \A c \in Chats : Grown(c), thread' \in [Chats -> Seq(Bubble) \union {Absent}],
         sending' \in Own \union {NoMessage},
         UNCHANGED <<selected, active, load, landed, socket, wire, server, missed>>
  PROVE  ViewInv' /\ Ticking
<1>1. /\ Threads' /\ Ticking
      /\ \A c \in landed' : thread'[c] # Absent
      /\ \A m \in Messages : ChatOf[m] \in landed /\ Shows(thread[ChatOf[m]], m) =>
                               Shows(thread'[ChatOf[m]], m)
  BY GrownIsWhole
<1>2. ViewTypeOK'
  BY DEF ViewInv, ViewTypeOK, socket, server
<1>3. \A m \in announced : Accounted(m) => Accounted(m)'
  BY DEF Accounted
<1>4. Loads' /\ \A m \in Messages : Overtook(m)' => Overtook(m)
  BY StillLoads
<1>5. Followed'
  BY <1>1, <1>3, <1>4, StillFollowed DEF server
<1>6. Subscribed' /\ Announced' /\ IsFiniteSet(Begun)'
  BY StillSubscribed, StillAnnounced DEF server
<1>7. QED
  BY <1>1, <1>2, <1>4, <1>5, <1>6 DEF ViewInv

LEMMA StepHandleSend ==
  ASSUME ViewInv, NEW m \in Messages, HandleSend(m) PROVE ViewInv' /\ Ticking
<1>1. /\ m \in Own /\ active = ChatOf[m] /\ sending = NoMessage /\ sending' = m
      /\ thread' = AppendMessage(active, Temp(m))
      /\ UNCHANGED <<selected, active, load, landed, socket, wire, server, missed>>
  BY DEF HandleSend
<1>2. Temp(m) \in Bubble /\ Temp(m).msg = m
  BY DEF Temp, Bubble, Ticks
<1>3. active \in Chats
  BY <1>1, Facts
<1>4. /\ \A d \in Chats : Grown(d)
      /\ thread' \in [Chats -> Seq(Bubble) \union {Absent}]
  BY <1>1, <1>2, <1>3, AppendGrows
<1>5. QED
  BY <1>1, <1>4, PageStep

LEMMA CachedWhole ==
  ASSUME ViewInv, NEW c \in Chats
  PROVE  Whole(Cached(c), c, sending) /\ (thread[c] # Absent => Cached(c) = thread[c])
  BY Facts, EmptyWhole DEF Cached

\* The placeholders of a chat are those of its messages.
LEMMA OthersWhole ==
  ASSUME ViewInv, sending \in Messages, NEW d \in Chats, d # ChatOf[sending], thread[d] # Absent
  PROVE  Whole(thread[d], d, NoMessage)
  BY Facts DEF Whole

LEMMA StepSendEnds ==
  ASSUME ViewInv, NEW m \in Messages, SendAnswered(m) \/ SendFails(m) PROVE ViewInv' /\ Ticking
<1>1. PICK c \in Chats : c = ChatOf[m]
  BY Facts
<1>2. PICK list : list = Cached(c)
  OBVIOUS
<1>3. /\ sending = m /\ sending' = NoMessage
      /\ \/ thread' = [thread EXCEPT ![c] = Resolved(list, m)]
         \/ thread' = [thread EXCEPT ![c] = WithTick(list, <<"temp", m>>, "failed")]
      /\ UNCHANGED <<selected, active, load, landed, socket, wire, server, missed>>
  BY <1>1, <1>2 DEF SendAnswered, SendFails
<1>4. Whole(list, c, m) /\ list # Absent /\ (thread[c] # Absent => list = thread[c])
  BY <1>2, <1>3, CachedWhole, WholeIsThere
<1>5. \A d \in Chats : d # c /\ thread[d] # Absent => Whole(thread[d], d, sending')
  BY <1>1, <1>3, OthersWhole
<1>6. PICK new : /\ thread' = [thread EXCEPT ![c] = new]
                 /\ Whole(new, c, NoMessage) /\ Kept(list, new)
  BY <1>3, <1>4, ResolvedWhole, FailedWhole
<1>7. /\ \A d \in Chats : Grown(d)
      /\ thread' \in [Chats -> Seq(Bubble) \union {Absent}]
  BY <1>3, <1>4, <1>5, <1>6, GrowsAt
<1>8. QED
  BY <1>3, <1>7, PageStep

\* What follows for a step that leaves the threads alone.
LEMMA SameThreads ==
  ASSUME ViewInv, UNCHANGED <<thread, sending, landed>>
  PROVE  /\ Threads' /\ Ticking
         /\ \A c \in landed' : thread'[c] # Absent
         /\ \A m \in Messages : ChatOf[m] \in landed /\ Shows(thread[ChatOf[m]], m) =>
                                  Shows(thread'[ChatOf[m]], m)
<1>1. \A c \in Chats : Grown(c)
  BY Unmoved
<1>2. QED
  BY <1>1, GrownIsWhole

\* A step of a fetch that reads no rows.
LEMMA StepLoad ==
  ASSUME ViewInv, NEW c \in Chats, OpenChat(c) \/ LoadFails(c) PROVE ViewInv' /\ Ticking
<1>1. /\ active' \in Chats \union {NoChat}
      /\ load' = load \/ load' = [load EXCEPT ![c] = Asked] \/ load' = [load EXCEPT ![c] = Idle]
      /\ UNCHANGED <<selected, thread, landed, sending, socket, wire, server, missed>>
  BY Facts DEF OpenChat, LoadFails
<1>2. load \in [Chats -> Load]
  BY Facts
<1>3. ASSUME NEW d \in Chats PROVE load'[d] = load[d] \/ load'[d] \in {Asked, Idle}
  BY <1>1, <1>2
<1>4. Asked \in Load /\ Idle \in Load /\ Asked.rows = {} /\ Idle.rows = {}
      /\ Asked.st # "read" /\ Idle.st # "read"
  BY DEF Asked, Idle, Load
<1>5. load' \in [Chats -> Load]
  BY <1>1, <1>2, <1>4
<1>6. Loads'
  <2>1. SUFFICES ASSUME NEW d \in Chats PROVE RowsRead(d)'
    BY DEF Loads
  <2>2. RowsRead(d)
    BY DEF ViewInv, Loads
  <2>3. QED
    BY <1>3, <1>4, <2>2, FS_EmptySet DEF RowsRead
<1>7. \A m \in Messages : Overtook(m)' => Overtook(m)
  <2>1. SUFFICES ASSUME NEW m \in Messages, Overtook(m)' PROVE Overtook(m)
    OBVIOUS
  <2>2. load'[ChatOf[m]] = load[ChatOf[m]]
    BY <1>3, <1>4, <2>1, Facts DEF Overtook
  <2>3. QED
    BY <2>1, <2>2 DEF Overtook
<1>8. /\ Threads' /\ Ticking
      /\ \A d \in landed' : thread'[d] # Absent
      /\ \A m \in Messages : ChatOf[m] \in landed /\ Shows(thread[ChatOf[m]], m) =>
                               Shows(thread'[ChatOf[m]], m)
  BY <1>1, SameThreads
<1>9. \A m \in announced : Accounted(m) => Accounted(m)'
  BY <1>1 DEF Accounted
<1>10. Followed'
  BY <1>1, <1>7, <1>8, <1>9, StillFollowed DEF server
<1>11. Subscribed' /\ Announced' /\ IsFiniteSet(Begun)'
  BY <1>1, StillSubscribed, StillAnnounced DEF server
<1>12. ViewTypeOK'
  BY <1>1, <1>5 DEF ViewInv, ViewTypeOK, socket, server
<1>13. QED
  BY <1>6, <1>8, <1>10, <1>11, <1>12 DEF ViewInv

LEMMA StepCloseChat == ASSUME ViewInv, CloseChat PROVE ViewInv' /\ Ticking
<1>1. /\ active' = NoChat
      /\ UNCHANGED <<selected, thread, load, landed, sending, socket, wire, server, missed>>
  BY DEF CloseChat
<1>2. /\ Threads' /\ Ticking
      /\ \A d \in landed' : thread'[d] # Absent
      /\ \A m \in Messages : ChatOf[m] \in landed /\ Shows(thread[ChatOf[m]], m) =>
                               Shows(thread'[ChatOf[m]], m)
  BY <1>1, SameThreads
<1>3. \A m \in announced : Accounted(m) => Accounted(m)'
  BY <1>1 DEF Accounted
<1>4. Loads' /\ \A m \in Messages : Overtook(m)' => Overtook(m)
  BY <1>1, StillLoads
<1>5. Followed'
  BY <1>1, <1>2, <1>3, <1>4, StillFollowed DEF server
<1>6. Subscribed' /\ Announced' /\ IsFiniteSet(Begun)'
  BY <1>1, StillSubscribed, StillAnnounced DEF server
<1>7. ViewTypeOK'
  BY <1>1 DEF ViewInv, ViewTypeOK, socket, server
<1>8. QED
  BY <1>2, <1>4, <1>5, <1>6, <1>7 DEF ViewInv

LEMMA StepSelectSession ==
  ASSUME ViewInv, NEW s \in Sessions, SelectSession(s) PROVE ViewInv' /\ Ticking
<1> DEFINE two == <<<<"off", selected>>, <<"on", s>>>>
<1>1. /\ selected' = s /\ active' = NoChat /\ up' = IF online THEN up \o two ELSE up
      /\ UNCHANGED <<thread, load, landed, sending, online, joining, joined, wire, server, missed>>
  BY DEF SelectSession, Ask
<1>2. /\ up \in Seq({"on", "off"} \X Sessions) /\ selected \in Sessions
  BY DEF ViewInv, ViewTypeOK
<1>3. two \in Seq({"on", "off"} \X Sessions) /\ Len(two) = 2 /\ two[2] = <<"on", s>>
  BY <1>2
<1> HIDE DEF two
<1>4. /\ up \o two \in Seq({"on", "off"} \X Sessions) /\ Len(up \o two) = Len(up) + 2
      /\ (up \o two)[Len(up) + 2] = <<"on", s>>
  <2>1. Len(up) \in Nat
    BY <1>2
  <2>2. /\ up \o two \in Seq({"on", "off"} \X Sessions) /\ Len(up \o two) = Len(up) + Len(two)
        /\ \A i \in 1..Len(up) + Len(two) :
             (up \o two)[i] = IF i <= Len(up) THEN up[i] ELSE two[i - Len(up)]
    BY <1>2, <1>3, ConcatProperties
  <2>3. Len(up) + 2 \in 1..Len(up) + Len(two) /\ ~(Len(up) + 2 <= Len(up))
        /\ (Len(up) + 2) - Len(up) = 2
    BY <1>3, <2>1
  <2>4. QED
    BY <1>3, <2>2, <2>3
<1>5. Subscribed'
  <2>1. SUFFICES ASSUME online'
                 PROVE  \E i \in 1..Len(up') :
                          /\ up'[i] = <<"on", s>>
                          /\ \A j \in 1..Len(up') : i < j => up'[j] # <<"off", s>>
    BY <1>1 DEF Subscribed
  <2>2. up' = up \o two /\ Len(up) \in Nat
    BY <1>1, <1>2, <2>1
  <2>3. Len(up) + 2 \in 1..Len(up') /\ up'[Len(up) + 2] = <<"on", s>>
        /\ \A j \in 1..Len(up') : ~(Len(up) + 2 < j)
    BY <1>4, <2>2
  <2>4. QED
    BY <2>3
<1>6. ViewTypeOK'
  BY <1>1, <1>2, <1>4 DEF ViewInv, ViewTypeOK, server
<1>7. /\ Threads' /\ Ticking
      /\ \A d \in landed' : thread'[d] # Absent
      /\ \A m \in Messages : ChatOf[m] \in landed /\ Shows(thread[ChatOf[m]], m) =>
                               Shows(thread'[ChatOf[m]], m)
  BY <1>1, SameThreads
<1>8. \A m \in announced : Accounted(m) => Accounted(m)'
  BY <1>1 DEF Accounted
<1>9. Loads' /\ \A m \in Messages : Overtook(m)' => Overtook(m)
  BY <1>1, StillLoads
<1>10. Followed'
  BY <1>1, <1>7, <1>8, <1>9, StillFollowed DEF server
<1>11. Announced' /\ IsFiniteSet(Begun)'
  BY <1>1, StillAnnounced DEF server
<1>12. QED
  BY <1>5, <1>6, <1>7, <1>9, <1>10, <1>11 DEF ViewInv

\* The rows have every message that was announced by now.
LEMMA StepReadRows ==
  ASSUME ViewInv, NEW c \in Chats, ReadRows(c) PROVE ViewInv' /\ Ticking
<1> DEFINE has == {m \in Messages : ChatOf[m] = c /\ HasRow(m)}
           rows == {RowOf(m) : m \in has}
<1>1. /\ load' = [load EXCEPT ![c] = Failed] \/ load' = [load EXCEPT ![c] = [st |-> "read", rows |-> rows]]
      /\ UNCHANGED <<selected, active, thread, landed, sending, socket, wire, server, missed>>
  BY DEF ReadRows
<1>2. /\ load \in [Chats -> Load] /\ at \in [Messages -> Stages] /\ IsFiniteSet(Begun)
  BY Facts DEF ViewInv
<1>3. ASSUME NEW m \in Messages
      PROVE  RowOf(m) \in Bubble /\ RowOf(m).msg = m /\ RowOf(m).kind # "temp"
  <2>1. CASE at[m] = "stored"
    <3>1. Reached(m) \in Ticks /\ "sent" \in Ticks
      BY DEF Reached, Ticks, Receipts
    <3>2. PICK t \in Ticks : RowOf(m) = Wa(m, t)
      BY <2>1, <3>1 DEF RowOf
    <3>3. QED
      BY <3>2 DEF Wa, Bubble
  <2>2. CASE at[m] # "stored"
    <3>1. PICK t \in Ticks : RowOf(m) = [kind |-> "row", msg |-> m, tick |-> t]
      BY <2>2 DEF RowOf, Ticks
    <3>2. QED
      BY <3>1 DEF Bubble
  <2>3. QED
    BY <2>1, <2>2
<1>4. IsFiniteSet(rows)
  <2>1. has \subseteq Begun
    BY DEF HasRow, Begun
  <2>2. IsFiniteSet(has)
    BY <1>2, <2>1, FS_Subset
  <2> DEFINE f == [m \in has |-> RowOf(m)]
  <2>3. f \in Surjection(has, rows)
    BY DEF Surjection
  <2>4. QED
    BY <2>2, <2>3, FS_Surjection
<1>5. /\ rows \subseteq Bubble
      /\ \A b \in rows : ChatOf[b.msg] = c /\ b.kind # "temp" /\ b = RowOf(b.msg)
  BY <1>3
<1>6. \A m \in announced : ChatOf[m] = c => \E b \in rows : b.msg = m
  <2>1. SUFFICES ASSUME NEW m \in announced, ChatOf[m] = c PROVE \E b \in rows : b.msg = m
    OBVIOUS
  <2>2. m \in Messages /\ HasRow(m)
    BY Facts DEF ViewInv, Announced
  <2>3. RowOf(m) \in rows
    BY <2>1, <2>2
  <2>4. QED
    BY <1>3, <2>2, <2>3
<1> HIDE DEF rows, has
<1>7. ASSUME NEW d \in Chats
      PROVE  \/ load'[d] = load[d]
             \/ load'[d] = Failed
             \/ d = c /\ load'[d] = [st |-> "read", rows |-> rows]
  BY <1>1, <1>2
<1>8. Failed \in Load /\ Failed.rows = {} /\ Failed.st # "read"
      /\ [st |-> "read", rows |-> rows] \in Load
  BY <1>5 DEF Failed, Load
<1>9. load' \in [Chats -> Load]
  BY <1>1, <1>2, <1>8
<1>10. Loads'
  <2>1. SUFFICES ASSUME NEW d \in Chats PROVE RowsRead(d)'
    BY DEF Loads
  <2>2. CASE load'[d] = load[d]
    BY <2>2 DEF ViewInv, Loads, RowsRead
  <2>3. CASE load'[d] = Failed
    BY <1>8, <2>3, FS_EmptySet DEF RowsRead
  <2>4. CASE d = c /\ load'[d] = [st |-> "read", rows |-> rows]
    <3>1. load'[d].rows = rows /\ load'[d].st = "read" /\ d = c
      BY <2>4
    <3>2. \A a, b \in rows : a.msg = b.msg => a = b
      BY <1>5
    <3>3. QED
      BY <1>4, <1>5, <3>1, <3>2 DEF RowsRead
  <2>5. QED
    BY <1>7, <2>2, <2>3, <2>4
<1>11. \A m \in announced : Overtook(m)' => Overtook(m)
  <2>1. SUFFICES ASSUME NEW m \in announced, Overtook(m)' PROVE Overtook(m)
    OBVIOUS
  <2>2. ChatOf[m] \in Chats
    BY Facts
  <2>3. load'[ChatOf[m]].st = "read" /\ \A b \in load'[ChatOf[m]].rows : b.msg # m
    BY <2>1 DEF Overtook
  <2>4. ~(ChatOf[m] = c /\ load'[ChatOf[m]] = [st |-> "read", rows |-> rows])
    BY <1>6, <2>3
  <2>5. load'[ChatOf[m]] = load[ChatOf[m]]
    BY <1>7, <1>8, <2>2, <2>3, <2>4
  <2>6. QED
    BY <2>3, <2>5 DEF Overtook
<1>12. /\ Threads' /\ Ticking
       /\ \A d \in landed' : thread'[d] # Absent
       /\ \A m \in Messages : ChatOf[m] \in landed /\ Shows(thread[ChatOf[m]], m) =>
                                Shows(thread'[ChatOf[m]], m)
  BY <1>1, SameThreads
<1>13. Followed'
  <2>1. announced' = announced /\ landed' = landed /\ \A m : Accounted(m)' <=> Accounted(m)
    BY <1>1 DEF server, Accounted
  <2>2. QED
    BY <1>11, <1>12, <2>1, Facts DEF ViewInv, Followed
<1>14. Subscribed' /\ Announced' /\ IsFiniteSet(Begun)'
  BY <1>1, StillSubscribed, StillAnnounced DEF server
<1>15. ViewTypeOK'
  BY <1>1, <1>9 DEF ViewInv, ViewTypeOK, socket, server
<1>16. QED
  BY <1>10, <1>12, <1>13, <1>14, <1>15 DEF ViewInv

LEMMA StepEvict ==
  ASSUME ViewInv, NEW c \in Chats, Evict(c) PROVE ViewInv' /\ Ticking
<1>1. /\ load[c] = Idle /\ thread' = [thread EXCEPT ![c] = Absent] /\ landed' = landed \ {c}
      /\ missed' = {m \in missed : ChatOf[m] # c}
      /\ UNCHANGED <<selected, active, load, sending, socket, wire, server>>
  BY DEF Evict, Loading
<1>2. thread \in [Chats -> Seq(Bubble) \union {Absent}] /\ landed \subseteq Chats
  BY Facts
<1>3. thread'[c] = Absent /\ \A d \in Chats : d # c => thread'[d] = thread[d]
  BY <1>1, <1>2
<1>4. Threads'
  BY <1>1, <1>3, Facts DEF Threads
<1>5. Ticking
  <2>1. SUFFICES ASSUME NEW d \in Chats, thread[d] # Absent, thread'[d] # Absent
                 PROVE  Kept(thread[d], thread'[d])
    BY DEF Ticking
  <2>2. thread'[d] = thread[d] /\ thread[d] \in Seq(Bubble)
    BY <1>2, <1>3, <2>1
  <2>3. QED
    BY <2>2, KeptItself
<1>6. \A d \in landed' : thread'[d] # Absent
  BY <1>1, <1>2, <1>3 DEF ViewInv
<1>7. Followed'
  <2>1. SUFFICES ASSUME NEW m \in announced
                 PROVE  /\ ChatOf[m] \in landed' => Shows(thread'[ChatOf[m]], m) \/ Accounted(m)'
                        /\ Overtook(m)' => Accounted(m)'
    BY <1>1 DEF Followed, server
  <2>2. ChatOf[m] \in Chats
    BY Facts
  <2>3. CASE ChatOf[m] = c
    BY <1>1, <2>3 DEF Overtook, Idle
  <2>4. CASE ChatOf[m] # c
    <3>1. Accounted(m)' <=> Accounted(m)
      BY <1>1, <2>4 DEF Accounted
    <3>2. Overtook(m)' <=> Overtook(m)
      BY <1>1 DEF Overtook
    <3>3. QED
      BY <1>1, <1>3, <2>2, <2>4, <3>1, <3>2 DEF ViewInv, Followed
  <2>5. QED
    BY <2>3, <2>4
<1>8. Loads'
  BY <1>1, StillLoads
<1>9. Subscribed' /\ Announced' /\ IsFiniteSet(Begun)'
  BY <1>1, StillSubscribed, StillAnnounced DEF server
<1>10. ViewTypeOK'
  <2>1. thread' \in [Chats -> Seq(Bubble) \union {Absent}] /\ landed' \subseteq Chats
        /\ missed' \subseteq Messages
    BY <1>1, <1>2, Facts
  <2>2. QED
    BY <1>1, <2>1 DEF ViewInv, ViewTypeOK, socket, server
<1>11. QED
  BY <1>4, <1>5, <1>6, <1>7, <1>8, <1>9, <1>10 DEF ViewInv

\* The rows that land show what was announced when they were read; what came since is accounted for.
LEMMA StepLand ==
  ASSUME ViewInv, NEW c \in Chats, Land(c) PROVE ViewInv' /\ Ticking
<1>0. PICK history \in Histories(c) :
        LET l == MergeChatMessages(load[c].rows, history) IN
        /\ load[c].st \in {"read", "failed"}
        /\ thread' = [thread EXCEPT ![c] = l]
        /\ load' = [load EXCEPT ![c] = Idle]
        /\ landed' = IF load[c].st = "read" THEN landed \union {c} ELSE landed \ {c}
        /\ missed' = {m \in missed : ~(ChatOf[m] = c /\ Shows(l, m))}
        /\ UNCHANGED <<selected, active, sending, socket, wire, server>>
  BY DEF Land
<1>1. PICK list :
        /\ list = MergeChatMessages(load[c].rows, history)
        /\ load[c].st \in {"read", "failed"}
        /\ thread' = [thread EXCEPT ![c] = list]
        /\ load' = [load EXCEPT ![c] = Idle]
        /\ landed' = IF load[c].st = "read" THEN landed \union {c} ELSE landed \ {c}
        /\ missed' = {m \in missed : ~(ChatOf[m] = c /\ Shows(list, m))}
        /\ UNCHANGED <<selected, active, sending, socket, wire, server>>
  BY <1>0
<1>2. /\ thread \in [Chats -> Seq(Bubble) \union {Absent}] /\ landed \subseteq Chats
      /\ load \in [Chats -> Load]
  BY Facts
<1>3. /\ Whole(list, c, sending) /\ list \in Seq(Bubble) /\ list # Absent
      /\ \A b \in load[c].rows : Shows(list, b.msg)
  BY <1>1, LandedWhole, WholeIsThere
<1>4. /\ thread'[c] = list /\ load'[c] = Idle
      /\ \A d \in Chats : d # c => thread'[d] = thread[d] /\ load'[d] = load[d]
  BY <1>1, <1>2
<1>5. Idle \in Load /\ Idle.rows = {} /\ Idle.st = "none"
  BY DEF Idle, Load
<1>6. Threads'
  BY <1>1, <1>3, <1>4, Facts DEF Threads
<1>7. Ticking
  <2>1. SUFFICES ASSUME NEW d \in Chats, thread[d] # Absent, load'[d] = load[d]
                 PROVE  Kept(thread[d], thread'[d])
    BY DEF Ticking
  <2>2. d # c
    BY <1>1, <1>4, <1>5, <2>1
  <2>3. thread'[d] = thread[d] /\ thread[d] \in Seq(Bubble)
    BY <1>2, <1>4, <2>1, <2>2
  <2>4. QED
    BY <2>3, KeptItself
<1>8. \A d \in landed' : thread'[d] # Absent
  <2>1. SUFFICES ASSUME NEW d \in landed' PROVE thread'[d] # Absent
    OBVIOUS
  <2>2. CASE d = c
    BY <1>3, <1>4, <2>2
  <2>3. CASE d # c
    <3>1. d \in landed
      BY <1>1, <2>1, <2>3
    <3>2. QED
      BY <1>2, <1>4, <2>3, <3>1 DEF ViewInv
  <2>4. QED
    BY <2>2, <2>3
<1>9. Followed'
  <2>1. SUFFICES ASSUME NEW m \in announced
                 PROVE  /\ ChatOf[m] \in landed' => Shows(thread'[ChatOf[m]], m) \/ Accounted(m)'
                        /\ Overtook(m)' => Accounted(m)'
    BY <1>1 DEF Followed, server
  <2>2. ChatOf[m] \in Chats
    BY Facts
  <2>3. CASE ChatOf[m] = c
    <3>1. ~Overtook(m)'
      BY <1>4, <1>5, <2>3 DEF Overtook
    <3>2. ASSUME c \in landed', ~Shows(list, m) PROVE Accounted(m)'
      <4>1. load[c].st = "read"
        BY <1>1, <3>2
      <4>2. Overtook(m)
        BY <1>3, <2>3, <3>2, <4>1 DEF Overtook
      <4>3. Accounted(m)
        BY <4>2 DEF ViewInv, Followed
      <4>4. QED
        BY <1>1, <3>2, <4>3 DEF Accounted
    <3>3. QED
      BY <1>4, <2>3, <3>1, <3>2
  <2>4. CASE ChatOf[m] # c
    <3>1. Accounted(m)' <=> Accounted(m)
      BY <1>1, <2>4 DEF Accounted
    <3>2. Overtook(m)' <=> Overtook(m)
      BY <1>4, <2>2, <2>4 DEF Overtook
    <3>3. ChatOf[m] \in landed' <=> ChatOf[m] \in landed
      BY <1>1, <2>4
    <3>4. QED
      BY <1>4, <2>2, <2>4, <3>1, <3>2, <3>3 DEF ViewInv, Followed
  <2>5. QED
    BY <2>3, <2>4
<1>10. Loads'
  <2>1. SUFFICES ASSUME NEW d \in Chats PROVE RowsRead(d)'
    BY DEF Loads
  <2>2. CASE d = c
    BY <1>4, <1>5, <2>2, FS_EmptySet DEF RowsRead
  <2>3. CASE d # c
    BY <1>4, <2>3 DEF ViewInv, Loads, RowsRead
  <2>4. QED
    BY <2>2, <2>3
<1>11. Subscribed' /\ Announced' /\ IsFiniteSet(Begun)'
  BY <1>1, StillSubscribed, StillAnnounced DEF server
<1>12. ViewTypeOK'
  <2>1. /\ thread' \in [Chats -> Seq(Bubble) \union {Absent}] /\ landed' \subseteq Chats
        /\ load' \in [Chats -> Load] /\ missed' \subseteq Messages
    BY <1>1, <1>2, <1>3, <1>5, Facts
  <2>2. QED
    BY <1>1, <2>1 DEF ViewInv, ViewTypeOK, socket, server
<1>13. QED
  BY <1>6, <1>7, <1>8, <1>9, <1>10, <1>11, <1>12 DEF ViewInv

-----------------------------------------------------------------------------
\* Steps of the server.

\* The row of a message only gets on.
LEMMA Onward ==
  ASSUME ViewInv, NEW m \in Messages, NEW from \in Stages, NEW to \in Stages, Becomes(m, from, to),
         from = "engine" => to = "stored", from \in {"none", "row", "engine"}, m \notin Own => from # "row",
         announced' = announced \/ (announced' = announced \union {m} /\ to = "stored")
  PROVE  Announced' /\ IsFiniteSet(Begun)' /\ at' \in [Messages -> Stages]
<1>1. at \in [Messages -> Stages] /\ at[m] = from /\ at' = [at EXCEPT ![m] = to]
  BY Facts DEF Becomes
<1>2. at'[m] = to /\ \A n \in Messages : n # m => at'[n] = at[n]
  BY <1>1
<1>3. IsFiniteSet(Begun)'
  <2>1. Begun' \subseteq Begun \union {m}
    BY <1>2 DEF Begun
  <2>2. IsFiniteSet(Begun \union {m})
    BY FS_AddElement DEF ViewInv
  <2>3. IsFiniteSet(Begun')
    BY <2>1, <2>2, FS_Subset
  <2>4. QED
    BY <2>3
<1>4. Announced'
  <2>1. SUFFICES ASSUME NEW n \in announced' PROVE at'[n] \in {"engine", "stored"} /\ HasRow(n)'
    BY DEF Announced
  <2>2. CASE n # m
    <3>1. n \in announced /\ n \in Messages
      BY <2>1, <2>2, Facts
    <3>2. QED
      BY <1>2, <2>2, <3>1 DEF ViewInv, Announced, HasRow
  <2>3. CASE n = m
    <3>1. to = "stored"
      <4>1. CASE n \in announced
        <5>1. at[m] \in {"engine", "stored"}
          BY <2>3, <4>1 DEF ViewInv, Announced
        <5>2. QED
          BY <1>1, <5>1
      <4>2. CASE n \notin announced
        BY <2>1, <4>2
      <4>3. QED
        BY <4>1, <4>2
    <3>2. QED
      BY <1>2, <2>3, <3>1 DEF HasRow, Stages
  <2>4. QED
    BY <2>2, <2>3
<1>5. QED
  BY <1>1, <1>3, <1>4

LEMMA StepRow ==
  ASSUME ViewInv, NEW m \in Messages, SendStep(m) \/ Receive(m) PROVE ViewInv' /\ Ticking
<1>1. PICK from \in Stages, to \in Stages :
        /\ Becomes(m, from, to)
        /\ from = "engine" => to = "stored"
        /\ from \in {"none", "row", "engine"}
        /\ m \notin Own => from # "row"
  BY DEF SendStep, Receive, RowSaved, EngineSends, EngineRefuses, RowNamed, Stages
<1>2. UNCHANGED <<page, socket, wire, announced, acked, missed>>
  BY DEF SendStep, Receive
<1>3. Announced' /\ IsFiniteSet(Begun)' /\ at' \in [Messages -> Stages]
  BY <1>1, <1>2, Onward
<1>4. /\ Threads' /\ Ticking
      /\ \A d \in landed' : thread'[d] # Absent
      /\ \A n \in Messages : ChatOf[n] \in landed /\ Shows(thread[ChatOf[n]], n) =>
                               Shows(thread'[ChatOf[n]], n)
  BY <1>2, SameThreads DEF page
<1>5. \A n \in announced : Accounted(n) => Accounted(n)'
  BY <1>2 DEF Accounted
<1>6. Loads' /\ \A n \in Messages : Overtook(n)' => Overtook(n)
  BY <1>2, StillLoads DEF page
<1>7. Followed'
  BY <1>2, <1>4, <1>5, <1>6, StillFollowed DEF page
<1>8. Subscribed'
  BY <1>2, StillSubscribed DEF page
<1>9. ViewTypeOK'
  BY <1>2, <1>3 DEF ViewInv, ViewTypeOK, page, socket
<1>10. QED
  BY <1>3, <1>4, <1>6, <1>7, <1>8, <1>9 DEF ViewInv

\* An event that is emitted is on its way, or known to be missed where it matters.
LEMMA Emitted ==
  ASSUME ViewInv, NEW m \in Messages, NEW e \in ({"message"} \union Receipts) \X {m}, Emit(e),
         UNCHANGED <<page, socket>>,
         announced' = announced \/ (announced' = announced \union {m} /\ e = <<"message", m>>)
  PROVE  /\ Threads' /\ Ticking /\ Loads' /\ Followed' /\ Subscribed'
         /\ \A c \in landed' : thread'[c] # Absent
         /\ wire' \subseteq ({"message"} \union Receipts) \X Messages /\ missed' \subseteq Messages
<1>1. /\ e[2] = m /\ e[1] \in {"message"} \union Receipts /\ e = <<e[1], e[2]>>
      /\ wire' = wire \/ wire' = wire \union {e}
      /\ missed' = missed \/ missed' = missed \union {m}
  BY DEF Emit
<1>2. /\ Threads' /\ Ticking
      /\ \A d \in landed' : thread'[d] # Absent
  BY SameThreads DEF page
<1>3. Loads'
  BY StillLoads DEF page
<1>4. Subscribed'
  BY StillSubscribed DEF page
<1>5. Followed'
  <2>1. SUFFICES ASSUME NEW n \in announced'
                 PROVE  /\ ChatOf[n] \in landed' => Shows(thread'[ChatOf[n]], n) \/ Accounted(n)'
                        /\ Overtook(n)' => Accounted(n)'
    BY DEF Followed
  <2>2. /\ thread' = thread /\ landed' = landed /\ load' = load
        /\ Accounted(n) => Accounted(n)'
        /\ Overtook(n)' <=> Overtook(n)
    BY <1>1 DEF page, Accounted, Overtook
  <2>3. CASE n \in announced
    BY <2>2, <2>3 DEF ViewInv, Followed
  <2>4. CASE n \notin announced
    <3>1. n = m /\ e = <<"message", m>>
      BY <2>1, <2>4
    <3>2. Lost(m) => Accounted(m)'
      BY <3>1 DEF Emit, Accounted
    <3>3. ChatOf[m] \in landed => thread[ChatOf[m]] # Absent
      BY DEF ViewInv
    <3>4. QED
      BY <2>2, <3>1, <3>2, <3>3 DEF Lost
  <2>5. QED
    BY <2>3, <2>4
<1>6. wire' \subseteq ({"message"} \union Receipts) \X Messages /\ missed' \subseteq Messages
  <2>1. e \in ({"message"} \union Receipts) \X Messages
    OBVIOUS
  <2>2. QED
    BY <1>1, <2>1 DEF ViewInv, ViewTypeOK
<1>7. QED
  BY <1>2, <1>3, <1>4, <1>5, <1>6

LEMMA StepEmit ==
  ASSUME ViewInv, NEW m \in Messages, Echo(m) \/ Inserted(m) \/ \E t \in Receipts : Ack(m, t)
  PROVE  ViewInv' /\ Ticking
<1>1. PICK e \in ({"message"} \union Receipts) \X {m} :
        /\ Emit(e)
        /\ announced' = announced \/ (announced' = announced \union {m} /\ e = <<"message", m>>)
  BY DEF Echo, Inserted, Ack
<1>2. UNCHANGED <<page, socket>>
  BY DEF Echo, Inserted, Ack
<1>3. /\ Threads' /\ Ticking /\ Loads' /\ Followed' /\ Subscribed'
      /\ \A c \in landed' : thread'[c] # Absent
      /\ wire' \subseteq ({"message"} \union Receipts) \X Messages /\ missed' \subseteq Messages
  BY <1>1, <1>2, Emitted
<1>4. Announced' /\ IsFiniteSet(Begun)' /\ at' \in [Messages -> Stages]
  <2>1. CASE Inserted(m)
    <3>1. Becomes(m, "engine", "stored") /\ announced' = announced \union {m}
      BY <2>1 DEF Inserted
    <3>2. "engine" \in Stages /\ "stored" \in Stages
      BY DEF Stages
    <3>3. QED
      BY <3>1, <3>2, Onward
  <2>2. CASE Echo(m)
    <3>1. /\ at' = at /\ announced' = announced \union {m} /\ m \in Own
          /\ at[m] \in {"engine", "stored"}
      BY <2>2 DEF Echo
    <3>2. Announced'
      BY <3>1, Facts DEF ViewInv, Announced, HasRow, Stages
    <3>3. QED
      BY <3>1, <3>2, Facts DEF ViewInv, Begun
  <2>3. CASE \E t \in Receipts : Ack(m, t)
    <3>1. UNCHANGED <<at, announced>>
      BY <2>3 DEF Ack
    <3>2. QED
      BY <3>1, StillAnnounced, Facts
  <2>4. QED
    BY <2>1, <2>2, <2>3
<1>5. acked' \in [Own -> SUBSET Receipts] /\ announced' \subseteq Messages
  <2>1. acked \in [Own -> SUBSET Receipts]
    BY DEF ViewInv, ViewTypeOK
  <2>2. acked' = acked \/ \E t \in Receipts : acked' = [acked EXCEPT ![m] = @ \union {t}]
    BY DEF Echo, Inserted, Ack
  <2>3. QED
    BY <1>1, <2>1, <2>2, Facts
<1>6. ViewTypeOK'
  BY <1>2, <1>3, <1>4, <1>5 DEF ViewInv, ViewTypeOK, page, socket
<1>7. QED
  BY <1>3, <1>4, <1>6 DEF ViewInv

-----------------------------------------------------------------------------
\* Steps of the socket.

LEMMA StepHandle ==
  ASSUME ViewInv, NEW e \in wire, Handle(e) PROVE ViewInv' /\ Ticking
<1>1. PICK m \in Messages : e[2] = m /\ e = <<e[1], m>> /\ e[1] \in {"message"} \union Receipts
  BY DEF ViewInv, ViewTypeOK
<1>2. PICK c \in Chats : c = ChatOf[m]
  BY Facts
<1>3. /\ wire' = wire \ {e}
      /\ UNCHANGED <<selected, active, load, landed, sending, socket, server>>
  BY DEF Handle
<1>4. \/ /\ e[1] = "message"
         /\ thread' = IF SessionOf[c] = selected THEN AppendMessage(c, Wa(m, "sent")) ELSE thread
         /\ missed' = IF (IF SessionOf[c] = selected THEN Overtook(m) ELSE Lost(m))
                      THEN missed \union {m} ELSE missed
      \/ /\ e[1] \in Receipts
         /\ thread' = IF SessionOf[c] = selected /\ thread[c] # Absent
                      THEN [thread EXCEPT ![c] = WithTick(@, <<"wa", m>>, e[1])] ELSE thread
         /\ missed' = missed
  BY <1>1, <1>2 DEF Handle
<1>5. thread \in [Chats -> Seq(Bubble) \union {Absent}]
  BY Facts
<1>6. Wa(m, "sent") \in Bubble /\ Wa(m, "sent").msg = m /\ Wa(m, "sent").kind = "wa"
  BY DEF Wa, Bubble, Ticks
<1>7. /\ \A d \in Chats : Grown(d)
      /\ thread' \in [Chats -> Seq(Bubble) \union {Absent}]
      /\ (thread' = AppendMessage(c, Wa(m, "sent")) /\ thread[c] # Absent) => Shows(thread'[c], m)
  <2>1. CASE thread' = AppendMessage(c, Wa(m, "sent"))
    BY <1>2, <1>3, <1>6, <2>1, AppendGrows
  <2>2. CASE thread' = thread
    <3>1. (thread' = AppendMessage(c, Wa(m, "sent")) /\ thread[c] # Absent) => Shows(thread'[c], m)
      BY <1>2, <1>3, <1>6, AppendGrows
    <3>2. QED
      BY <1>3, <1>5, <2>2, <3>1, Unmoved
  <2>3. CASE /\ e[1] \in Receipts /\ thread[c] # Absent
             /\ thread' = [thread EXCEPT ![c] = WithTick(@, <<"wa", m>>, e[1])]
    <3>1. PICK list : list = WithTick(thread[c], <<"wa", m>>, e[1])
      OBVIOUS
    <3>2. thread' = [thread EXCEPT ![c] = list]
      BY <1>5, <2>3, <3>1
    <3>3. e[1] \in Ticks
      BY <2>3 DEF Ticks
    <3>4. Whole(thread[c], c, sending')
      BY <1>3, <2>3, Facts
    <3>5. Whole(list, c, sending') /\ Kept(thread[c], list)
      BY <3>1, <3>3, <3>4, TickedWhole
    <3>6. \A d \in Chats : d # c /\ thread[d] # Absent => Whole(thread[d], d, sending')
      BY <1>3, Facts
    <3>7. /\ \A d \in Chats : Grown(d)
          /\ thread' \in [Chats -> Seq(Bubble) \union {Absent}]
      BY <3>2, <3>5, <3>6, GrowsAt
    <3>8. (thread' = AppendMessage(c, Wa(m, "sent")) /\ thread[c] # Absent) => Shows(thread'[c], m)
      BY <1>2, <1>3, <1>6, AppendGrows
    <3>9. QED
      BY <3>7, <3>8
  <2>4. QED
    BY <1>4, <2>1, <2>2, <2>3
<1>8. /\ Threads' /\ Ticking
      /\ \A d \in landed' : thread'[d] # Absent
      /\ \A n \in Messages : ChatOf[n] \in landed /\ Shows(thread[ChatOf[n]], n) =>
                               Shows(thread'[ChatOf[n]], n)
  BY <1>3, <1>7, GrownIsWhole
<1>9. Followed'
  <2>1. SUFFICES ASSUME NEW n \in announced
                 PROVE  /\ ChatOf[n] \in landed' => Shows(thread'[ChatOf[n]], n) \/ Accounted(n)'
                        /\ Overtook(n)' => Accounted(n)'
    BY <1>3 DEF Followed, server
  <2>2. Overtook(n)' <=> Overtook(n)
    BY <1>3 DEF Overtook
  <2>3. missed \subseteq missed' /\ n \in Messages
    BY <1>4, Facts
  <2>4. CASE e # <<"message", n>>
    <3>1. Accounted(n) => Accounted(n)'
      BY <1>3, <2>3, <2>4 DEF Accounted
    <3>2. QED
      BY <1>3, <1>8, <2>2, <2>3, <3>1 DEF ViewInv, Followed
  <2>5. CASE e = <<"message", n>>
    <3>1. n = m /\ e[1] = "message" /\ "message" \notin Receipts
      BY <1>1, <2>5 DEF Receipts
    <3>2. c \in landed => thread[c] # Absent
      BY DEF ViewInv
    <3>3. CASE SessionOf[c] = selected
      <4>1. thread' = AppendMessage(c, Wa(m, "sent")) /\ (Overtook(m) => m \in missed')
        BY <1>4, <3>1, <3>3
      <4>2. QED
        BY <1>2, <1>3, <1>7, <2>2, <3>1, <3>2, <4>1 DEF Accounted
    <3>4. CASE SessionOf[c] # selected
      <4>1. Lost(m) => m \in missed'
        BY <1>4, <3>1, <3>4
      <4>2. QED
        BY <1>2, <1>3, <2>2, <3>1, <3>2, <4>1 DEF Accounted, Lost
    <3>5. QED
      BY <3>3, <3>4
  <2>6. QED
    BY <2>4, <2>5
<1>10. Loads'
  BY <1>3, StillLoads
<1>11. Subscribed' /\ Announced' /\ IsFiniteSet(Begun)'
  BY <1>3, StillSubscribed, StillAnnounced DEF server
<1>12. ViewTypeOK'
  <2>1. wire' \subseteq ({"message"} \union Receipts) \X Messages /\ missed' \subseteq Messages
    BY <1>3, <1>4, Facts DEF ViewInv, ViewTypeOK
  <2>2. QED
    BY <1>3, <1>7, <2>1 DEF ViewInv, ViewTypeOK, socket, server
<1>13. QED
  BY <1>8, <1>9, <1>10, <1>11, <1>12 DEF ViewInv

LEMMA StepDisconnect ==
  ASSUME ViewInv, Disconnect PROVE ViewInv' /\ Ticking
<1>1. /\ online' = FALSE /\ up' = <<>> /\ joining' = {} /\ joined' = {} /\ wire' = {}
      /\ missed' = missed \union {m \in MessagesIn(wire) : Lost(m)}
      /\ UNCHANGED <<page, server>>
  BY DEF Disconnect
<1>2. /\ Threads' /\ Ticking
      /\ \A d \in landed' : thread'[d] # Absent
  BY <1>1, SameThreads DEF page
<1>3. Loads'
  BY <1>1, StillLoads DEF page
<1>4. \A m \in Messages : <<"message", m>> \in wire => m \in MessagesIn(wire)
  <2>1. SUFFICES ASSUME NEW m \in Messages, <<"message", m>> \in wire PROVE m \in MessagesIn(wire)
    OBVIOUS
  <2>2. <<"message", m>> \in {x \in wire : x[1] = "message"} /\ <<"message", m>>[2] = m
    BY <2>1
  <2>3. QED
    BY <2>2 DEF MessagesIn
<1>5. MessagesIn(wire) \subseteq Messages
  BY DEF ViewInv, ViewTypeOK, MessagesIn
<1>6. Followed'
  <2>1. SUFFICES ASSUME NEW m \in announced
                 PROVE  /\ ChatOf[m] \in landed' => Shows(thread'[ChatOf[m]], m) \/ Accounted(m)'
                        /\ Overtook(m)' => Accounted(m)'
    BY <1>1 DEF Followed, server
  <2>2. /\ m \in Messages /\ thread' = thread /\ landed' = landed
        /\ Overtook(m)' <=> Overtook(m)
    BY <1>1, Facts DEF page, Overtook
  <2>3. Accounted(m) /\ Lost(m) => Accounted(m)'
    BY <1>1, <1>4, <2>2 DEF Accounted
  <2>4. ChatOf[m] \in landed => Lost(m)
    BY DEF ViewInv, Lost
  <2>5. Overtook(m) => Lost(m)
    BY DEF Lost
  <2>6. QED
    BY <2>2, <2>3, <2>4, <2>5 DEF ViewInv, Followed
<1>7. Announced' /\ IsFiniteSet(Begun)'
  BY <1>1, StillAnnounced DEF server
<1>8. Subscribed'
  BY <1>1 DEF Subscribed
<1>9. ViewTypeOK'
  <2>1. up' \in Seq({"on", "off"} \X Sessions) /\ missed' \subseteq Messages
    BY <1>1, <1>5, Facts
  <2>2. QED
    BY <1>1, <2>1 DEF ViewInv, ViewTypeOK, page, server
<1>10. QED
  BY <1>2, <1>3, <1>6, <1>7, <1>8, <1>9 DEF ViewInv

\* Connecting, and the server's part in a subscription.
LEMMA SocketStep ==
  ASSUME ViewInv, Subscribed',
         online' \in BOOLEAN, up' \in Seq({"on", "off"} \X Sessions),
         joining' \subseteq Sessions, joined' \subseteq Sessions,
         UNCHANGED <<page, wire, server, missed>>
  PROVE  ViewInv' /\ Ticking
<1>1. /\ Threads' /\ Ticking
      /\ \A d \in landed' : thread'[d] # Absent
      /\ \A m \in Messages : ChatOf[m] \in landed /\ Shows(thread[ChatOf[m]], m) =>
                               Shows(thread'[ChatOf[m]], m)
  BY SameThreads DEF page
<1>2. \A m \in announced : Accounted(m) => Accounted(m)'
  BY DEF Accounted
<1>3. Loads' /\ \A m \in Messages : Overtook(m)' => Overtook(m)
  BY StillLoads DEF page
<1>4. Followed'
  BY <1>1, <1>2, <1>3, StillFollowed DEF page, server
<1>5. Announced' /\ IsFiniteSet(Begun)'
  BY StillAnnounced DEF server
<1>6. ViewTypeOK'
  BY DEF ViewInv, ViewTypeOK, page, server
<1>7. QED
  BY <1>1, <1>3, <1>4, <1>5, <1>6 DEF ViewInv

LEMMA StepConnect ==
  ASSUME ViewInv, Connect PROVE ViewInv' /\ Ticking
<1>1. /\ online' = TRUE /\ up' = <<<<"on", selected>>>>
      /\ UNCHANGED <<page, joining, joined, wire, server, missed>>
  BY DEF Connect
<1>2. selected \in Sessions /\ selected' = selected
      /\ joining' \subseteq Sessions /\ joined' \subseteq Sessions
  BY <1>1 DEF ViewInv, ViewTypeOK, page
<1>3. /\ up' \in Seq({"on", "off"} \X Sessions) /\ Len(up') = 1 /\ up'[1] = <<"on", selected>>
  BY <1>1, <1>2
<1>4. Subscribed'
  <2>1. 1 \in 1..Len(up') /\ \A j \in 1..Len(up') : ~(1 < j)
    BY <1>3
  <2>2. QED
    BY <1>2, <1>3, <2>1 DEF Subscribed
<1>5. QED
  BY <1>1, <1>2, <1>3, <1>4, SocketStep

LEMMA StepServe ==
  ASSUME ViewInv, Serve PROVE ViewInv' /\ Ticking
<1> DEFINE on == <<"on", selected>>
           off == <<"off", selected>>
<1>1. /\ up # <<>> /\ up' = Tail(up)
      /\ UNCHANGED <<page, online, wire, server, missed>>
  BY DEF Serve
<1>2. /\ up \in Seq({"on", "off"} \X Sessions) /\ joining \subseteq Sessions /\ joined \subseteq Sessions
  BY DEF ViewInv, ViewTypeOK
<1>3. PICK s \in Sessions :
        \/ /\ up[1] = <<"on", s>>
           /\ joining' = joining \union {s} /\ joined' = joined
        \/ /\ up[1] = <<"off", s>>
           /\ joined' = joined \ {s} /\ joining' = joining
  <2>1. PICK k \in {"on", "off"}, s \in Sessions : Head(up) = <<k, s>> /\ up[1] = Head(up)
    BY <1>1, <1>2
  <2>2. QED
    BY <2>1 DEF Serve
<1>4. /\ up' \in Seq({"on", "off"} \X Sessions) /\ Len(up) \in Nat /\ Len(up) >= 1
      /\ Len(up') = Len(up) - 1
      /\ \A i \in 1..Len(up') : up'[i] = up[i + 1] /\ i + 1 \in 1..Len(up)
  BY <1>1, <1>2
<1>5. selected' = selected /\ online' = online
  BY <1>1 DEF page
<1>6. Subscribed'
  <2>1. SUFFICES ASSUME online
                 PROVE  \/ \E i \in 1..Len(up') :
                             up'[i] = on /\ \A j \in 1..Len(up') : i < j => up'[j] # off
                        \/ /\ selected \in joining' \union joined'
                           /\ \A j \in 1..Len(up') : up'[j] # off
    BY <1>5 DEF Subscribed
  <2>2. CASE \E i \in 1..Len(up) : up[i] = on /\ \A j \in 1..Len(up) : i < j => up[j] # off
    <3>1. PICK i \in 1..Len(up) : up[i] = on /\ \A j \in 1..Len(up) : i < j => up[j] # off
      BY <2>2
    <3>2. CASE i = 1
      <4>1. \A j \in 1..Len(up') : 1 < j + 1 /\ up'[j] = up[j + 1] /\ j + 1 \in 1..Len(up)
        BY <1>4
      <4>2. \A j \in 1..Len(up') : up'[j] # off
        BY <3>1, <3>2, <4>1
      <4>3. selected \in joining'
        BY <1>3, <3>1, <3>2
      <4>4. QED
        BY <4>2, <4>3
    <3>3. CASE i # 1
      <4>1. i - 1 \in 1..Len(up') /\ (i - 1) + 1 = i
        BY <1>4, <3>3
      <4>2. up'[i - 1] = on
        BY <1>4, <3>1, <4>1
      <4>3. \A j \in 1..Len(up') : i - 1 < j => i < j + 1 /\ up'[j] = up[j + 1] /\ j + 1 \in 1..Len(up)
        BY <1>4
      <4>4. \A j \in 1..Len(up') : i - 1 < j => up'[j] # off
        BY <3>1, <4>3
      <4>5. QED
        BY <4>1, <4>2, <4>4
    <3>4. QED
      BY <3>2, <3>3
  <2>3. CASE selected \in joining \union joined /\ \A j \in 1..Len(up) : up[j] # off
    <3>1. 1 \in 1..Len(up)
      BY <1>4
    <3>2. up[1] # off
      BY <2>3, <3>1
    <3>3. \A j \in 1..Len(up') : up'[j] # off
      BY <1>4, <2>3
    <3>4. selected \in joining' \union joined'
      BY <1>3, <2>3, <3>2
    <3>5. QED
      BY <3>3, <3>4
  <2>4. QED
    BY <2>1, <2>2, <2>3 DEF ViewInv, Subscribed
<1>7. joining' \subseteq Sessions /\ joined' \subseteq Sessions /\ online' \in BOOLEAN
  BY <1>2, <1>3, <1>5 DEF ViewInv, ViewTypeOK
<1>8. QED
  BY <1>1, <1>4, <1>6, <1>7, SocketStep

LEMMA StepJoin ==
  ASSUME ViewInv, NEW s \in Sessions, Join(s) PROVE ViewInv' /\ Ticking
<1>1. /\ joining' = joining \ {s} /\ joined' = joined \union {s}
      /\ UNCHANGED <<page, online, up, wire, server, missed>>
  BY DEF Join
<1>2. Subscribed'
  BY <1>1 DEF ViewInv, Subscribed, page
<1>3. /\ joining' \subseteq Sessions /\ joined' \subseteq Sessions /\ online' \in BOOLEAN
      /\ up' \in Seq({"on", "off"} \X Sessions)
  BY <1>1 DEF ViewInv, ViewTypeOK
<1>4. QED
  BY <1>1, <1>2, <1>3, SocketStep

-----------------------------------------------------------------------------

LEMMA TheViewStarts == ViewInit => ViewInv
<1>1. SUFFICES ASSUME ViewInit PROVE ViewInv
  OBVIOUS
<1>2. /\ selected \in Sessions /\ active = NoChat
      /\ thread = [c \in Chats |-> Absent] /\ load = [c \in Chats |-> Idle] /\ landed = {}
      /\ sending = NoMessage
      /\ online = FALSE /\ up = <<>> /\ joining = {} /\ joined = {} /\ wire = {}
      /\ at = [m \in Messages |-> "none"] /\ announced = {} /\ acked = [m \in Own |-> {}]
      /\ missed = {}
  BY <1>1 DEF ViewInit
<1>3. Idle \in Load /\ Idle.rows = {} /\ "none" \in Stages
  BY DEF Idle, Load, Stages
<1>4. ViewTypeOK
  <2>1. up \in Seq({"on", "off"} \X Sessions)
    BY <1>2, EmptySeq
  <2>2. /\ thread \in [Chats -> Seq(Bubble) \union {Absent}]
        /\ load \in [Chats -> Load] /\ at \in [Messages -> Stages]
    BY <1>2, <1>3
  <2>3. acked \in [Own -> SUBSET Receipts]
    BY <1>2
  <2>4. QED
    BY <1>2, <2>1, <2>2, <2>3 DEF ViewTypeOK
<1>5. Loads
  BY <1>2, <1>3, FS_EmptySet DEF Loads, RowsRead
<1>6. Begun = {}
  BY <1>2 DEF Begun
<1>7. Threads /\ Announced /\ Followed /\ Subscribed
  BY <1>2 DEF Threads, Announced, Followed, Subscribed
<1>8. QED
  BY <1>2, <1>4, <1>5, <1>6, <1>7, FS_EmptySet DEF ViewInv

LEMMA TheViewSteps == ViewInv /\ [ViewNext]_viewVars => ViewInv' /\ Ticking
<1>1. SUFFICES ASSUME ViewInv, [ViewNext]_viewVars PROVE ViewInv' /\ Ticking
  OBVIOUS
<1>2. CASE UNCHANGED viewVars
  <2>1. UNCHANGED <<page, socket, wire, server, missed>>
    BY <1>2 DEF viewVars
  <2>2. Subscribed'
    BY <1>1, <2>1, StillSubscribed DEF page
  <2>3. /\ joining' \subseteq Sessions /\ joined' \subseteq Sessions /\ online' \in BOOLEAN
        /\ up' \in Seq({"on", "off"} \X Sessions)
    BY <1>1, <2>1 DEF ViewInv, ViewTypeOK, socket
  <2>4. QED
    BY <1>1, <2>1, <2>2, <2>3, SocketStep
<1>3. ASSUME NEW s \in Sessions, SelectSession(s) \/ Join(s) PROVE ViewInv' /\ Ticking
  BY <1>1, <1>3, StepSelectSession, StepJoin
<1>4. ASSUME NEW c \in Chats, OpenChat(c) \/ Evict(c) \/ ReadRows(c) \/ Land(c) \/ LoadFails(c)
      PROVE  ViewInv' /\ Ticking
  BY <1>1, <1>4, StepLoad, StepEvict, StepReadRows, StepLand
<1>5. ASSUME NEW m \in Messages,
             \/ HandleSend(m) \/ SendAnswered(m) \/ SendFails(m)
             \/ SendStep(m) \/ Echo(m) \/ Receive(m) \/ Inserted(m)
             \/ \E t \in Receipts : Ack(m, t)
      PROVE  ViewInv' /\ Ticking
  BY <1>1, <1>5, StepHandleSend, StepSendEnds, StepRow, StepEmit
<1>6. QED
  BY <1>1, <1>2, <1>3, <1>4, <1>5, StepHandle, StepCloseChat, StepDisconnect, StepConnect, StepServe
     DEF ViewNext

LEMMA TheViewHolds == ViewSpec => []ViewInv
<1>1. QED
  BY TheViewStarts, TheViewSteps, PTL DEF ViewSpec

\* Whichever of a send's answer, its echo and the fetch of its thread comes first, a thread shows
\* a message once under its id, and a placeholder waits only for the send under way.
THEOREM ThreadsAreConsistent == ViewSpec => []ThreadsConsistent
<1>1. ViewInv => ThreadsConsistent
  <2>1. SUFFICES ASSUME ViewInv PROVE ShownOnce
    BY DEF ThreadsConsistent, ViewInv
  <2>2. SUFFICES ASSUME NEW c \in Chats, thread[c] # Absent
                 PROVE  /\ \A i, j \in DOMAIN thread[c] :
                             Key(thread[c][i]) = Key(thread[c][j]) => i = j
                        /\ \A m \in Own : In(Temp(m), thread[c]) => sending = m
    BY DEF ShownOnce
  <2>3. Whole(thread[c], c, sending)
    BY <2>1, <2>2, Facts
  <2>4. DOMAIN thread[c] = 1..Len(thread[c])
    BY <2>3 DEF Whole
  <2>5. \A m \in Own : In(Temp(m), thread[c]) => sending = m
    BY <2>3, <2>4 DEF Whole, In, Temp
  <2>6. QED
    BY <2>3, <2>4, <2>5 DEF Whole
<1>2. QED
  BY <1>1, TheViewHolds, PTL

\* A thread that was fetched misses only messages whose event it lost or was too early for; and
\* through lost connections and changes of session, the page ends up listening to what it shows.
THEOREM ThePageKeepsUp == ViewSpec => []KeepsUp
<1>1. ViewInv => KeepsUp
  <2>1. SUFFICES ASSUME ViewInv PROVE KeepsUp
    OBVIOUS
  <2>2. NothingMissing
    BY <2>1 DEF ViewInv, Followed, Accounted, NothingMissing
  <2>3. Listening
    BY <2>1 DEF ViewInv, Subscribed, Listening
  <2>4. QED
    BY <2>2, <2>3 DEF KeepsUp
<1>2. QED
  BY <1>1, TheViewHolds, PTL

\* No event and no answer, however late, takes back a tick or a message that is shown.
THEOREM TicksOnlyAdvance == ViewSpec => TicksAdvance
<1>1. Ticking =>
        \A c \in Chats :
          thread[c] # Absent /\ thread'[c] # Absent /\ load'[c] = load[c] =>
            \A i \in DOMAIN thread[c] :
              \E j \in DOMAIN thread'[c] :
                /\ thread'[c][j].msg = thread[c][i].msg
                /\ thread[c][i].kind \in {"wa", thread'[c][j].kind} => thread'[c][j].kind = thread[c][i].kind
                /\ thread[c][i].kind = thread'[c][j].kind =>
                     Advances(thread[c][i].tick, thread'[c][j].tick)
  BY DEF Ticking, Kept
<1>2. QED
  BY <1>1, TheViewHolds, TheViewSteps, PTL DEF TicksAdvance, ViewSpec

=============================================================================
