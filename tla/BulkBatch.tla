----------------------------- MODULE BulkBatch -----------------------------
(***************************************************************************)
(* Bulk sending (bulk-message.service.ts): createBatch, the executor that  *)
(* processBatch runs in the background, cancelBatch, the deletion of the   *)
(* session, and boot.  An executor is cut at its awaits; a save writes the *)
(* whole in-memory batch over the row, or inserts it when the row is gone. *)
(***************************************************************************)
EXTENDS Integers, FiniteSets

CONSTANTS
  Batches,     \* batches of one session
  StopOnError, \* those of them whose options say so
  Cancels,     \* bound: cancelBatch requests, each used once
  NoRow,       \* there is no row, or no batch in memory
  Total,       \* messages in a batch
  Cadence,     \* progress is saved every Cadence messages (ten in the code)
  MaxBatches,  \* BULK_MAX_CONCURRENT_BATCHES, 0 means no cap
  Remote,      \* those of them that another replica serves
  Faults,      \* TRUE: saves may reject, and the engine may be gone at the start
  Crashes      \* TRUE: the process may restart

ASSUME BulkAssumption ==
  /\ Total \in Nat \ {0}
  /\ Cadence \in Nat \ {0}
  /\ MaxBatches \in Nat
  /\ StopOnError \subseteq Batches /\ Remote \subseteq Cancels
  /\ Faults \in BOOLEAN /\ Crashes \in BOOLEAN

VARIABLES
  row,          \* message_batches
  flag,         \* processingBatches: "none", "run" (true) or "stop" (false)
  inFlight,     \* inFlightBatches
  pc, mem, seen, \* of the executor: its await, its batch, the status it re-read, until it is used
  cancel,       \* the cancelBatch requests: their await, batch, and read batch
  delivered,    \* messages the engine has sent (history)
  deleted,      \* the session and its rows are deleted
  interrupted,  \* what cut a batch short: a boot, or a fault of its executor (history)
  overridden    \* answered cancels of a PENDING batch that its executor wrote over (history)

executor == <<pc, mem, seen>>
vars == <<row, flag, inFlight, executor, cancel, delivered, deleted, interrupted,
          overridden>>

BatchStatus == {"pending", "processing", "completed", "cancelled", "failed"}
Batch == [status : BatchStatus, sent : 0..Total, failed : 0..Total,
          pending : -Total..Total, cancelled : -Total..Total, index : 0..Total]
ASSUME NoRowAssumption == NoRow \notin Batch \union BatchStatus \union Batches

\* saved: createBatch's save.  loading: processBatch's findOne.  loop: the PROCESSING or
\* the cadence save, or the delay.  sending: the engine.  cadence, final: the re-reads.
\* finishing: the last save.
Places == {"none", "saved", "loading", "starting", "loop", "sending", "cadence",
           "final", "finishing"}
Running == Places \ {"none", "saved", "loading"}

\* Type correctness of the rows, the executors and the requests.
TypeOK ==
  /\ row \in [Batches -> Batch \union {NoRow}]
  /\ flag \in [Batches -> {"none", "run", "stop"}]
  /\ inFlight \in 0..Cardinality(Batches)
  /\ pc \in [Batches -> Places]
  /\ mem \in [Batches -> Batch \union {NoRow}]
  /\ seen \in [Batches -> BatchStatus \union {NoRow}]
  /\ \A c \in Cancels :
       /\ cancel[c].pc \in {"idle", "read", "done", "failed"}
       /\ cancel[c].batch \in Batches \union {NoRow} /\ (cancel[c].batch = NoRow <=> cancel[c].pc \in {"idle", "failed"})
       /\ cancel[c].snap \in Batch \union {NoRow}
  /\ delivered \in [Batches -> Nat]
  /\ deleted \in BOOLEAN
  /\ interrupted \in [Batches -> {"no", "boot", "fault"}]
  /\ overridden \subseteq Cancels

New == [status |-> "pending", sent |-> 0, failed |-> 0, pending |-> Total,
        cancelled |-> 0, index |-> 0]
NoRequest == [pc |-> "idle", batch |-> NoRow, snap |-> NoRow]

Init ==
  /\ row = [b \in Batches |-> NoRow]
  /\ flag = [b \in Batches |-> "none"]
  /\ inFlight = 0
  /\ pc = [b \in Batches |-> "none"]
  /\ mem = [b \in Batches |-> NoRow]
  /\ seen = [b \in Batches |-> NoRow]
  /\ cancel = [c \in Cancels |-> NoRequest]
  /\ delivered = [b \in Batches |-> 0]
  /\ deleted = FALSE
  /\ interrupted = [b \in Batches |-> "no"]
  /\ overridden = {}

-----------------------------------------------------------------------------
\* Variant: the messages that were pending are counted twice.
CancelledKeepsPending(r) == [r EXCEPT !.status = "cancelled", !.cancelled = r.pending]
Cancelled(r) == [r EXCEPT !.status = "cancelled", !.cancelled = r.pending, !.pending = 0]
StatusOf(r) == IF r = NoRow THEN NoRow ELSE r.status
Goto(b, place) == pc' = [pc EXCEPT ![b] = place]

\* processBatch's finally.  Variant: it drops the flag but not the in-flight count.
ReleaseFlagOnly(b) == inFlight' = inFlight /\ flag' = [flag EXCEPT ![b] = "none"]
Release(b) == inFlight' = inFlight - 1 /\ flag' = [flag EXCEPT ![b] = "none"]

\* A save of the executor rejects, and the executor ends.
SaveRejects(b) ==
  /\ Faults
  /\ mem' = [mem EXCEPT ![b] = NoRow]
  /\ Goto(b, "none")
  /\ Release(b)
  /\ interrupted' = [interrupted EXCEPT ![b] = "fault"]
  /\ UNCHANGED row

\* The executor saves the batch r and goes on at place, or the save rejects and the
\* executor ends.
Save(b, r, place) ==
  \/ /\ row' = [row EXCEPT ![b] = r]
     /\ mem' = [mem EXCEPT ![b] = r]
     /\ Goto(b, place)
     /\ UNCHANGED <<flag, inFlight, interrupted>>
  \/ SaveRejects(b)

\* createBatch: the cap is compared with the batches already in their executor.
BatchCapReached == MaxBatches > 0 /\ inFlight >= MaxBatches

CreateBatch(b) ==
  /\ ~deleted
  /\ row[b] = NoRow /\ pc[b] = "none"
  /\ ~BatchCapReached
  /\ row' = [row EXCEPT ![b] = New]
  /\ Goto(b, "saved")
  /\ UNCHANGED <<flag, inFlight, mem, seen, cancel, delivered, deleted, interrupted, overridden>>

\* processBatch reads the batch back.
ProcessLoads(b) ==
  /\ pc[b] = "saved"
  /\ mem' = [mem EXCEPT ![b] = row[b]]
  /\ Goto(b, "loading")
  /\ UNCHANGED <<row, flag, inFlight, seen, cancel, delivered, deleted, interrupted, overridden>>

\* It sets the flag, counts itself and saves PROCESSING over whatever the row has become,
\* a cancellation included; or the save rejects and it ends.
ProcessBatch(b) ==
  /\ pc[b] = "loading"
  /\ \/ /\ mem[b] = NoRow
        /\ Goto(b, "none")
        /\ UNCHANGED <<row, flag, inFlight, mem, interrupted, overridden>>
     \/ /\ mem[b] # NoRow
        /\ flag' = [flag EXCEPT ![b] = "run"]
        /\ inFlight' = inFlight + 1
        /\ row' = [row EXCEPT ![b] = [mem[b] EXCEPT !.status = "processing"]]
        /\ mem' = [mem EXCEPT ![b].status = "processing"]
        /\ Goto(b, "starting")
        /\ overridden' = overridden \union {c \in Cancels : cancel[c].pc = "done" /\ cancel[c].batch = b}
        /\ UNCHANGED interrupted
     \/ /\ mem[b] # NoRow /\ Faults
        /\ mem' = [mem EXCEPT ![b] = NoRow]
        /\ Goto(b, "none")
        /\ flag' = [flag EXCEPT ![b] = "none"]
        /\ interrupted' = [interrupted EXCEPT ![b] = "fault"]
        /\ UNCHANGED <<row, inFlight, overridden>>
  /\ UNCHANGED <<seen, cancel, delivered, deleted>>

\* executeBatch finds its engine, or fails the batch.
ExecuteBatch(b) ==
  /\ pc[b] = "starting"
  /\ \/ Goto(b, "loop") /\ UNCHANGED <<row, flag, inFlight, mem, interrupted>>
     \/ /\ Faults
        /\ row' = [row EXCEPT ![b] = [mem[b] EXCEPT !.status = "failed"]]
        /\ mem' = [mem EXCEPT ![b].status = "failed"]
        /\ Goto(b, "finishing")
        /\ interrupted' = [interrupted EXCEPT ![b] = "fault"]
        /\ UNCHANGED <<flag, inFlight>>
     \/ SaveRejects(b)
  /\ UNCHANGED <<seen, cancel, delivered, deleted, overridden>>

\* The head of the loop: the next message goes to the engine.

SendNext(b) ==
  /\ pc[b] = "loop"
  /\ flag[b] = "run" /\ mem[b].index < Total
  /\ Goto(b, "sending")
  /\ UNCHANGED <<row, flag, inFlight, mem, seen, cancel, delivered, deleted, interrupted, overridden>>

\* Or the loop is over, and the status is read once more.
LoopEnds(b) ==
  /\ pc[b] = "loop"
  /\ flag[b] # "run" \/ mem[b].index = Total
  /\ seen' = [seen EXCEPT ![b] = StatusOf(row[b])]
  /\ Goto(b, "final")
  /\ UNCHANGED <<row, flag, inFlight, mem, cancel, delivered, deleted, interrupted, overridden>>

\* The message at index i is done: at the cadence and after the last one the status is
\* re-read before the progress is saved.
AtCadence(i) == i % Cadence = 0 \/ i = Total - 1

Processed(b, r) ==
  LET i == mem[b].index IN
  /\ mem' = [mem EXCEPT ![b] = [r EXCEPT !.index = i + 1]]
  /\ IF AtCadence(i)
     THEN Goto(b, "cadence") /\ seen' = [seen EXCEPT ![b] = StatusOf(row[b])]
     ELSE Goto(b, "loop") /\ UNCHANGED seen

Sent(b) ==
  /\ pc[b] = "sending"
  /\ delivered' = [delivered EXCEPT ![b] = @ + 1]
  /\ Processed(b, [mem[b] EXCEPT !.sent = @ + 1, !.pending = @ - 1])
  /\ UNCHANGED <<row, flag, inFlight, cancel, deleted, interrupted, overridden>>

\* The send failed: the loop goes on, or breaks before the index advances.
SendFailed(b) ==
  LET r == [mem[b] EXCEPT !.failed = @ + 1, !.pending = @ - 1] IN
  /\ pc[b] = "sending"
  /\ \/ /\ b \notin StopOnError
        /\ Processed(b, r)
     \/ /\ b \in StopOnError
        /\ mem' = [mem EXCEPT ![b] = [r EXCEPT !.status = "failed"]]
        /\ seen' = [seen EXCEPT ![b] = StatusOf(row[b])]
        /\ Goto(b, "final")
  /\ UNCHANGED <<row, flag, inFlight, cancel, delivered, deleted, interrupted, overridden>>

\* resolveFinalBatchStatus.
FinalStatus(cancelled, stopped, r) ==
  IF cancelled THEN "cancelled"
  ELSE IF stopped \/ (r.failed > 0 /\ r.sent = 0) THEN "failed" ELSE "completed"

\* Variant: only the row tells of a cancellation.
CancelledByRow(b) == seen[b] = "cancelled"
WasCancelled(b) == seen[b] = "cancelled" \/ flag[b] # "run"

Finalized(b) ==
  LET r == IF WasCancelled(b) THEN Cancelled(mem[b]) ELSE mem[b]
  IN  [r EXCEPT !.status = FinalStatus(WasCancelled(b), mem[b].status = "failed", r)]

\* The status re-read at the cadence: a cancelled row ends the batch without another
\* read, anything else is overwritten with the progress.
SaveProgress(b) ==
  /\ pc[b] = "cadence"
  /\ IF seen[b] = "cancelled" THEN Save(b, Finalized(b), "finishing") ELSE Save(b, mem[b], "loop")
  /\ seen' = [seen EXCEPT ![b] = NoRow]
  /\ UNCHANGED <<cancel, delivered, deleted, overridden>>

FinalSave(b) ==
  /\ pc[b] = "final"
  /\ Save(b, Finalized(b), "finishing")
  /\ seen' = [seen EXCEPT ![b] = NoRow]
  /\ UNCHANGED <<cancel, delivered, deleted, overridden>>

Finish(b) ==
  /\ pc[b] = "finishing"
  /\ Goto(b, "none")
  /\ mem' = [mem EXCEPT ![b] = NoRow]
  /\ Release(b)
  /\ UNCHANGED <<row, seen, cancel, delivered, deleted, interrupted, overridden>>

-----------------------------------------------------------------------------
\* cancelBatch reads the batch and refuses one that is completed or cancelled; one that is
\* PENDING, or that failed, is accepted.
CancelReads(c, b) ==
  /\ cancel[c].pc = "idle"
  /\ row[b] # NoRow
  /\ row[b].status \notin {"completed", "cancelled"}
  /\ cancel' = [cancel EXCEPT ![c] = [pc |-> "read", batch |-> b, snap |-> row[b]]]
  /\ UNCHANGED <<row, flag, inFlight, executor, delivered, deleted, interrupted, overridden>>

\* It clears the flag of its own process and saves what it read as cancelled; or the save
\* rejects, and the flag is cleared all the same.
CancelBatch(c) ==
  LET b == cancel[c].batch IN
  /\ cancel[c].pc = "read"
  /\ flag' = IF c \in Remote THEN flag ELSE [flag EXCEPT ![b] = "stop"]
  /\ \/ /\ row' = [row EXCEPT ![b] = Cancelled(cancel[c].snap)]
        /\ cancel' = [cancel EXCEPT ![c].pc = "done", ![c].snap = NoRow]
     \/ /\ Faults
        /\ cancel' = [cancel EXCEPT ![c] = [NoRequest EXCEPT !.pc = "failed"]]
        /\ UNCHANGED row
  /\ UNCHANGED <<inFlight, executor, delivered, deleted, interrupted, overridden>>

\* SessionService.delete removes the session's batches in its transaction.
DeleteSession ==
  /\ ~deleted
  /\ deleted' = TRUE
  /\ row' = [b \in Batches |-> NoRow]
  /\ UNCHANGED <<flag, inFlight, executor, cancel, delivered, interrupted, overridden>>

\* onApplicationBootstrap fails what the dead process was driving.  Variants: it
\* resumes the batch from its last saved index; it leaves it alone.
Orphaned(r) == r # NoRow /\ r.status = "processing"

MemoryLost ==
  /\ Crashes
  /\ mem' = [b \in Batches |-> NoRow]
  /\ seen' = [b \in Batches |-> NoRow]
  /\ flag' = [b \in Batches |-> "none"]
  /\ inFlight' = 0
  /\ cancel' = [c \in Cancels |-> IF cancel[c].pc \in {"done", "failed"} THEN cancel[c] ELSE NoRequest]
  /\ interrupted' = [b \in Batches |->
       IF Orphaned(row[b]) /\ interrupted[b] = "no" THEN "boot" ELSE interrupted[b]]
  /\ UNCHANGED <<delivered, deleted, overridden>>

RestartResumes ==
  /\ MemoryLost
  /\ pc' = [b \in Batches |-> IF Orphaned(row[b]) THEN "saved" ELSE "none"]
  /\ UNCHANGED row
Restart ==
  /\ MemoryLost
  /\ pc' = [b \in Batches |-> "none"]
  /\ row' = [b \in Batches |-> IF Orphaned(row[b]) THEN [row[b] EXCEPT !.status = "failed"] ELSE row[b]]

ExecutorStep(b) ==
  \/ ProcessLoads(b) \/ ProcessBatch(b) \/ ExecuteBatch(b) \/ SendNext(b) \/ LoopEnds(b)
  \/ Sent(b) \/ SendFailed(b) \/ SaveProgress(b) \/ FinalSave(b) \/ Finish(b)

Next ==
  \/ \E b \in Batches : CreateBatch(b) \/ ExecutorStep(b)
  \/ \E c \in Cancels, b \in Batches : CancelReads(c, b)
  \/ \E c \in Cancels : CancelBatch(c)
  \/ DeleteSession
  \/ Restart

Spec == Init /\ [][Next]_vars

-----------------------------------------------------------------------------
AtRest(b) == pc[b] = "none" /\ \A c \in Cancels : cancel[c].pc = "read" => cancel[c].batch # b

\* The in-flight count is exact: every executor that was counted in is counted out on
\* every way out, so a failing save can not eat up the cap for good.
InFlightExact == inFlight = Cardinality({b \in Batches : pc[b] \in Running})

\* The counters of a row add up to the messages of its batch, whoever wrote it last; except
\* where the executor took a batch over whose cancel it wrote over: it may go on from the
\* cancelled counters, and a second cancel then counts a negative rest as cancelled.
Overridden(b) == \E c \in overridden : cancel[c].batch = b

CountersAddUp ==
  \A b \in Batches : row[b] # NoRow /\ ~Overridden(b) =>
    row[b].sent + row[b].failed + row[b].pending + row[b].cancelled = Total

\* A batch is COMPLETED only when every message of it was tried and none is unaccounted
\* for, through cancellations, stops on error, failing saves and restarts.
CompletedMeansAll ==
  \A b \in Batches : StatusOf(row[b]) = "completed" =>
    row[b].sent + row[b].failed = Total /\ row[b].sent = delivered[b]

\* No message of a batch goes out twice: an interrupted batch is not resumed.
NoResend == \A b \in Batches : delivered[b] <= Total

\* A cancel holds: once the cancelBatch of the executor's own process has answered and
\* the executor is through, the batch is CANCELLED, whatever the executor was saving
\* meanwhile, unless a boot or a fault cut the executor short; except a cancel answered
\* while the batch was still PENDING, which the PROCESSING save of its executor writes over.
CutShort(b) == interrupted[b] # "no"

CancelHolds ==
  \A c \in Cancels :
    LET b == cancel[c].batch IN
    cancel[c].pc = "done" /\ c \notin Remote \union overridden /\ AtRest(b) /\ ~CutShort(b)
      => StatusOf(row[b]) \in {"cancelled", NoRow}

\* No batch is left PROCESSING with nobody to end it: an executor that will still save
\* is under way, through cancellations and boots, unless one of its saves rejected (the
\* next boot then fails the batch).
ProcessingIsDriven ==
  \A b \in Batches :
    StatusOf(row[b]) = "processing"
      => pc[b] \in Running \ {"finishing"} \/ interrupted[b] = "fault"

\* The state is of its type, and the count under the cap is exact.
Consistent == TypeOK /\ InFlightExact

\* A row never tells what is not so, whoever wrote it last.
RowHonest == CountersAddUp /\ CompletedMeansAll /\ ProcessingIsDriven

=============================================================================
