------------------------------ MODULE Ingress ------------------------------
(***************************************************************************)
(* Events of outside providers on their way to a plugin: the ingress       *)
(* request (persist, then acknowledge), the queue or the inline fallback,  *)
(* the processor with its lock per conversation, the failure rows and      *)
(* their redrive.  Handlers are cut at their awaits.                       *)
(***************************************************************************)
EXTENDS Integers, Sequences, FiniteSets

CONSTANTS
  Deliveries,   \* what providers deliver, each under its own delivery id
  Conversation, \* the deliveries of one conversation; any other has its own
  Operators,    \* redrive calls
  NoRedrive,    \* a redrive call that does not run
  Workers,      \* ingressWorkerConcurrency
  MaxRows,      \* bound: failure rows of one delivery
  Outages,      \* TRUE: queue.add may reject, the job having reached Redis or not
  Faults,       \* TRUE: the failure row may not be written
  MaxCrashes    \* bound: restarts (a job that stalls twice is failed by BullMQ itself)

ASSUME IngressAssumption ==
  /\ Conversation \subseteq Deliveries
  /\ Workers \in Nat \ {0} /\ MaxRows \in Nat /\ MaxCrashes \in 0..1
  /\ Outages \in BOOLEAN /\ Faults \in BOOLEAN

VARIABLES
  recorded,  \* ingress_events
  request,   \* the request that recorded the event: its await
  queue,     \* unfinished jobs, in the order they were added
  taken,     \* jobs that a worker runs
  line,      \* KeyedAsyncLock: jobs that wait for their turn or are dispatched
  failing,   \* jobs whose failure row is being written
  settled,   \* jobs whose processor has returned or thrown
  kept,      \* finished jobs: Redis remembers their ids for an hour, the scope of the model
  rows,      \* integration_delivery_failures
  redrive,   \* redriveInstance: rows ahead, the row in hand and its await
  handled,   \* how often a job was handled by the plugin (history)
  inlined,   \* deliveries the plugin handled inline (history)
  dropped,   \* deliveries lost: inline failure, restart, unwritten failure row (history)
  crashes    \* restarts (bound)

jobs == <<queue, taken, line, failing, settled, kept>>
history == <<handled, inlined, dropped>>
vars == <<recorded, request, jobs, rows, redrive, history, crashes>>

FailureRow == Deliveries \X (1..MaxRows)

\* A job: the live one of a delivery (row 0), or the replay of one of its failure rows.
Job == Deliveries \X (0..MaxRows)

SameKey(j, k) == j[1] = k[1] \/ {j[1], k[1]} \subseteq Conversation

InSeq(x, q) == \E i \in DOMAIN q : q[i] = x
Without(x, q) ==
  IF InSeq(x, q)
  THEN LET i == CHOOSE k \in DOMAIN q : q[k] = x IN SubSeq(q, 1, i - 1) \o SubSeq(q, i + 1, Len(q))
  ELSE q

\* Type correctness of the rows, the queue and the handlers.
TypeOK ==
  /\ recorded \subseteq Deliveries
  /\ request \in [Deliveries -> {"none", "adding", "inline", "done"}]
  /\ queue \in Seq(Job) /\ line \in Seq(Job)
  /\ failing \union settled \subseteq taken /\ taken \subseteq {queue[i] : i \in DOMAIN queue}
  /\ kept \subseteq Job /\ Cardinality(taken) <= Workers
  /\ rows \in [FailureRow -> {"none", "open", "redriven"}]
  /\ redrive \in [Operators -> {NoRedrive} \union
       [ahead : SUBSET FailureRow, row : FailureRow, at : {"adding", "inline", "updating"}]]
  /\ handled \in [Job -> Nat]
  /\ inlined \subseteq Deliveries /\ dropped \subseteq Deliveries
  /\ crashes \in 0..MaxCrashes

Init ==
  /\ recorded = {} /\ request = [d \in Deliveries |-> "none"]
  /\ queue = <<>> /\ taken = {} /\ line = <<>> /\ failing = {} /\ settled = {} /\ kept = {}
  /\ rows = [r \in FailureRow |-> "none"]
  /\ redrive = [o \in Operators |-> NoRedrive]
  /\ handled = [j \in Job |-> 0] /\ inlined = {} /\ dropped = {}
  /\ crashes = 0

-----------------------------------------------------------------------------
\* IngressService.handle and IngressEnqueueService.enqueue.

\* recordOrSkip.  A repetition of the delivery is answered without a change of state.
Record(d) ==
  /\ request[d] = "none" /\ d \notin recorded
  /\ recorded' = recorded \union {d}
  /\ request' = [request EXCEPT ![d] = "adding"]
  /\ UNCHANGED <<jobs, rows, redrive, history, crashes>>

\* queue.add: an id that Redis remembers is not added again.
Added(j) == IF j \in kept \/ InSeq(j, queue) THEN queue ELSE Append(queue, j)

RequestAdds(d) ==
  /\ request[d] = "adding"
  /\ queue' = Added(<<d, 0>>)
  /\ request' = [request EXCEPT ![d] = "done"]
  /\ UNCHANGED <<recorded, taken, line, failing, settled, kept, rows, redrive, history, crashes>>

\* The fallback, whether or not the job has reached Redis.
RequestFallsBack(d) ==
  /\ Outages /\ request[d] = "adding"
  /\ queue' \in {queue, Added(<<d, 0>>)}
  /\ request' = [request EXCEPT ![d] = "inline"]
  /\ UNCHANGED <<recorded, taken, line, failing, settled, kept, rows, redrive, history, crashes>>

RequestDispatches(d) ==
  /\ request[d] = "inline"
  /\ request' = [request EXCEPT ![d] = "done"]
  /\ \/ inlined' = inlined \union {d} /\ UNCHANGED dropped
     \/ dropped' = dropped \union {d} /\ UNCHANGED inlined
  /\ UNCHANGED <<recorded, jobs, rows, redrive, handled, crashes>>

-----------------------------------------------------------------------------
\* IngressProcessor.process, with KeyedAsyncLock around the dispatch.

Process ==
  /\ Cardinality(taken) < Workers
  /\ \E i \in DOMAIN queue :
       /\ queue[i] \notin taken
       /\ \A k \in 1..(i - 1) : queue[k] \in taken
       /\ taken' = taken \union {queue[i]}
       /\ line' = Append(line, queue[i])
  /\ UNCHANGED <<recorded, request, queue, failing, settled, kept, rows, redrive, history, crashes>>

\* The lock: nothing with the same key is ahead.  Variant: keyed by the delivery.
OwnTurn(j) == InSeq(j, line)
HasTurn(j) ==
  \E i \in DOMAIN line : line[i] = j /\ \A k \in 1..(i - 1) : ~SameKey(line[k], j)

DispatchSucceeds(j) ==
  /\ HasTurn(j)
  /\ line' = Without(j, line)
  /\ settled' = settled \union {j}
  /\ handled' = [handled EXCEPT ![j] = @ + 1]
  /\ UNCHANGED <<recorded, request, queue, taken, failing, kept, rows, redrive, inlined, dropped, crashes>>

FreshRow(d) == {r \in FailureRow : r[1] = d /\ rows[r] = "none"}

\* No live worker, an error of the plugin or the timeout.  The lock is free again while the
\* ingress:error hook and the failure row are awaited.  Variant: a throw keeps the lock.
Fails(j) ==
  /\ HasTurn(j) /\ Cardinality({k \in failing : k[1] = j[1]}) < Cardinality(FreshRow(j[1]))
  /\ failing' = failing \union {j}
  /\ UNCHANGED <<recorded, request, queue, taken, settled, kept, rows, redrive, history, crashes>>

DispatchFailsHolding(j) == Fails(j) /\ UNCHANGED line
DispatchFails(j) == Fails(j) /\ line' = Without(j, line)

\* A job has one attempt, so each failed attempt is the final one and writes the row.
FailureRecorded(j) ==
  /\ j \in failing /\ failing' = failing \ {j}
  /\ settled' = settled \union {j}
  /\ \/ \E r \in FreshRow(j[1]) : rows' = [rows EXCEPT ![r] = "open"] /\ UNCHANGED dropped
     \/ Faults /\ dropped' = dropped \union {j[1]} /\ UNCHANGED rows
  /\ UNCHANGED <<recorded, request, queue, taken, line, kept, redrive, handled, inlined, crashes>>

\* The worker tells Redis, and is free.
JobEnds(j) ==
  /\ j \in settled
  /\ queue' = Without(j, queue) /\ settled' = settled \ {j} /\ kept' = kept \union {j}
  /\ taken' = taken \ {j}
  /\ UNCHANGED <<recorded, request, line, failing, rows, redrive, history, crashes>>

-----------------------------------------------------------------------------
\* RedriveService.redriveInstance.

NextRow(todo) ==
  IF todo = {} THEN {NoRedrive}
  ELSE {[ahead |-> todo \ {r}, row |-> r, at |-> "adding"] : r \in todo}

OpenRows == {r \in FailureRow : rows[r] = "open"}

RedriveStarts(o) ==
  /\ redrive[o] = NoRedrive /\ OpenRows # {}
  /\ \E next \in NextRow(OpenRows) : redrive' = [redrive EXCEPT ![o] = next]
  /\ UNCHANGED <<recorded, request, jobs, rows, history, crashes>>

At(o, stage) == redrive[o] # NoRedrive /\ redrive[o].at = stage

RedriveAdds(o) ==
  /\ At(o, "adding")
  /\ \/ /\ queue' = Added(redrive[o].row)
        /\ redrive' = [redrive EXCEPT ![o].at = "updating"]
     \/ /\ Outages /\ queue' \in {queue, Added(redrive[o].row)}
        /\ redrive' = [redrive EXCEPT ![o].at = "inline"]
  /\ UNCHANGED <<recorded, request, taken, line, failing, settled, kept, rows, history, crashes>>

\* A replay that fails inline leaves its row open.  Variant: it is retired all the same.
RedriveRetires(o) ==
  /\ At(o, "inline")
  /\ redrive' = [redrive EXCEPT ![o].at = "updating"]
  /\ inlined' \in {inlined, inlined \union {redrive[o].row[1]}}
  /\ UNCHANGED <<recorded, request, jobs, rows, handled, dropped, crashes>>
RedriveDispatches(o) ==
  /\ At(o, "inline")
  /\ \/ /\ inlined' = inlined \union {redrive[o].row[1]}
        /\ redrive' = [redrive EXCEPT ![o].at = "updating"]
     \/ /\ \E next \in NextRow(redrive[o].ahead) : redrive' = [redrive EXCEPT ![o] = next]
        /\ UNCHANGED inlined
  /\ UNCHANGED <<recorded, request, jobs, rows, handled, dropped, crashes>>

\* The row is retired; or the update rejects, and the call with it, the rows ahead included.
RedriveUpdates(o) ==
  /\ At(o, "updating")
  /\ \/ /\ rows' = [rows EXCEPT ![redrive[o].row] = "redriven"]
        /\ \E next \in NextRow(redrive[o].ahead) : redrive' = [redrive EXCEPT ![o] = next]
     \/ /\ Faults
        /\ redrive' = [redrive EXCEPT ![o] = NoRedrive] /\ UNCHANGED rows
  /\ UNCHANGED <<recorded, request, jobs, history, crashes>>

-----------------------------------------------------------------------------
\* A restart: requests, locks and redrive calls are gone, active jobs wait again.  That they
\* wait where they stood, ahead of what was added after them, is taken of the queue (external).
Crash ==
  /\ crashes < MaxCrashes /\ crashes' = crashes + 1
  /\ dropped' = dropped \union {d \in Deliveries : request[d] \in {"adding", "inline"}}
  /\ request' = [d \in Deliveries |-> IF d \in recorded THEN "done" ELSE "none"]
  /\ taken' = {} /\ line' = <<>> /\ failing' = {} /\ settled' = {}
  /\ redrive' = [o \in Operators |-> NoRedrive]
  /\ UNCHANGED <<recorded, queue, kept, rows, handled, inlined>>

RequestStep(d) == Record(d) \/ RequestAdds(d) \/ RequestFallsBack(d) \/ RequestDispatches(d)
JobStep(j) == DispatchSucceeds(j) \/ DispatchFails(j) \/ FailureRecorded(j) \/ JobEnds(j)
RedriveStep(o) == RedriveAdds(o) \/ RedriveDispatches(o) \/ RedriveUpdates(o)

Next ==
  \/ \E d \in Deliveries : RequestStep(d)
  \/ Process
  \/ \E j \in Job : JobStep(j)
  \/ \E o \in Operators : RedriveStarts(o) \/ RedriveStep(o)
  \/ Crash

Spec == Init /\ [][Next]_vars

\* Handlers that can go on do: a dispatch ends by INGRESS_DISPATCH_TIMEOUT_MS at the latest.
\* Nobody has to deliver or to redrive.
FairSpec ==
  /\ Spec /\ WF_vars(Process)
  /\ \A d \in Deliveries : WF_vars(RequestAdds(d) \/ RequestFallsBack(d) \/ RequestDispatches(d))
  /\ \A j \in Job : WF_vars(JobStep(j))
  /\ \A o \in Operators : WF_vars(RedriveStep(o))

-----------------------------------------------------------------------------
\* An event that was acknowledged, or will be when its request ends, is not lost: the plugin
\* had it, or it is on its way, or an open failure row has it, or it fell into one of the
\* three holes `dropped` lists.
NoSilentLoss ==
  \A d \in recorded :
    \/ request[d] # "done" \/ d \in inlined \union dropped
    \/ \E j \in Job : j[1] = d /\ (handled[j] > 0 \/ InSeq(j, queue))
    \/ \E r \in FailureRow : r[1] = d /\ rows[r] = "open"

\* A job reaches the plugin once, whatever providers repeat and redrive calls replay; a
\* restart may repeat it once.
HandledOnce == \A j \in Job : handled[j] <= 1 + crashes

\* The jobs of a conversation are dispatched one at a time, in the order they were queued,
\* by however many workers: while one has its turn, none that was queued before it is still
\* to be dispatched.
ConversationInOrder ==
  \A j \in Job : HasTurn(j) =>
    \A i, k \in DOMAIN queue :
      queue[k] = j /\ i < k /\ SameKey(queue[i], j) => queue[i] \in failing \union settled

\* An event that was recorded gets to its plugin or into a failure row, unless it was
\* dropped: no job waits for ever for a lock or a worker.
EveryEventSettles ==
  \A d \in Deliveries : d \in recorded ~>
    \/ d \in inlined \union dropped
    \/ \E j \in Job : j[1] = d /\ handled[j] > 0
    \/ \E r \in FailureRow : r[1] = d /\ rows[r] # "none"

\* The state is of its type, and the jobs of a conversation come to the plugin once and in
\* order.
OnceInOrder == TypeOK /\ HandledOnce /\ ConversationInOrder

=============================================================================
