--------------------------- MODULE WebhookDelivery ---------------------------
(***************************************************************************)
(* Webhook delivery: WebhookService.dispatch for one event and one         *)
(* matching webhook, the BullMQ job and its WebhookProcessor, and the      *)
(* direct path that is taken without a queue or when the queue refuses.    *)
(* The queue, which lives in Redis and survives a restart of the process,  *)
(* is modelled from how the code uses it.                                  *)
(***************************************************************************)
EXTENDS Integers, FiniteSets

CONSTANTS
  Deliveries,    \* an event and a webhook that matches it
  Retries,       \* webhook.retryCount, 0 to 5
  Concurrency,   \* webhookWorkerConcurrency
  QueueEnabled,  \* queue.enabled
  MaxStalls,     \* how often the queue takes a job of a dead worker back (BullMQ: 1)
  MaxCrashes,    \* bound: restarts of the process
  Faults         \* TRUE: database writes may reject

ASSUME WebhookAssumption ==
  /\ Retries \in 0..5
  /\ Concurrency \in Nat \ {0}
  /\ QueueEnabled \in BOOLEAN /\ Faults \in BOOLEAN
  /\ MaxStalls \in Nat /\ MaxCrashes \in Nat

VARIABLES
  dispatch,  \* where dispatch() is with the delivery
  path,      \* the two ways it can take: by a job, or directly
  posts,     \* POSTs sent on each way (history)
  ok,        \* ways on which a 2xx came back (history)
  unstamped, \* ways on which one was not noted: a rejected write or a restart (history)
  failures,  \* webhook_delivery_failures: the ways that recorded one
  unrecorded,\* ways whose record could not be written (history)
  crashes    \* (history)

history == <<ok, unstamped>>
records == <<failures, unrecorded>>
vars == <<dispatch, path, posts, history, records, crashes>>

Ways == {"job", "direct"}
\* none: not taken.  queued, backoff: waiting for a worker or for the retry delay.
\* posting: the POST is awaited.  stamping: lastTriggeredAt.  recording: the failure row.
Places == {"none", "queued", "posting", "stamping", "backoff", "recording", "done", "failed", "lost"}
Budget == IF Retries = 0 THEN 1 ELSE Retries
Over == {"none", "done", "failed", "lost"}
\* adding: queue.add is awaited.  dropped: the lookup failed or a plugin cancelled.
\* poisoned: what a plugin made of the payload cannot be serialized.
Stages == {"new", "hook", "adding", "handed", "dropped", "poisoned", "lost"}

\* Type correctness of the dispatches, the ways and the history.
TypeOK ==
  /\ dispatch \in [Deliveries -> Stages]
  /\ path \in [Deliveries -> [Ways -> [pc : Places, attempt : 0..Budget, stalls : 0..MaxStalls + 1]]]
  /\ posts \in [Deliveries -> [Ways -> Nat]]
  /\ ok \subseteq Deliveries \X Ways /\ unstamped \subseteq Deliveries \X Ways
  /\ failures \subseteq Deliveries \X Ways /\ unrecorded \subseteq Deliveries \X Ways
  /\ crashes \in 0..MaxCrashes

Init ==
  /\ dispatch = [d \in Deliveries |-> "new"]
  /\ path = [d \in Deliveries |-> [w \in Ways |-> [pc |-> "none", attempt |-> 0, stalls |-> 0]]]
  /\ posts = [d \in Deliveries |-> [w \in Ways |-> 0]]
  /\ ok = {} /\ unstamped = {}
  /\ failures = {} /\ unrecorded = {}
  /\ crashes = 0

-----------------------------------------------------------------------------
\* dispatch().

Stage(d, stage) == dispatch' = [dispatch EXCEPT ![d] = stage]
Goto(d, w, pc) == path' = [path EXCEPT ![d][w].pc = pc]
Take(d, w, pc) == path' = [path EXCEPT ![d][w].pc = pc, ![d][w].attempt = 1]

\* The lookup of the webhooks, whose failure is swallowed, up to the webhook:before hook.
LookUp(d) ==
  /\ dispatch[d] = "new"
  /\ Stage(d, "hook") \/ (Faults /\ Stage(d, "dropped"))
  /\ UNCHANGED <<path, posts, history, records, crashes>>

\* The hook lets the delivery pass, to the queue if there is one, or cancels it.  A payload
\* that cannot be serialized goes neither way: JSON.stringify throws before queue.add and
\* again before the direct attempt, outside the try that records failures.
HookReturns(d) ==
  /\ dispatch[d] = "hook"
  /\ \/ Stage(d, "dropped") /\ UNCHANGED path
     \/ Stage(d, "poisoned") /\ UNCHANGED path
     \/ QueueEnabled /\ Stage(d, "adding") /\ UNCHANGED path
     \/ ~QueueEnabled /\ Stage(d, "handed") /\ Take(d, "direct", "posting")
  /\ UNCHANGED <<posts, history, records, crashes>>

\* The job reaches Redis; add() then resolves, or the connection breaks first.
JobAdded(d) ==
  /\ dispatch[d] = "adding" /\ path[d]["job"].pc = "none"
  /\ Take(d, "job", "queued")
  /\ UNCHANGED <<dispatch, posts, history, records, crashes>>

AddResolves(d) ==
  /\ dispatch[d] = "adding" /\ path[d]["job"].pc # "none"
  /\ Stage(d, "handed")
  /\ UNCHANGED <<path, posts, history, records, crashes>>

\* add() rejects, whether or not the job got through: the delivery is made directly.
\* Variant: the rejection is only logged.
AddRejectsLogged(d) ==
  /\ dispatch[d] = "adding"
  /\ Stage(d, "handed")
  /\ UNCHANGED <<path, posts, history, records, crashes>>
AddRejects(d) ==
  /\ dispatch[d] = "adding"
  /\ Stage(d, "handed")
  /\ Take(d, "direct", "posting")
  /\ UNCHANGED <<posts, history, records, crashes>>

-----------------------------------------------------------------------------
\* One attempt, the same on both ways: deliverWebhook and WebhookProcessor.process.

Active == {"posting", "stamping", "recording"}
Busy == Cardinality({d \in Deliveries : path[d]["job"].pc \in Active})

\* A worker takes a waiting job, and the direct way sleeps its backoff out.
\* Variant: a retry that was put off is never made.
AttemptStartsFresh(d, w) ==
  /\ path[d][w].pc = "queued"
  /\ w = "job" => Busy < Concurrency
  /\ Goto(d, w, "posting")
  /\ UNCHANGED <<dispatch, posts, history, records, crashes>>
AttemptStarts(d, w) ==
  /\ path[d][w].pc \in {"queued", "backoff"}
  /\ w = "job" => Busy < Concurrency
  /\ Goto(d, w, "posting")
  /\ UNCHANGED <<dispatch, posts, history, records, crashes>>

\* isFinalAttempt, and attempt < retryCount on the direct way.  Variant: one attempt more.
FinalAttemptLate(d, w) == path[d][w].attempt > Retries
FinalAttempt(d, w) == path[d][w].attempt >= Retries

\* The attempt threw: the last one records its failure, another is retried.
Throws(d, w) ==
  path' = IF FinalAttempt(d, w)
          THEN [path EXCEPT ![d][w].pc = "recording"]
          ELSE [path EXCEPT ![d][w].pc = "backoff", ![d][w].attempt = @ + 1]

\* A 2xx answer; or another answer, a time-out, a network error.
PostAccepted(d, w) ==
  /\ path[d][w].pc = "posting"
  /\ posts' = [posts EXCEPT ![d][w] = @ + 1]
  /\ ok' = ok \union {<<d, w>>}
  /\ Goto(d, w, "stamping")
  /\ UNCHANGED <<dispatch, unstamped, records, crashes>>

PostFails(d, w) ==
  /\ path[d][w].pc = "posting"
  /\ posts' = [posts EXCEPT ![d][w] = @ + 1]
  /\ Throws(d, w)
  /\ UNCHANGED <<dispatch, history, records, crashes>>

\* lastTriggeredAt is written inside the same try: its rejection is a failed attempt,
\* which is retried or recorded although the receiver has acknowledged it.
Stamped(d, w) ==
  /\ path[d][w].pc = "stamping"
  /\ \/ Goto(d, w, "done") /\ UNCHANGED unstamped
     \/ Faults /\ Throws(d, w) /\ unstamped' = unstamped \union {<<d, w>>}
  /\ UNCHANGED <<dispatch, posts, ok, records, crashes>>

\* recordWebhookDeliveryFailure, which never throws.
Recorded(d, w) ==
  /\ path[d][w].pc = "recording"
  /\ \/ failures' = failures \union {<<d, w>>} /\ UNCHANGED unrecorded
     \/ Faults /\ unrecorded' = unrecorded \union {<<d, w>>} /\ UNCHANGED failures
  /\ Goto(d, w, "failed")
  /\ UNCHANGED <<dispatch, posts, history, crashes>>

-----------------------------------------------------------------------------
\* The process restarts: what it was doing itself is lost; the queue takes the jobs of
\* the dead workers back, or moves one that stalled too often to its failed set.
AfterCrash(r) ==
  IF r.pc \notin Active THEN r
  ELSE [r EXCEPT !.stalls = @ + 1, !.pc = IF r.stalls < MaxStalls THEN "queued" ELSE "failed"]

Crash ==
  /\ crashes < MaxCrashes
  /\ crashes' = crashes + 1
  /\ dispatch' = [d \in Deliveries |->
                    IF dispatch[d] \in {"new", "hook", "adding"} THEN "lost" ELSE dispatch[d]]
  /\ path' = [d \in Deliveries |->
                [path[d] EXCEPT !["job"] = AfterCrash(@),
                                !["direct"].pc = IF @ \in Over THEN @ ELSE "lost"]]
  /\ unstamped' = unstamped \union {p \in ok : path[p[1]][p[2]].pc = "stamping"}
  /\ UNCHANGED <<posts, ok, records>>

-----------------------------------------------------------------------------
ServiceStep(d) ==
  LookUp(d) \/ HookReturns(d) \/ JobAdded(d) \/ AddResolves(d) \/ AddRejects(d)
WayStep(d, w) ==
  AttemptStarts(d, w) \/ PostAccepted(d, w) \/ PostFails(d, w) \/ Stamped(d, w) \/ Recorded(d, w)

Next ==
  \/ \E d \in Deliveries : ServiceStep(d) \/ \E w \in Ways : WayStep(d, w)
  \/ Crash

Spec == Init /\ [][Next]_vars

\* The process goes on while there is something to do: hooks, database writes and POSTs
\* settle (each POST has WEBHOOK_TIMEOUT), delays end, and a free worker takes a waiting
\* job.  Nothing is assumed of the order among them.
FairSpec ==
  Spec /\ WF_vars(\E d \in Deliveries : ServiceStep(d) \/ \E w \in Ways : WayStep(d, w))

-----------------------------------------------------------------------------
Ended(d) ==
  /\ dispatch[d] \in {"handed", "dropped", "poisoned", "lost"}
  /\ \A w \in Ways : path[d][w].pc \in Over

Taken(d) == {w \in Ways : path[d][w].pc # "none"}

\* What no record tells of: the process died with the delivery, the queue gave its job up
\* after too many restarts, or the record itself could not be written.
Untold(d, w) ==
  path[d][w].pc = "lost" \/ path[d][w].stalls > MaxStalls \/ <<d, w>> \in unrecorded

\* No event is lost in silence: a delivery that was handed over, or whose job got through,
\* is made on some way, and each of them, when it is over, was acknowledged or has a failure
\* record that tells of it, unless nothing could.  Left out are the deliveries that never
\* came so far: cancelled, not serializable, or lost with the process.
NoSilentLoss ==
  \A d \in Deliveries :
    Ended(d) /\ (dispatch[d] = "handed" \/ Taken(d) # {}) =>
      /\ Taken(d) # {}
      /\ \A w \in Taken(d) : <<d, w>> \in ok \union failures \/ Untold(d, w)

\* The retry budget: each way makes at most retryCount attempts (one if it is zero), and
\* one more for each restart that interrupted it.
AttemptBudget ==
  \A d \in Deliveries, w \in Ways :
    posts[d][w] <= Budget + path[d][w].stalls

\* A way on which the receiver answered 2xx makes no further attempt, unless that could
\* not be noted: the write of lastTriggeredAt rejected, or a restart came before it.
NoRetryAfterSuccess ==
  [][\A d \in Deliveries, w \in Ways :
       <<d, w>> \in ok \ unstamped => posts'[d][w] = posts[d][w]]_vars

\* A failure record is about a lost event: the receiver did not acknowledge it on the way
\* that recorded the failure, unless that could not be noted.
FailureMeansLost == failures \intersect ok \subseteq unstamped

\* Every delivery comes to an end.
EveryDeliveryEnds == \A d \in Deliveries : <>Ended(d)

\* A failure record says that an event is lost, and no other event is, but for what could
\* not be written.
FailuresTold == NoSilentLoss /\ FailureMeansLost

\* Attempts are made within the budget, and not after a success that was noted.
AttemptsExact == [](TypeOK /\ AttemptBudget) /\ NoRetryAfterSuccess

=============================================================================
