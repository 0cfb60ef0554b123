-------------------------- MODULE SessionLifecycle --------------------------
(***************************************************************************)
(* The session lifecycle of SessionService (session.service.ts) over the   *)
(* whatsapp-web.js adapter: start, stop, forceKill, delete and the         *)
(* reconnect timer, as asynchronous tasks that are cut at every await and  *)
(* interleave on one JavaScript thread, together with the engine's own     *)
(* callbacks.  A task is the activation of one async method; what runs     *)
(* between two awaits is one action.                                       *)
(***************************************************************************)
EXTENDS Integers, FiniteSets

CONSTANTS
  Sessions,       \* session ids
  Engines,        \* adapter instances; one that nothing refers to any more is reused
  Tasks,          \* bound: async activations in flight at once
  NoEngine,       \* the engines map has no entry
  NoReconnect,    \* the reconnectStates map has no entry
  MaxAttempts,    \* session.config.maxReconnectAttempts, 0 disables reconnecting
  MaxConcurrent,  \* sessions.maxConcurrent, 0 means no cap
  MaxStray,       \* bound: pending timers that no reconnect state points to
  Serial,         \* the sessions whose clients send their calls one at a time
  Faults          \* TRUE: engineFactory.create and database writes may throw

ASSUME ConstantsAssumption ==
  /\ MaxAttempts \in Nat
  /\ MaxConcurrent \in Nat
  /\ MaxStray \in Nat
  /\ Serial \subseteq Sessions
  /\ Faults \in BOOLEAN
  /\ NoEngine \notin Engines
  /\ Sessions # {}

VARIABLES
  engines,       \* engines: the registered adapter of each session
  initializing,  \* initializingSessions: a start() holds the reservation
  stopping,      \* stoppingSessions: stop/delete marks
  errors,        \* sessionErrors: sessions with a recorded failure reason
  reconnect,     \* reconnectStates: attempts, and whether its timer is pending
  stray,         \* pending reconnect timers of replaced reconnect states
  row,           \* sessions.status in the database
  owner,         \* the session an adapter's callbacks were made for
  res,           \* what an adapter holds: see Resource
  status,        \* the adapter's own status field
  task           \* the async activations in flight

vars == <<engines, initializing, stopping, errors, reconnect, stray, row,
          owner, res, status, task>>

service == <<engines, initializing, stopping, errors, reconnect, stray>>
adapter == <<owner, res, status>>

\* "pairing" stands for QR_READY and AUTHENTICATING, which no decision tells apart.
Status == {"disconnected", "initializing", "pairing", "ready", "failed"}
ActiveStatus == {"initializing", "pairing", "ready"}
RowStatus == Status \union {"created", "gone"}

\* none: not constructed.       created: constructed, initialize() not called.
\* pinning: initialize() called, this.client still null.
\* launching: client.initialize() pending.  live: client.initialize() settled.
\* closing: tearingDown set.    closed: destroyed, or abandoned by the caller.
Resource == {"none", "created", "pinning", "launching", "live", "closing", "closed"}

CallKinds == {"start", "stop", "kill", "delete"}
Kinds == CallKinds \union {"rec"}
\* check: findOne resolved.   hook: a plugin hook is awaited.
\* init, initErr: the INITIALIZING write is awaited and will resolve or reject.
\* launch: engine.initialize is awaited.   guard: isSessionRetired is awaited.
\* down, undo, evict: a teardown is awaited (the handler's own, the guard's, the catch's).
Places == {"idle", "check", "hook", "init", "initErr", "launch", "guard",
           "down", "undo", "evict"}

Task == [kind : Kinds, sess : Sessions, pc : Places, eng : Engines \union {NoEngine}]
ReconnectState == [attempts : 0..MaxAttempts, timer : BOOLEAN]

\* Type correctness of the maps, the rows, the adapters and the activations.
TypeOK ==
  /\ engines \in [Sessions -> Engines \union {NoEngine}]
  /\ initializing \subseteq Sessions
  /\ stopping \subseteq Sessions
  /\ errors \subseteq Sessions
  /\ reconnect \in [Sessions -> ReconnectState \union {NoReconnect}]
  /\ stray \in [Sessions -> 0..MaxStray]
  /\ row \in [Sessions -> RowStatus]
  /\ owner \in [Engines -> Sessions]
  /\ res \in [Engines -> Resource]
  /\ status \in [Engines -> Status]
  /\ task \in [Tasks -> Task]

Idle == [kind |-> "stop", sess |-> CHOOSE s \in Sessions : TRUE, pc |-> "idle", eng |-> NoEngine]

ProcessMemoryEmpty ==
  /\ engines = [s \in Sessions |-> NoEngine]
  /\ initializing = {}
  /\ stopping = {}
  /\ errors = {}
  /\ reconnect = [s \in Sessions |-> NoReconnect]
  /\ stray = [s \in Sessions |-> 0]
  /\ owner = [e \in Engines |-> Idle.sess]
  /\ res = [e \in Engines |-> "none"]
  /\ status = [e \in Engines |-> "disconnected"]
  /\ task = [t \in Tasks |-> Idle]

Init ==
  /\ ProcessMemoryEmpty
  /\ row = [s \in Sessions |-> "created"]

-----------------------------------------------------------------------------
\* Helpers shared by the handlers.

At(t, kind, pc) == task[t].kind = kind /\ task[t].pc = pc

\* repository.update on a deleted row matches nothing.
Write(rows, s, st) == [rows EXCEPT ![s] = IF @ = "gone" THEN @ ELSE st]

\* Variant: callbacks of a superseded adapter are not filtered.
IsLiveEngineUnchecked(s, e) == TRUE

\* isLiveEngine: a callback counts only while its adapter is the registered one.
IsLiveEngine(s, e) == engines[s] = e

\* The rows after the adapter reports st through a callback (dropped if superseded).
Reported(e, st) == IF IsLiveEngine(owner[e], e) THEN Write(row, owner[e], st) ELSE row

\* beginClientTeardown finds a client to destroy.
HasClient(r, e) == r[e] \in {"launching", "live", "closing"}

\* Nothing in the service refers to e: its callbacks are dropped for good, so e can
\* stand for the next adapter built.
Fresh(e) ==
  /\ \A s \in Sessions : engines[s] # e
  /\ \A t \in Tasks : task[t].eng # e

\* The concurrency cap counts a session once, registered or reserved.
Occupied == {s \in Sessions : engines[s] # NoEngine} \union initializing
\* Variant: reservations are not counted.
AtCapRegisteredOnly ==
  MaxConcurrent # 0 /\ Cardinality({s \in Sessions : engines[s] # NoEngine}) >= MaxConcurrent
AtCap == MaxConcurrent # 0 /\ Cardinality(Occupied) >= MaxConcurrent

\* Variant: only a client still launching is torn down.
TornOnlyLaunching(r, e) == [r EXCEPT ![e] = IF @ = "launching" THEN "closing" ELSE @]

\* A teardown (disconnect, destroy, forceDestroy) up to its first await, on
\* adapters in the states r and statuses st: nothing happens without a client.
Torn(r, e) == [r EXCEPT ![e] = IF HasClient(r, e) THEN "closing" ELSE @]
TornStatus(st, r, e) == [st EXCEPT ![e] = IF HasClient(r, e) THEN "disconnected" ELSE @]

\* Its setStatus(DISCONNECTED) reaches the row while the adapter is registered.
RowAfterTeardown(e) ==
  IF HasClient(res, e) /\ status[e] # "disconnected"
  THEN Reported(e, "disconnected") ELSE row

\* teardownEngineSafely settles: the client is destroyed, or abandoned after ten seconds.
Settled(e) == [res EXCEPT ![e] = IF @ = "closing" THEN "closed" ELSE @]

\* scheduleReconnect on the entries rc, the rows and the reasons its caller leaves.
MayRetry(rc, s) == rc[s] # NoReconnect /\ rc[s].attempts < MaxAttempts
Exhausted(rc, s) == rc[s] # NoReconnect /\ rc[s].attempts >= MaxAttempts

ScheduleReconnect(s, rc, rows, errs) ==
  /\ reconnect' = IF MayRetry(rc, s)
                  THEN [rc EXCEPT ![s] = [attempts |-> rc[s].attempts + 1, timer |-> TRUE]]
                  ELSE rc
  /\ row' = IF Exhausted(rc, s) THEN Write(rows, s, "failed") ELSE rows
  /\ errors' = IF Exhausted(rc, s) THEN errs \union {s} ELSE errs

CancelReconnect(rc, s) == [rc EXCEPT ![s] = NoReconnect]

Become(t, kind, s, pc, e) ==
  task' = [task EXCEPT ![t] = [kind |-> kind, sess |-> s, pc |-> pc, eng |-> e]]
Goto(t, pc, e) == Become(t, task[t].kind, task[t].sess, pc, e)
Finish(t) == task' = [task EXCEPT ![t] = Idle]

\* start()'s finally: the reservation goes with the task.
FinishLaunch(t) ==
  /\ Finish(t)
  /\ initializing' = IF task[t].kind = "start" THEN initializing \ {task[t].sess}
                                              ELSE initializing

-----------------------------------------------------------------------------
\* start(), and the initializeEngine it shares with executeReconnect.

\* A client's request, up to the end of its findOne.
Call(t, kind, s) ==
  /\ task[t].pc = "idle"
  /\ row[s] # "gone"
  /\ s \in Serial => \A u \in Tasks : task[u].sess = s => task[u].pc = "idle" \/ task[u].kind = "rec"
  /\ Become(t, kind, s, "check", NoEngine)
  /\ UNCHANGED <<service, adapter, row>>

\* The synchronous admission block of start().
\* Variant: a start in flight is not looked at.
StartRefusedRegisteredOnly(s) == engines[s] # NoEngine \/ AtCap
StartRefused(s) == engines[s] # NoEngine \/ s \in initializing \/ AtCap

StartReject(t) ==
  /\ At(t, "start", "check")
  /\ StartRefused(task[t].sess)
  /\ Finish(t)
  /\ UNCHANGED <<service, adapter, row>>

StartReserve(t) ==
  /\ At(t, "start", "check")
  /\ ~StartRefused(task[t].sess)
  /\ initializing' = initializing \union {task[t].sess}
  /\ stopping' = stopping \ {task[t].sess}
  /\ Goto(t, "hook", NoEngine)
  /\ UNCHANGED <<engines, errors, reconnect, stray, adapter, row>>

\* initializeEngine up to the await of its INITIALIZING write: the adapter e is
\* registered over whatever the map holds.  r: the adapters as the caller leaves them.
Register(t, kind, s, e, r, written) ==
  /\ Fresh(e)
  /\ written \/ Faults
  /\ engines' = [engines EXCEPT ![s] = e]
  /\ errors' = errors \ {s}
  /\ owner' = [owner EXCEPT ![e] = s]
  /\ res' = [r EXCEPT ![e] = "created"]
  /\ status' = [status EXCEPT ![e] = "disconnected"]
  /\ row' = IF written THEN Write(row, s, "initializing") ELSE row
  /\ Become(t, kind, s, IF written THEN "init" ELSE "initErr", e)

\* initializeEngine threw.  start() evicts the registered engine, if there is one, and
\* tears it down; executeReconnect schedules another attempt.  The parameters are the
\* state the failure itself leaves.
LaunchFailed(t, kind, s, engs, rc, rows, errs, r, st) ==
  LET orphan == engs[s] IN
  \/ /\ kind = "start"
     /\ orphan # NoEngine
     /\ engines' = [engs EXCEPT ![s] = NoEngine]
     /\ errors' = errs \union {s}
     /\ res' = Torn(r, orphan)
     /\ status' = TornStatus(st, r, orphan)
     /\ row' = rows
     /\ reconnect' = rc
     /\ Become(t, kind, s, "evict", orphan)
     /\ UNCHANGED initializing
  \/ /\ kind = "start"
     /\ orphan = NoEngine
     /\ FinishLaunch(t)
     /\ engines' = engs /\ errors' = errs /\ res' = r /\ status' = st
     /\ row' = rows /\ reconnect' = rc
  \/ /\ kind = "rec"
     /\ ScheduleReconnect(s, rc, rows, errs)
     /\ Finish(t)
     /\ engines' = engs /\ res' = r /\ status' = st
     /\ UNCHANGED initializing

\* The hook returned: a new reconnect state (a pending timer of the old one is no
\* longer reachable), then initializeEngine.
FreshReconnect(s) == [reconnect EXCEPT ![s] = [attempts |-> 0, timer |-> FALSE]]
StrayAfterStart(s) ==
  [stray EXCEPT ![s] = @ + (IF reconnect[s] # NoReconnect /\ reconnect[s].timer THEN 1 ELSE 0)]

StartProceed(t) ==
  LET s == task[t].sess IN
  /\ At(t, "start", "hook")
  /\ StrayAfterStart(s)[s] <= MaxStray
  /\ stray' = StrayAfterStart(s)
  /\ \/ /\ \E e \in Engines, written \in BOOLEAN : Register(t, "start", s, e, res, written)
        /\ reconnect' = FreshReconnect(s)
        /\ UNCHANGED initializing
     \/ /\ Faults      \* engineFactory.create throws
        /\ LaunchFailed(t, "start", s, engines, FreshReconnect(s), row, errors, res, status)
        /\ UNCHANGED owner
  /\ UNCHANGED stopping

\* updateStatus(INITIALIZING) rejected.
LaunchAborted(t) ==
  /\ task[t].pc = "initErr"
  /\ LaunchFailed(t, task[t].kind, task[t].sess, engines, reconnect, row, errors, res, status)
  /\ UNCHANGED <<stopping, stray, owner>>

\* updateStatus(INITIALIZING) resolved: engine.initialize() up to its first await.
Launch(t) ==
  LET e == task[t].eng IN
  /\ task[t].pc = "init"
  /\ res' = [res EXCEPT ![e] = "pinning"]
  /\ status' = [status EXCEPT ![e] = "initializing"]
  /\ row' = Reported(e, "initializing")
  /\ Goto(t, "launch", e)
  /\ UNCHANGED <<service, owner>>

\* resolveWebVersionPin resolved: the client is built and starts.
ClientBuilt(e) ==
  /\ res[e] = "pinning"
  /\ res' = [res EXCEPT ![e] = "launching"]
  /\ UNCHANGED <<service, owner, status, row, task>>

\* client.initialize() settled.
Arrived(e) == [res EXCEPT ![e] = IF @ = "launching" THEN "live" ELSE @]

LaunchResolves(t) ==
  LET e == task[t].eng IN
  /\ task[t].pc = "launch"
  /\ res[e] # "pinning"
  /\ res' = Arrived(e)
  /\ Goto(t, "guard", e)
  /\ UNCHANGED <<service, owner, status, row>>

\* initialize() reports FAILED and onError before it rethrows; onError cancels the
\* reconnect of the session whose engine this is.
LaunchThrows(t) ==
  LET e == task[t].eng
      s == task[t].sess
      mine == IsLiveEngine(s, e)
  IN
  /\ task[t].pc = "launch"
  /\ res[e] # "pinning"
  /\ LaunchFailed(t, task[t].kind, s, engines,
                  IF mine THEN CancelReconnect(reconnect, s) ELSE reconnect,
                  Reported(e, "failed"),
                  IF mine THEN errors \union {s} ELSE errors,
                  Arrived(e),
                  [status EXCEPT ![e] = "failed"])
  /\ UNCHANGED <<stopping, stray, owner>>

\* Variant: only the row is consulted.
RetiredByRowOnly(s) == row[s] = "gone"

\* isSessionRetired, after initialize() resolved: the mark, then the row.
Retired(s) == s \in stopping \/ row[s] = "gone"

Guard(t) ==
  LET s == task[t].sess
      e == engines[s]
  IN
  /\ task[t].pc = "guard"
  /\ \/ /\ Retired(s)
        /\ e # NoEngine
        /\ res' = Torn(res, e)
        /\ status' = TornStatus(status, res, e)
        /\ row' = RowAfterTeardown(e)
        /\ Goto(t, "undo", e)
        /\ UNCHANGED initializing
     \/ /\ ~Retired(s) \/ e = NoEngine
        /\ FinishLaunch(t)
        /\ UNCHANGED <<res, status, row>>
  /\ UNCHANGED <<engines, stopping, errors, reconnect, stray, owner>>

\* Its findOne rejects: start() throws and leaves the engine as it is, executeReconnect
\* schedules another attempt.
GuardRejects(t) ==
  LET s == task[t].sess IN
  /\ Faults /\ task[t].pc = "guard" /\ s \notin stopping
  /\ IF task[t].kind = "rec"
     THEN ScheduleReconnect(s, reconnect, row, errors)
     ELSE UNCHANGED <<reconnect, row, errors>>
  /\ FinishLaunch(t)
  /\ UNCHANGED <<engines, stopping, stray, adapter>>

\* The guard's teardown settled: the map entry goes, whichever engine it names.
GuardUndone(t) ==
  /\ task[t].pc = "undo"
  /\ res' = Settled(task[t].eng)
  /\ engines' = [engines EXCEPT ![task[t].sess] = NoEngine]
  /\ FinishLaunch(t)
  /\ UNCHANGED <<stopping, errors, reconnect, stray, owner, status, row>>

\* The catch's teardown settled: FAILED is written and start() rethrows.
Evicted(t) ==
  /\ task[t].pc = "evict"
  /\ res' = Settled(task[t].eng)
  /\ row' = Write(row, task[t].sess, "failed")
  /\ FinishLaunch(t)
  /\ UNCHANGED <<engines, stopping, errors, reconnect, stray, owner, status>>

-----------------------------------------------------------------------------
\* executeReconnect, from the timer of the reconnect state or from a stray one.

\* A pending timer is the current state's own, or a stray one.
TimerPending(s, own) ==
  IF own THEN reconnect[s] # NoReconnect /\ reconnect[s].timer ELSE stray[s] > 0
EntriesAfterFiring(s, own) ==
  IF own THEN [reconnect EXCEPT ![s].timer = FALSE] ELSE reconnect
StrayAfterFiring(s, own) == IF own THEN stray ELSE [stray EXCEPT ![s] = @ - 1]

TimerIgnored(s, own) ==
  /\ TimerPending(s, own)
  /\ s \in stopping
  /\ reconnect' = EntriesAfterFiring(s, own)
  /\ stray' = StrayAfterFiring(s, own)
  /\ UNCHANGED <<engines, initializing, stopping, errors, adapter, row, task>>

\* The old engine is torn down first; without one initializeEngine runs at once.
TimerFires(t, s, own) ==
  LET e == engines[s]
      rc == EntriesAfterFiring(s, own)
  IN
  /\ TimerPending(s, own)
  /\ task[t].pc = "idle"
  /\ s \notin stopping
  /\ stray' = StrayAfterFiring(s, own)
  /\ \/ /\ e # NoEngine
        /\ Become(t, "rec", s, "down", e)
        /\ res' = Torn(res, e)
        /\ status' = TornStatus(status, res, e)
        /\ row' = RowAfterTeardown(e)
        /\ reconnect' = rc
        /\ UNCHANGED <<engines, initializing, errors, owner>>
     \/ /\ e = NoEngine
        /\ \E new \in Engines, written \in BOOLEAN : Register(t, "rec", s, new, res, written)
        /\ reconnect' = rc
        /\ UNCHANGED initializing
     \/ /\ e = NoEngine /\ Faults      \* engineFactory.create throws
        /\ LaunchFailed(t, "rec", s, engines, rc, row, errors, res, status)
        /\ UNCHANGED owner
  /\ UNCHANGED stopping

\* The teardown settled: the map entry goes, whichever engine it names by now, and the
\* next adapter is built.
Reconnect(t) ==
  LET s == task[t].sess
      settled == Settled(task[t].eng)
  IN
  /\ At(t, "rec", "down")
  /\ \/ /\ \E e \in Engines, written \in BOOLEAN : Register(t, "rec", s, e, settled, written)
        /\ UNCHANGED <<initializing, reconnect>>
     \/ /\ Faults      \* engineFactory.create throws
        /\ LaunchFailed(t, "rec", s, [engines EXCEPT ![s] = NoEngine],
                        reconnect, row, errors, settled, status)
        /\ UNCHANGED owner
  /\ UNCHANGED <<stopping, stray>>

-----------------------------------------------------------------------------
\* stop(), forceKill() and delete().

\* The call's last write, which may reject: the call then throws and the row stays.
FinalWrite(s) == row' = Write(row, s, "disconnected") \/ (Faults /\ UNCHANGED row)

\* Mark, cancel the reconnect, and begin the teardown of the registered engine.
TeardownStarts(t) ==
  LET s == task[t].sess
      e == engines[s]
  IN
  /\ task[t].pc = "check"
  /\ task[t].kind \in {"stop", "kill", "delete"}
  /\ stopping' = stopping \union {s}
  /\ reconnect' = CancelReconnect(reconnect, s)
  /\ \/ /\ e # NoEngine
        /\ res' = Torn(res, e)
        /\ status' = TornStatus(status, res, e)
        /\ row' = RowAfterTeardown(e)
        /\ Goto(t, "down", e)
     \/ /\ e = NoEngine
        /\ task[t].kind = "delete"
        /\ Goto(t, "hook", NoEngine)
        /\ UNCHANGED <<res, status, row>>
     \/ /\ e = NoEngine
        /\ task[t].kind # "delete"
        /\ FinalWrite(s)
        /\ Finish(t)
        /\ UNCHANGED <<res, status>>
  /\ UNCHANGED <<engines, initializing, errors, stray, owner>>

\* Variants: the final status is not written; the teardown is awaited without a limit.
StoppedSilently(t) ==
  /\ task[t].kind \in {"stop", "kill"}
  /\ task[t].pc = "down"
  /\ res' = Settled(task[t].eng)
  /\ engines' = [engines EXCEPT ![task[t].sess] = NoEngine]
  /\ Finish(t)
  /\ UNCHANGED <<initializing, stopping, errors, reconnect, stray, owner, status, row>>
StoppedOnceDestroyed(t) ==
  /\ task[t].kind \in {"stop", "kill"}
  /\ task[t].pc = "down"
  /\ res[task[t].eng] = "closed"
  /\ engines' = [engines EXCEPT ![task[t].sess] = NoEngine]
  /\ row' = Write(row, task[t].sess, "disconnected")
  /\ Finish(t)
  /\ UNCHANGED <<initializing, stopping, errors, reconnect, stray, res, owner, status>>

\* stop() and forceKill() after their teardown.
Stopped(t) ==
  /\ task[t].kind \in {"stop", "kill"}
  /\ task[t].pc = "down"
  /\ res' = Settled(task[t].eng)
  /\ engines' = [engines EXCEPT ![task[t].sess] = NoEngine]
  /\ FinalWrite(task[t].sess)
  /\ Finish(t)
  /\ UNCHANGED <<initializing, stopping, errors, reconnect, stray, owner, status>>

\* delete() after its teardown: the session:deleted hook is awaited next.
DeleteTornDown(t) ==
  /\ At(t, "delete", "down")
  /\ res' = Settled(task[t].eng)
  /\ engines' = [engines EXCEPT ![task[t].sess] = NoEngine]
  /\ Goto(t, "hook", NoEngine)
  /\ UNCHANGED <<initializing, stopping, errors, reconnect, stray, owner, status, row>>

\* The transaction commits or fails; either way the finally clears the mark.
Deleted(t) ==
  LET s == task[t].sess IN
  /\ At(t, "delete", "hook")
  /\ \/ row' = [row EXCEPT ![s] = "gone"]
     \/ Faults /\ UNCHANGED row
  /\ stopping' = stopping \ {s}
  /\ errors' = errors \ {s}
  /\ Finish(t)
  /\ UNCHANGED <<engines, initializing, reconnect, stray, adapter>>

-----------------------------------------------------------------------------
\* Events of the adapter's client.  Each first sets the adapter's own status and then
\* calls back; the callback is dropped when the adapter is superseded.

\* qr, authenticated.  The qr handler awaits the rendering of the code after its guard,
\* so it may still report on an adapter that is closing by then.
EnginePairing(e) ==
  /\ HasClient(res, e)
  /\ status[e] # "failed"
  /\ status' = [status EXCEPT ![e] = "pairing"]
  /\ row' = Reported(e, "pairing")
  /\ UNCHANGED <<service, owner, res, task>>

\* ready, or a missed ready found by the reconcile probe: onReady resets the attempts.
EngineReady(e) ==
  LET s == owner[e] IN
  /\ HasClient(res, e)
  /\ status[e] \in {"initializing", "pairing"}
  /\ status' = [status EXCEPT ![e] = "ready"]
  /\ row' = Reported(e, "ready")
  /\ IF IsLiveEngine(s, e)
     THEN /\ reconnect' = [reconnect EXCEPT ![s] = IF @ = NoReconnect THEN @ ELSE [@ EXCEPT !.attempts = 0]]
          /\ errors' = errors \ {s}
     ELSE UNCHANGED <<reconnect, errors>>
  /\ UNCHANGED <<engines, initializing, stopping, stray, owner, res, task>>

\* onDisconnected: the row, then a reconnect.
Dropped(e, r) ==
  /\ res' = r
  /\ status' = [status EXCEPT ![e] = "disconnected"]
  /\ IF IsLiveEngine(owner[e], e)
     THEN ScheduleReconnect(owner[e], reconnect, Write(row, owner[e], "disconnected"), errors)
     ELSE UNCHANGED <<reconnect, row, errors>>
  /\ UNCHANGED <<engines, initializing, stopping, stray, owner, task>>

EngineDisconnected(e) == HasClient(res, e) /\ Dropped(e, res)

\* Ninety seconds after authentication without readiness: the client is given up and
\* the stored login cleared, then the session reconnects to pair again.
EngineStuck(e) ==
  /\ res[e] \in {"launching", "live"}
  /\ status[e] = "pairing"
  /\ Dropped(e, [res EXCEPT ![e] = "closed"])

\* auth_failure: terminal, onError cancels a pending reconnect.
EngineAuthFailure(e) ==
  LET s == owner[e] IN
  /\ HasClient(res, e)
  /\ status' = [status EXCEPT ![e] = "failed"]
  /\ row' = Reported(e, "failed")
  /\ IF IsLiveEngine(s, e)
     THEN /\ errors' = errors \union {s}
          /\ reconnect' = CancelReconnect(reconnect, s)
     ELSE UNCHANGED <<errors, reconnect>>
  /\ UNCHANGED <<engines, initializing, stopping, stray, owner, res, task>>

-----------------------------------------------------------------------------
\* The process dies and boots: only the rows survive, and onModuleInit resets them.
Restart ==
  /\ engines' = [s \in Sessions |-> NoEngine]
  /\ initializing' = {} /\ stopping' = {} /\ errors' = {}
  /\ reconnect' = [s \in Sessions |-> NoReconnect]
  /\ stray' = [s \in Sessions |-> 0]
  /\ owner' = [e \in Engines |-> Idle.sess]
  /\ res' = [e \in Engines |-> "none"]
  /\ status' = [e \in Engines |-> "disconnected"]
  /\ task' = [t \in Tasks |-> Idle]
  /\ row' = [s \in Sessions |-> IF row[s] \in ActiveStatus THEN "disconnected" ELSE row[s]]

-----------------------------------------------------------------------------
TaskStep(t) ==
  \/ StartReject(t) \/ StartReserve(t) \/ StartProceed(t) \/ LaunchAborted(t)
  \/ Launch(t) \/ LaunchResolves(t) \/ LaunchThrows(t) \/ Guard(t) \/ GuardRejects(t)
  \/ GuardUndone(t) \/ Evicted(t) \/ Reconnect(t)
  \/ TeardownStarts(t) \/ Stopped(t) \/ DeleteTornDown(t) \/ Deleted(t)

TimerStep(s) ==
  \E own \in BOOLEAN : TimerIgnored(s, own) \/ \E t \in Tasks : TimerFires(t, s, own)

EngineStep(e) ==
  \/ ClientBuilt(e) \/ EnginePairing(e) \/ EngineReady(e)
  \/ EngineDisconnected(e) \/ EngineStuck(e) \/ EngineAuthFailure(e)

Next ==
  \/ \E t \in Tasks, kind \in CallKinds, s \in Sessions : Call(t, kind, s)
  \/ \E t \in Tasks : TaskStep(t)
  \/ \E s \in Sessions : TimerStep(s)
  \/ \E e \in Engines : EngineStep(e)
  \/ Restart

Spec == Init /\ [][Next]_vars

\* Every await of the service settles: database writes and hooks return, a teardown is
\* raced against ten seconds, and client.initialize() has its own timeouts.
FairSpec ==
  /\ Spec
  /\ \A t \in Tasks : WF_vars(TaskStep(t))
  /\ \A e \in Engines : WF_vars(ClientBuilt(e))

-----------------------------------------------------------------------------
\* Properties.

AtRest(s) == \A t \in Tasks : task[t].pc = "idle" \/ task[t].sess # s
InStart(t, s) == task[t].kind = "start" /\ task[t].sess = s /\ task[t].pc \notin {"idle", "check"}
Running == {"pinning", "launching", "live"}

\* The reservation taken in start()'s synchronous block: a session is reserved exactly
\* while one start() is between that block and its finally, and never by two of them.
ReservationExact ==
  \A s \in Sessions :
    /\ s \in initializing <=> \E t \in Tasks : InStart(t, s)
    /\ \A t, u \in Tasks : InStart(t, s) /\ InStart(u, s) => t = u

\* A stop, kill or delete wins over every start it raced: once the calls on a session
\* have all returned and its stop mark is still set, no engine is registered for it.
StopHolds ==
  \A s \in Sessions : s \in stopping /\ AtRest(s) => engines[s] = NoEngine

\* The engines map is the only handle on an adapter: while the calls of a session are sent
\* one at a time, an adapter whose client is being built, is starting or has started is the
\* one registered for it.
NoOrphan ==
  \A e \in Engines : owner[e] \in Serial /\ res[e] \in Running => engines[owner[e]] = e

\* The stored status tells the truth at rest: a session whose calls are sent one at a time
\* and that is shown as starting, pairing or ready has a registered engine, through failed
\* starts, stops and restarts.
RowHonest ==
  \A s \in Serial : AtRest(s) /\ row[s] \in ActiveStatus => engines[s] # NoEngine

\* What the service keeps of a session whose calls come one at a time is so: its adapters are
\* in the map, and its row says no more than the map.
BooksHonest == NoOrphan /\ RowHonest

\* isLiveEngine: a session turns ready only by the word of the adapter registered for
\* it at that moment, never by a late event of a superseded one.
ReadyIsRegistered ==
  [][\A s \in Sessions :
       row[s] # "ready" /\ row'[s] = "ready" =>
         engines[s] \in Engines /\ status'[engines[s]] = "ready"]_vars

\* No call wedges: every request, and every reconnect, comes to its end, a hung client
\* destroy() included.
EveryCallReturns == \A t \in Tasks : task[t].pc # "idle" ~> task[t].pc = "idle"

\* Without reconnects the service implements a pool of MaxConcurrent session slots:
\* one is taken by start()'s reservation and only ever given back afterwards.
Slots == INSTANCE SessionSlots WITH Cap <- MaxConcurrent, held <- Occupied
ImplementsSlots == Slots!Spec

\* The state is of its type, with no more attempts than a reconnect has, and reservations
\* are exact.
Consistent == TypeOK /\ ReservationExact

=============================================================================
