----------------------- MODULE SessionLifecycleProofs -----------------------
(***************************************************************************)
(* Theorems about SessionLifecycle, for any sets of sessions, adapters and *)
(* activations.                                                            *)
(***************************************************************************)
EXTENDS SessionLifecycle, FiniteSetTheorems, TLAPS

-----------------------------------------------------------------------------
\* What the helpers return.

LEMMA IdleType == Idle \in Task
  BY ConstantsAssumption DEF Idle, Task, Kinds, CallKinds, Places

LEMMA WriteType ==
  ASSUME NEW rows \in [Sessions -> RowStatus], NEW s \in Sessions, NEW st \in RowStatus
  PROVE  Write(rows, s, st) \in [Sessions -> RowStatus]
  BY DEF Write

LEMMA TornType ==
  ASSUME NEW r \in [Engines -> Resource], NEW st \in [Engines -> Status], NEW e \in Engines
  PROVE  /\ Torn(r, e) \in [Engines -> Resource]
         /\ TornStatus(st, r, e) \in [Engines -> Status]
  BY DEF Torn, TornStatus, Resource, Status

LEMMA RowAfterTeardownType ==
  ASSUME TypeOK, NEW e \in Engines
  PROVE  RowAfterTeardown(e) \in [Sessions -> RowStatus]
  BY WriteType DEF RowAfterTeardown, Reported, TypeOK, RowStatus, Status

LEMMA ReportedType ==
  ASSUME TypeOK, NEW e \in Engines, NEW st \in Status
  PROVE  Reported(e, st) \in [Sessions -> RowStatus]
  BY WriteType DEF Reported, TypeOK, RowStatus

Entries == [Sessions -> ReconnectState \union {NoReconnect}]

LEMMA CancelType ==
  ASSUME NEW rc \in Entries, NEW s \in Sessions
  PROVE  CancelReconnect(rc, s) \in Entries
  BY DEF CancelReconnect, Entries

LEMMA ScheduleType ==
  ASSUME NEW s \in Sessions, NEW rc \in Entries, NEW rows \in [Sessions -> RowStatus],
         NEW errs \in SUBSET Sessions, ScheduleReconnect(s, rc, rows, errs)
  PROVE  /\ reconnect' \in Entries
         /\ row' \in [Sessions -> RowStatus]
         /\ errors' \in SUBSET Sessions
<1>1. reconnect' \in Entries
  <2>1. CASE MayRetry(rc, s)
    <3>1. rc[s] \in ReconnectState
      BY <2>1 DEF MayRetry, Entries
    <3>2. [attempts |-> rc[s].attempts + 1, timer |-> TRUE] \in ReconnectState
      BY <2>1, <3>1, ConstantsAssumption DEF MayRetry, ReconnectState
    <3> QED BY <2>1, <3>2 DEF ScheduleReconnect, Entries
  <2>2. CASE ~MayRetry(rc, s)
    BY <2>2 DEF ScheduleReconnect
  <2> QED BY <2>1, <2>2
<1>2. row' \in [Sessions -> RowStatus]
  BY WriteType DEF ScheduleReconnect, RowStatus, Status
<1>3. errors' \in SUBSET Sessions
  BY DEF ScheduleReconnect
<1> QED BY <1>1, <1>2, <1>3

LEMMA BecomeType ==
  ASSUME TypeOK, NEW t \in Tasks, NEW kind \in Kinds, NEW s \in Sessions,
         NEW pc \in Places, NEW e \in Engines \union {NoEngine},
         Become(t, kind, s, pc, e)
  PROVE  task' \in [Tasks -> Task]
  BY DEF Become, TypeOK, Task

LEMMA GotoType ==
  ASSUME TypeOK, NEW t \in Tasks, NEW pc \in Places,
         NEW e \in Engines \union {NoEngine}, Goto(t, pc, e)
  PROVE  task' \in [Tasks -> Task]
  BY DEF Goto, Become, TypeOK, Task

LEMMA FinishType ==
  ASSUME TypeOK, NEW t \in Tasks, Finish(t)
  PROVE  task' \in [Tasks -> Task]
  BY IdleType DEF Finish, TypeOK

LEMMA FinishLaunchType ==
  ASSUME TypeOK, NEW t \in Tasks, FinishLaunch(t)
  PROVE  task' \in [Tasks -> Task] /\ initializing' \in SUBSET Sessions
  BY FinishType DEF FinishLaunch, TypeOK

LEMMA RegisterType ==
  ASSUME TypeOK, NEW t \in Tasks, NEW kind \in Kinds, NEW s \in Sessions,
         NEW e \in Engines, NEW r \in [Engines -> Resource], NEW written \in BOOLEAN,
         Register(t, kind, s, e, r, written)
  PROVE  /\ engines' \in [Sessions -> Engines \union {NoEngine}]
         /\ errors' \in SUBSET Sessions
         /\ owner' \in [Engines -> Sessions]
         /\ res' \in [Engines -> Resource]
         /\ status' \in [Engines -> Status]
         /\ row' \in [Sessions -> RowStatus]
         /\ task' \in [Tasks -> Task]
<1>1. task' \in [Tasks -> Task]
  BY BecomeType DEF Register, Places
<1>2. row' \in [Sessions -> RowStatus]
  BY WriteType DEF Register, TypeOK, RowStatus, Status
<1> QED BY <1>1, <1>2 DEF Register, TypeOK, Resource, Status

LEMMA LaunchFailedType ==
  ASSUME TypeOK, NEW t \in Tasks, NEW kind \in Kinds, NEW s \in Sessions,
         NEW engs \in [Sessions -> Engines \union {NoEngine}], NEW rc \in Entries,
         NEW rows \in [Sessions -> RowStatus], NEW errs \in SUBSET Sessions,
         NEW r \in [Engines -> Resource], NEW st \in [Engines -> Status],
         LaunchFailed(t, kind, s, engs, rc, rows, errs, r, st)
  PROVE  /\ engines' \in [Sessions -> Engines \union {NoEngine}]
         /\ initializing' \in SUBSET Sessions
         /\ errors' \in SUBSET Sessions
         /\ reconnect' \in Entries
         /\ row' \in [Sessions -> RowStatus]
         /\ res' \in [Engines -> Resource]
         /\ status' \in [Engines -> Status]
         /\ task' \in [Tasks -> Task]
<1>1. CASE kind = "start" /\ engs[s] # NoEngine
  <2>1. engs[s] \in Engines
    BY <1>1
  <2>2. task' \in [Tasks -> Task]
    BY <1>1, <2>1, BecomeType DEF LaunchFailed, Places
  <2>3. /\ engines' = [engs EXCEPT ![s] = NoEngine]
        /\ errors' = errs \union {s}
        /\ res' = Torn(r, engs[s])
        /\ status' = TornStatus(st, r, engs[s])
        /\ row' = rows /\ reconnect' = rc /\ initializing' = initializing
    BY <1>1 DEF LaunchFailed
  <2>4. /\ res' \in [Engines -> Resource]
        /\ status' \in [Engines -> Status]
    BY <2>1, <2>3, TornType
  <2> QED BY <2>2, <2>3, <2>4 DEF TypeOK
<1>2. CASE kind = "start" /\ engs[s] = NoEngine
  BY <1>2, FinishLaunchType DEF LaunchFailed
<1>3. CASE kind = "rec"
  BY <1>3, ScheduleType, FinishType DEF LaunchFailed, TypeOK
<1> QED BY <1>1, <1>2, <1>3 DEF LaunchFailed

-----------------------------------------------------------------------------
\* Type correctness.

LEMMA TaskType ==
  ASSUME TypeOK, NEW t \in Tasks
  PROVE  /\ task[t].kind \in Kinds /\ task[t].sess \in Sessions
         /\ task[t].pc \in Places /\ task[t].eng \in Engines \union {NoEngine}
         /\ reconnect \in Entries
  BY DEF TypeOK, Task, Entries

\* A task that is launching or tearing down holds an adapter.
HasEngine == {"init", "initErr", "launch", "guard", "down", "undo", "evict"}
Holding == \A t \in Tasks : task[t].pc \in HasEngine => task[t].eng \in Engines

LEMMA TypeInit == Init => TypeOK /\ Holding
  BY IdleType, ConstantsAssumption
  DEF Init, ProcessMemoryEmpty, TypeOK, Holding, HasEngine, Resource, Status, RowStatus, Idle, Task

LEMMA TypeStart ==
  ASSUME TypeOK, Holding, NEW t \in Tasks,
         StartReject(t) \/ StartReserve(t) \/ StartProceed(t) \/ LaunchAborted(t)
  PROVE  TypeOK'
<1> USE TaskType
<1>1. CASE StartReject(t)
  BY <1>1, FinishType DEF StartReject, TypeOK, service, adapter
<1>2. CASE StartReserve(t)
  BY <1>2, GotoType DEF StartReserve, TypeOK, adapter, Places
<1>3. CASE StartProceed(t)
  <2> DEFINE s == task[t].sess
  <2>1. FreshReconnect(s) \in Entries
    BY ConstantsAssumption DEF FreshReconnect, Entries, ReconnectState
  <2>2. stray' \in [Sessions -> 0..MaxStray] /\ stopping' \in SUBSET Sessions
    BY <1>3, ConstantsAssumption DEF StartProceed, StrayAfterStart, TypeOK
  <2>3. CASE /\ \E e \in Engines, written \in BOOLEAN : Register(t, "start", s, e, res, written)
             /\ reconnect' = FreshReconnect(s)
             /\ UNCHANGED initializing
    <3>1. PICK e \in Engines, written \in BOOLEAN : Register(t, "start", s, e, res, written)
      BY <2>3
    <3>2. "start" \in Kinds /\ res \in [Engines -> Resource]
      BY DEF Kinds, CallKinds, TypeOK
    <3> QED BY <2>1, <2>2, <2>3, <3>1, <3>2, RegisterType DEF TypeOK, Entries
  <2>4. CASE /\ LaunchFailed(t, "start", s, engines, FreshReconnect(s), row, errors, res, status)
             /\ UNCHANGED owner
    <3>1. "start" \in Kinds
      BY DEF Kinds, CallKinds
    <3>2. /\ engines' \in [Sessions -> Engines \union {NoEngine}]
          /\ initializing' \in SUBSET Sessions /\ errors' \in SUBSET Sessions
          /\ reconnect' \in Entries /\ row' \in [Sessions -> RowStatus]
          /\ res' \in [Engines -> Resource] /\ status' \in [Engines -> Status]
          /\ task' \in [Tasks -> Task]
      BY <2>1, <2>4, <3>1, LaunchFailedType DEF TypeOK
    <3> QED BY <2>2, <2>4, <3>2 DEF TypeOK, Entries
  <2> QED BY <1>3, <2>3, <2>4 DEF StartProceed
<1>4. CASE LaunchAborted(t)
  <2>1. /\ engines' \in [Sessions -> Engines \union {NoEngine}]
        /\ initializing' \in SUBSET Sessions /\ errors' \in SUBSET Sessions
        /\ reconnect' \in Entries /\ row' \in [Sessions -> RowStatus]
        /\ res' \in [Engines -> Resource] /\ status' \in [Engines -> Status]
        /\ task' \in [Tasks -> Task]
    BY <1>4, LaunchFailedType DEF LaunchAborted, TypeOK
  <2> QED BY <1>4, <2>1 DEF LaunchAborted, TypeOK, Entries
<1> QED BY <1>1, <1>2, <1>3, <1>4

LEMMA TypeLaunch ==
  ASSUME TypeOK, Holding, NEW t \in Tasks,
         \/ Launch(t) \/ LaunchResolves(t) \/ LaunchThrows(t) \/ Guard(t)
         \/ GuardRejects(t) \/ GuardUndone(t) \/ Evicted(t)
  PROVE  TypeOK'
<1> USE TaskType
<1>1. CASE Launch(t)
  <2>1. task[t].eng \in Engines
    BY <1>1 DEF Launch, Holding, HasEngine
  <2>2. row' \in [Sessions -> RowStatus]
    BY <1>1, <2>1, ReportedType DEF Launch, Status
  <2>3. task' \in [Tasks -> Task]
    BY <1>1, GotoType DEF Launch, Places
  <2> QED BY <1>1, <2>1, <2>2, <2>3 DEF Launch, TypeOK, service, Resource, Status
<1>2. CASE LaunchResolves(t)
  <2>1. task' \in [Tasks -> Task]
    BY <1>2, GotoType DEF LaunchResolves, Places
  <2> QED BY <1>2, <2>1 DEF LaunchResolves, Arrived, TypeOK, service, Resource
<1>3. CASE LaunchThrows(t)
  <2> DEFINE e == task[t].eng
             s == task[t].sess
             rc == IF IsLiveEngine(s, e) THEN CancelReconnect(reconnect, s) ELSE reconnect
             errs == IF IsLiveEngine(s, e) THEN errors \union {s} ELSE errors
             st == [status EXCEPT ![e] = "failed"]
  <2>1. e \in Engines
    BY <1>3 DEF LaunchThrows, Holding, HasEngine
  <2>2. rc \in Entries
    BY CancelType
  <2>3. Reported(e, "failed") \in [Sessions -> RowStatus]
    BY <2>1, ReportedType DEF Status
  <2>4. /\ errs \in SUBSET Sessions
        /\ Arrived(e) \in [Engines -> Resource]
        /\ st \in [Engines -> Status]
        /\ engines \in [Sessions -> Engines \union {NoEngine}]
    BY <2>1 DEF Arrived, TypeOK, Resource, Status
  <2>5. LaunchFailed(t, task[t].kind, s, engines, rc, Reported(e, "failed"), errs, Arrived(e), st)
    BY <1>3 DEF LaunchThrows
  <2>6. /\ engines' \in [Sessions -> Engines \union {NoEngine}]
        /\ initializing' \in SUBSET Sessions /\ errors' \in SUBSET Sessions
        /\ reconnect' \in Entries /\ row' \in [Sessions -> RowStatus]
        /\ res' \in [Engines -> Resource] /\ status' \in [Engines -> Status]
        /\ task' \in [Tasks -> Task]
    <3> HIDE DEF rc, errs, st
    <3> QED BY <2>2, <2>3, <2>4, <2>5, LaunchFailedType
  <2> QED BY <1>3, <2>6 DEF LaunchThrows, TypeOK, Entries
<1>4. CASE Guard(t)
  <2> DEFINE s == task[t].sess
             e == engines[s]
  <2>1. CASE /\ e # NoEngine
             /\ res' = Torn(res, e)
             /\ status' = TornStatus(status, res, e)
             /\ row' = RowAfterTeardown(e)
             /\ Goto(t, "undo", e)
             /\ UNCHANGED initializing
    <3>1. e \in Engines
      BY <2>1 DEF TypeOK
    <3>2. task' \in [Tasks -> Task]
      BY <2>1, <3>1, GotoType DEF Places
    <3>3. /\ res' \in [Engines -> Resource] /\ status' \in [Engines -> Status]
          /\ row' \in [Sessions -> RowStatus]
      BY <2>1, <3>1, TornType, RowAfterTeardownType DEF TypeOK
    <3> QED BY <1>4, <2>1, <3>2, <3>3 DEF Guard, TypeOK
  <2>2. CASE FinishLaunch(t) /\ UNCHANGED <<res, status, row>>
    BY <1>4, <2>2, FinishLaunchType DEF Guard, TypeOK
  <2> QED BY <1>4, <2>1, <2>2 DEF Guard
<1>5. CASE GuardUndone(t)
  BY <1>5, FinishLaunchType DEF GuardUndone, Settled, TypeOK, Resource
<1>7. CASE GuardRejects(t)
  <2> DEFINE s == task[t].sess
  <2>1. reconnect \in Entries /\ row \in [Sessions -> RowStatus] /\ errors \in SUBSET Sessions
    BY DEF TypeOK, Entries
  <2>2. reconnect' \in Entries /\ row' \in [Sessions -> RowStatus] /\ errors' \in SUBSET Sessions
    <3>1. CASE task[t].kind = "rec"
      BY <1>7, <2>1, <3>1, ScheduleType DEF GuardRejects
    <3>2. CASE task[t].kind # "rec"
      BY <1>7, <2>1, <3>2 DEF GuardRejects
    <3> QED BY <3>1, <3>2
  <2> QED BY <1>7, <2>2, FinishLaunchType DEF GuardRejects, TypeOK, adapter, Entries
<1>6. CASE Evicted(t)
  <2>1. row' \in [Sessions -> RowStatus]
    BY <1>6, WriteType DEF Evicted, TypeOK, RowStatus, Status
  <2> QED BY <1>6, <2>1, FinishLaunchType DEF Evicted, Settled, TypeOK, Resource
<1> QED BY <1>1, <1>2, <1>3, <1>4, <1>5, <1>6, <1>7

LEMMA TypeReconnect ==
  ASSUME TypeOK, Holding, NEW t \in Tasks, Reconnect(t)
  PROVE  TypeOK'
<1> USE TaskType
<1> DEFINE s == task[t].sess
           settled == Settled(task[t].eng)
           engs == [engines EXCEPT ![s] = NoEngine]
<1>1. "rec" \in Kinds
  BY DEF Kinds
<1>2. settled \in [Engines -> Resource]
  BY DEF Settled, TypeOK, Resource
<1>3. engs \in [Sessions -> Engines \union {NoEngine}]
  BY DEF TypeOK
<1>4. CASE /\ \E e \in Engines, written \in BOOLEAN : Register(t, "rec", s, e, settled, written)
           /\ UNCHANGED <<initializing, reconnect>>
  <2>1. PICK e \in Engines, written \in BOOLEAN : Register(t, "rec", s, e, settled, written)
    BY <1>4
  <2> HIDE DEF settled
  <2> QED BY <1>1, <1>2, <1>4, <2>1, RegisterType DEF Reconnect, TypeOK
<1>5. CASE /\ LaunchFailed(t, "rec", s, engs, reconnect, row, errors, settled, status)
           /\ UNCHANGED owner
  <2>1. /\ engines' \in [Sessions -> Engines \union {NoEngine}]
        /\ initializing' \in SUBSET Sessions /\ errors' \in SUBSET Sessions
        /\ reconnect' \in Entries /\ row' \in [Sessions -> RowStatus]
        /\ res' \in [Engines -> Resource] /\ status' \in [Engines -> Status]
        /\ task' \in [Tasks -> Task]
    <3> HIDE DEF settled, engs
    <3> QED BY <1>1, <1>2, <1>3, <1>5, LaunchFailedType DEF TypeOK
  <2> QED BY <1>5, <2>1 DEF Reconnect, TypeOK, Entries
<1> QED BY <1>4, <1>5 DEF Reconnect

LEMMA FiringType ==
  ASSUME TypeOK, NEW s \in Sessions, NEW own \in BOOLEAN, TimerPending(s, own)
  PROVE  /\ EntriesAfterFiring(s, own) \in Entries
         /\ StrayAfterFiring(s, own) \in [Sessions -> 0..MaxStray]
<1>1. CASE own
  <2>1. reconnect[s] \in ReconnectState
    BY <1>1 DEF TimerPending, TypeOK
  <2>2. [reconnect[s] EXCEPT !.timer = FALSE] \in ReconnectState
    BY <2>1 DEF ReconnectState
  <2> QED BY <1>1, <2>2 DEF EntriesAfterFiring, StrayAfterFiring, TypeOK, Entries
<1>2. CASE ~own
  BY <1>2, ConstantsAssumption
  DEF EntriesAfterFiring, StrayAfterFiring, TimerPending, TypeOK, Entries
<1> QED BY <1>1, <1>2

LEMMA TypeTimer ==
  ASSUME TypeOK, Holding, NEW s \in Sessions, TimerStep(s)
  PROVE  TypeOK'
<1> PICK own \in BOOLEAN : TimerIgnored(s, own) \/ \E t \in Tasks : TimerFires(t, s, own)
  BY DEF TimerStep
<1>1. CASE TimerIgnored(s, own)
  BY <1>1, FiringType DEF TimerIgnored, TypeOK, adapter, Entries
<1>2. CASE \E t \in Tasks : TimerFires(t, s, own)
  <2> PICK t \in Tasks : TimerFires(t, s, own)
    BY <1>2
  <2> USE TaskType
  <2> DEFINE e == engines[s]
             rc == EntriesAfterFiring(s, own)
  <2>1. /\ rc \in Entries /\ stray' \in [Sessions -> 0..MaxStray]
        /\ stopping' \in SUBSET Sessions /\ "rec" \in Kinds
    BY FiringType DEF TimerFires, TypeOK, Kinds
  <2>2. CASE /\ e # NoEngine
             /\ Become(t, "rec", s, "down", e)
             /\ res' = Torn(res, e)
             /\ status' = TornStatus(status, res, e)
             /\ row' = RowAfterTeardown(e)
             /\ reconnect' = rc
             /\ UNCHANGED <<engines, initializing, errors, owner>>
    <3>1. e \in Engines
      BY <2>2 DEF TypeOK
    <3>2. task' \in [Tasks -> Task]
      BY <2>1, <2>2, <3>1, BecomeType DEF Places
    <3>3. /\ res' \in [Engines -> Resource] /\ status' \in [Engines -> Status]
          /\ row' \in [Sessions -> RowStatus]
      BY <2>2, <3>1, TornType, RowAfterTeardownType DEF TypeOK
    <3> QED BY <2>1, <2>2, <3>2, <3>3 DEF TypeOK, Entries
  <2>3. CASE /\ \E new \in Engines, written \in BOOLEAN : Register(t, "rec", s, new, res, written)
             /\ reconnect' = rc
             /\ UNCHANGED initializing
    <3>1. PICK new \in Engines, written \in BOOLEAN : Register(t, "rec", s, new, res, written)
      BY <2>3
    <3>2. res \in [Engines -> Resource]
      BY DEF TypeOK
    <3> HIDE DEF rc
    <3> QED BY <2>1, <2>3, <3>1, <3>2, RegisterType DEF TypeOK, Entries
  <2>4. CASE /\ LaunchFailed(t, "rec", s, engines, rc, row, errors, res, status)
             /\ UNCHANGED owner
    <3>1. /\ engines' \in [Sessions -> Engines \union {NoEngine}]
          /\ initializing' \in SUBSET Sessions /\ errors' \in SUBSET Sessions
          /\ reconnect' \in Entries /\ row' \in [Sessions -> RowStatus]
          /\ res' \in [Engines -> Resource] /\ status' \in [Engines -> Status]
          /\ task' \in [Tasks -> Task]
      <4> HIDE DEF rc
      <4> QED BY <2>1, <2>4, LaunchFailedType DEF TypeOK
    <3> QED BY <2>1, <2>4, <3>1 DEF TypeOK, Entries
  <2> QED BY <2>2, <2>3, <2>4 DEF TimerFires
<1> QED BY <1>1, <1>2

LEMMA TypeTeardown ==
  ASSUME TypeOK, Holding, NEW t \in Tasks,
         TeardownStarts(t) \/ Stopped(t) \/ DeleteTornDown(t) \/ Deleted(t)
  PROVE  TypeOK'
<1> USE TaskType
<1> DEFINE s == task[t].sess
<1>1. CASE TeardownStarts(t)
  <2> DEFINE e == engines[s]
  <2>1. stopping' \in SUBSET Sessions /\ reconnect' \in Entries
    BY <1>1, CancelType DEF TeardownStarts, TypeOK
  <2>2. /\ task' \in [Tasks -> Task] /\ res' \in [Engines -> Resource]
        /\ status' \in [Engines -> Status] /\ row' \in [Sessions -> RowStatus]
    <3>1. CASE e # NoEngine
      <4>1. e \in Engines
        BY <3>1 DEF TypeOK
      <4>2. /\ res' = Torn(res, e) /\ status' = TornStatus(status, res, e)
            /\ row' = RowAfterTeardown(e) /\ Goto(t, "down", e)
        BY <1>1, <3>1 DEF TeardownStarts
      <4>3. task' \in [Tasks -> Task]
        BY <4>1, <4>2, GotoType DEF Places
      <4> QED BY <4>1, <4>2, <4>3, TornType, RowAfterTeardownType DEF TypeOK
    <3>2. CASE e = NoEngine /\ task[t].kind = "delete"
      <4>1. Goto(t, "hook", NoEngine) /\ UNCHANGED <<res, status, row>>
        BY <1>1, <3>2 DEF TeardownStarts
      <4> QED BY <4>1, GotoType DEF Places, TypeOK
    <3>3. CASE e = NoEngine /\ task[t].kind # "delete"
      <4>1. FinalWrite(s) /\ Finish(t) /\ UNCHANGED <<res, status>>
        BY <1>1, <3>3 DEF TeardownStarts
      <4> QED BY <4>1, FinishType, WriteType DEF FinalWrite, TypeOK, RowStatus, Status
    <3> QED BY <3>1, <3>2, <3>3
  <2> QED BY <1>1, <2>1, <2>2 DEF TeardownStarts, TypeOK, Entries
<1>2. CASE Stopped(t)
  <2>1. row' \in [Sessions -> RowStatus]
    BY <1>2, WriteType DEF Stopped, FinalWrite, TypeOK, RowStatus, Status
  <2> QED BY <1>2, <2>1, FinishType DEF Stopped, Settled, TypeOK, Resource
<1>3. CASE DeleteTornDown(t)
  BY <1>3, GotoType DEF DeleteTornDown, Settled, TypeOK, Resource, Places
<1>4. CASE Deleted(t)
  BY <1>4, FinishType DEF Deleted, TypeOK, RowStatus, adapter
<1> QED BY <1>1, <1>2, <1>3, <1>4

LEMMA TypeEngine ==
  ASSUME TypeOK, NEW e \in Engines, EngineStep(e)
  PROVE  TypeOK'
<1> DEFINE s == owner[e]
<1>0. s \in Sessions /\ reconnect \in Entries
  BY DEF TypeOK, Entries
<1>1. CASE ClientBuilt(e)
  BY <1>1 DEF ClientBuilt, TypeOK, service, Resource
<1>2. CASE EnginePairing(e)
  <2>1. row' \in [Sessions -> RowStatus]
    BY <1>2, ReportedType DEF EnginePairing, Status
  <2> QED BY <1>2, <2>1 DEF EnginePairing, TypeOK, service, Status
<1>3. CASE EngineReady(e)
  <2>1. row' \in [Sessions -> RowStatus]
    BY <1>3, ReportedType DEF EngineReady, Status
  <2>2. ASSUME reconnect[s] # NoReconnect
        PROVE  [reconnect[s] EXCEPT !.attempts = 0] \in ReconnectState
    <3>1. reconnect[s] \in ReconnectState
      BY <1>0, <2>2 DEF Entries
    <3> QED BY <3>1, ConstantsAssumption DEF ReconnectState
  <2>3. reconnect' \in Entries /\ errors' \in SUBSET Sessions
    BY <1>0, <1>3, <2>2 DEF EngineReady, Entries, TypeOK
  <2> QED BY <1>3, <2>1, <2>3 DEF EngineReady, TypeOK, Status, Entries
<1>4. ASSUME NEW r \in [Engines -> Resource], Dropped(e, r)
      PROVE  TypeOK'
  <2>1. Write(row, s, "disconnected") \in [Sessions -> RowStatus]
    BY <1>0, WriteType DEF TypeOK, RowStatus, Status
  <2>2. /\ reconnect' \in Entries /\ row' \in [Sessions -> RowStatus]
        /\ errors' \in SUBSET Sessions
    <3>1. CASE IsLiveEngine(s, e)
      <4>1. ScheduleReconnect(s, reconnect, Write(row, s, "disconnected"), errors)
        BY <1>4, <3>1 DEF Dropped
      <4>2. errors \in SUBSET Sessions
        BY DEF TypeOK
      <4> QED BY <1>0, <2>1, <4>1, <4>2, ScheduleType
    <3>2. CASE ~IsLiveEngine(s, e)
      BY <1>0, <1>4, <3>2 DEF Dropped, TypeOK
    <3> QED BY <3>1, <3>2
  <2> QED BY <1>4, <2>2 DEF Dropped, TypeOK, Status, Entries
<1>5. CASE EngineDisconnected(e)
  BY <1>4, <1>5 DEF EngineDisconnected, TypeOK
<1>6. CASE EngineStuck(e)
  BY <1>4, <1>6 DEF EngineStuck, TypeOK, Resource
<1>7. CASE EngineAuthFailure(e)
  <2>1. row' \in [Sessions -> RowStatus]
    BY <1>7, ReportedType DEF EngineAuthFailure, Status
  <2>2. reconnect' \in Entries /\ errors' \in SUBSET Sessions
    BY <1>0, <1>7, CancelType DEF EngineAuthFailure, TypeOK
  <2> QED BY <1>7, <2>1, <2>2 DEF EngineAuthFailure, TypeOK, Status, Entries
<1> QED BY <1>1, <1>2, <1>3, <1>5, <1>6, <1>7 DEF EngineStep

\* The activation an action belongs to is the only one it changes.
LEMMA TypeNext ==
  ASSUME TypeOK, Holding, [Next]_vars
  PROVE  TypeOK'
<1>1. CASE \E t \in Tasks, kind \in CallKinds, s \in Sessions : Call(t, kind, s)
  <2> PICK t \in Tasks, kind \in CallKinds, s \in Sessions : Call(t, kind, s)
    BY <1>1
  <2>1. task' \in [Tasks -> Task]
    BY BecomeType DEF Call, Kinds, Places
  <2> QED BY <2>1 DEF Call, TypeOK, service, adapter
<1>2. CASE \E t \in Tasks : TaskStep(t)
  BY <1>2, TypeStart, TypeLaunch, TypeReconnect, TypeTeardown DEF TaskStep
<1>3. CASE \E s \in Sessions : TimerStep(s)
  BY <1>3, TypeTimer
<1>4. CASE \E e \in Engines : EngineStep(e)
  BY <1>4, TypeEngine
<1>5. CASE Restart
  BY <1>5, IdleType, ConstantsAssumption
  DEF Restart, TypeOK, Resource, Status, RowStatus, ActiveStatus, Idle, Task
<1>6. CASE UNCHANGED vars
  BY <1>6 DEF vars, TypeOK
<1> QED BY <1>1, <1>2, <1>3, <1>4, <1>5, <1>6 DEF Next

LEMMA HoldingNext ==
  ASSUME TypeOK, Holding, [Next]_vars
  PROVE  Holding'
<1> USE DEF HasEngine
<1> SUFFICES ASSUME NEW u \in Tasks, task'[u].pc \in HasEngine
             PROVE  task'[u].eng \in Engines
  BY DEF Holding
<1>0. Idle.pc \notin HasEngine
  BY DEF Idle
<1>1. ASSUME task'[u] = task[u]
      PROVE  task'[u].eng \in Engines
  BY <1>1 DEF Holding
<1>2. ASSUME NEW t \in Tasks, Finish(t)
      PROVE  task'[u].eng \in Engines
  BY <1>0, <1>1, <1>2 DEF Finish, TypeOK
<1>3. ASSUME NEW t \in Tasks, NEW k, NEW s, NEW pc, NEW e, Become(t, k, s, pc, e),
             pc \in HasEngine => e \in Engines
      PROVE  task'[u].eng \in Engines
  BY <1>1, <1>3 DEF Become, TypeOK
<1>4. ASSUME NEW t \in Tasks, NEW pc, NEW e, Goto(t, pc, e), pc \in HasEngine => e \in Engines
      PROVE  task'[u].eng \in Engines
  BY <1>3, <1>4 DEF Goto
<1>5. ASSUME NEW t \in Tasks, NEW kind \in Kinds, NEW s \in Sessions,
             NEW engs \in [Sessions -> Engines \union {NoEngine}], NEW rc, NEW rows,
             NEW errs, NEW r, NEW st,
             LaunchFailed(t, kind, s, engs, rc, rows, errs, r, st)
      PROVE  task'[u].eng \in Engines
  <2>1. CASE Become(t, kind, s, "evict", engs[s]) /\ engs[s] # NoEngine
    BY <1>3, <2>1
  <2>2. CASE Finish(t)
    BY <1>2, <2>2
  <2> QED BY <1>5, <2>1, <2>2 DEF LaunchFailed, FinishLaunch
<1>6. ASSUME NEW t \in Tasks, NEW kind, NEW s, NEW e \in Engines, NEW r, NEW written,
             Register(t, kind, s, e, r, written)
      PROVE  task'[u].eng \in Engines
  BY <1>3, <1>6 DEF Register
<1>7. engines \in [Sessions -> Engines \union {NoEngine}] /\ "rec" \in Kinds /\ "start" \in Kinds
  BY DEF TypeOK, Kinds, CallKinds
<1>8. CASE \E t \in Tasks, kind \in CallKinds, s \in Sessions : Call(t, kind, s)
  BY <1>3, <1>8 DEF Call
<1>9. CASE \E t \in Tasks : TaskStep(t)
  <2> PICK t \in Tasks : TaskStep(t)
    BY <1>9
  <2> USE TaskType
  <2>1. CASE StartReject(t) \/ StartReserve(t)
    BY <1>2, <1>4, <2>1 DEF StartReject, StartReserve
  <2>2. CASE StartProceed(t)
    BY <1>5, <1>6, <1>7, <2>2 DEF StartProceed
  <2>3. CASE LaunchAborted(t)
    BY <1>5, <1>7, <2>3 DEF LaunchAborted
  <2>4. CASE Launch(t) \/ LaunchResolves(t)
    BY <1>4, <2>4 DEF Launch, LaunchResolves, Holding
  <2>5. CASE LaunchThrows(t)
    BY <1>5, <1>7, <2>5 DEF LaunchThrows
  <2>6. CASE Guard(t) \/ GuardRejects(t)
    BY <1>2, <1>4, <1>7, <2>6 DEF Guard, GuardRejects, FinishLaunch
  <2>7. CASE GuardUndone(t) \/ Evicted(t)
    BY <1>2, <2>7 DEF GuardUndone, Evicted, FinishLaunch
  <2>8. CASE Reconnect(t)
    <3>1. [engines EXCEPT ![task[t].sess] = NoEngine] \in [Sessions -> Engines \union {NoEngine}]
      BY <1>7
    <3> QED BY <1>5, <1>6, <1>7, <2>8, <3>1 DEF Reconnect
  <2>9. CASE TeardownStarts(t)
    BY <1>2, <1>4, <1>7, <2>9 DEF TeardownStarts
  <2>10. CASE Stopped(t) \/ DeleteTornDown(t) \/ Deleted(t)
    BY <1>2, <1>4, <2>10 DEF Stopped, DeleteTornDown, Deleted
  <2> QED BY <2>1, <2>2, <2>3, <2>4, <2>5, <2>6, <2>7, <2>8, <2>9, <2>10 DEF TaskStep
<1>10. CASE \E s \in Sessions : TimerStep(s)
  <2> PICK s \in Sessions, own \in BOOLEAN :
        TimerIgnored(s, own) \/ \E t \in Tasks : TimerFires(t, s, own)
    BY <1>10 DEF TimerStep
  <2>1. CASE TimerIgnored(s, own)
    BY <1>1, <2>1 DEF TimerIgnored
  <2>2. ASSUME NEW t \in Tasks, TimerFires(t, s, own)
        PROVE  task'[u].eng \in Engines
    BY <1>3, <1>5, <1>6, <1>7, <2>2 DEF TimerFires
  <2> QED BY <2>1, <2>2
<1>11. CASE \E e \in Engines : EngineStep(e)
  BY <1>1, <1>11 DEF EngineStep, ClientBuilt, EnginePairing, EngineReady,
     EngineDisconnected, EngineStuck, Dropped, EngineAuthFailure
<1>12. CASE Restart
  BY <1>0, <1>12 DEF Restart
<1>13. CASE UNCHANGED vars
  BY <1>1, <1>13 DEF vars
<1> QED BY <1>8, <1>9, <1>10, <1>11, <1>12, <1>13 DEF Next

LEMMA TypeInvariant == Spec => [](TypeOK /\ Holding)
<1>1. Init => TypeOK /\ Holding
  BY TypeInit
<1>2. TypeOK /\ Holding /\ [Next]_vars => (TypeOK /\ Holding)'
  BY TypeNext, HoldingNext
<1> QED BY <1>1, <1>2, PTL DEF Spec

\* Every map, row, adapter and activation keeps its type, for any number of sessions,
\* adapters and activations, with and without reconnects and faults.
THEOREM TypeCorrect == Spec => []TypeOK
  BY TypeInvariant, PTL

-----------------------------------------------------------------------------
\* The reservation of start().  An action changes one activation: either that activation
\* counts as a running start of the same session before and after, or it takes or
\* releases the reservation.

LEMMA ReservationKept ==
  ASSUME ReservationExact, NEW t \in Tasks,
         \A u \in Tasks \ {t} : task'[u] = task[u],
         \A s \in Sessions : InStart(t, s)' <=> InStart(t, s),
         initializing' = initializing
  PROVE  ReservationExact'
<1>1. \A u \in Tasks, s \in Sessions : InStart(u, s)' <=> InStart(u, s)
  BY DEF InStart
<1> QED BY <1>1 DEF ReservationExact

LEMMA ReservationReleased ==
  ASSUME ReservationExact, NEW t \in Tasks, NEW s \in Sessions,
         \A u \in Tasks \ {t} : task'[u] = task[u],
         InStart(t, s), task'[t].pc = "idle",
         initializing' = initializing \ {s}
  PROVE  ReservationExact'
<1>1. \A u \in Tasks, r \in Sessions : InStart(u, r)' <=> InStart(u, r) /\ u # t
  BY DEF InStart
<1>2. \A r \in Sessions : InStart(t, r) <=> r = s
  BY DEF InStart
<1> QED BY <1>1, <1>2 DEF ReservationExact

LEMMA FinishChanges ==
  ASSUME TypeOK, NEW t \in Tasks, Finish(t)
  PROVE  task'[t].pc = "idle" /\ \A u \in Tasks \ {t} : task'[u] = task[u]
  BY DEF Finish, TypeOK, Idle

LEMMA BecomeChanges ==
  ASSUME TypeOK, NEW t \in Tasks, NEW k, NEW s, NEW pc, NEW e, Become(t, k, s, pc, e)
  PROVE  /\ task'[t] = [kind |-> k, sess |-> s, pc |-> pc, eng |-> e]
         /\ \A u \in Tasks \ {t} : task'[u] = task[u]
  BY DEF Become, TypeOK

\* A task that is no running start ends, or one that is goes on under its reservation.
LEMMA ReservationBecome ==
  ASSUME TypeOK, ReservationExact, NEW t \in Tasks, NEW k, NEW s, NEW pc, NEW e,
         Become(t, k, s, pc, e), initializing' = initializing,
         \/ InStart(t, s) /\ k = "start" /\ pc \notin {"idle", "check"}
         \/ /\ task[t].kind # "start" \/ task[t].pc \in {"idle", "check"}
            /\ k # "start" \/ pc \in {"idle", "check"}
  PROVE  ReservationExact'
<1>1. /\ task'[t] = [kind |-> k, sess |-> s, pc |-> pc, eng |-> e]
      /\ \A u \in Tasks \ {t} : task'[u] = task[u]
  BY BecomeChanges
<1>2. \A r \in Sessions : InStart(t, r)' <=> InStart(t, r)
  BY <1>1 DEF InStart
<1> QED BY <1>1, <1>2, ReservationKept

LEMMA ReservationFinish ==
  ASSUME TypeOK, ReservationExact, NEW t \in Tasks, Finish(t),
         initializing' = initializing,
         task[t].kind # "start" \/ task[t].pc \in {"idle", "check"}
  PROVE  ReservationExact'
<1>1. \A r \in Sessions : InStart(t, r)' <=> InStart(t, r)
  BY FinishChanges DEF InStart
<1> QED BY <1>1, FinishChanges, ReservationKept

LEMMA ReservationFinishLaunch ==
  ASSUME TypeOK, ReservationExact, NEW t \in Tasks, FinishLaunch(t),
         task[t].pc \notin {"idle", "check"}
  PROVE  ReservationExact'
<1>1. CASE task[t].kind = "start"
  <2>1. InStart(t, task[t].sess) /\ task[t].sess \in Sessions
    BY <1>1, TaskType DEF InStart
  <2> QED BY <1>1, <2>1, FinishChanges, ReservationReleased DEF FinishLaunch
<1>2. CASE task[t].kind # "start"
  BY <1>2, ReservationFinish DEF FinishLaunch
<1> QED BY <1>1, <1>2

LEMMA ReservationRegister ==
  ASSUME TypeOK, ReservationExact, NEW t \in Tasks, NEW k, NEW s \in Sessions,
         NEW e, NEW r, NEW written, Register(t, k, s, e, r, written),
         initializing' = initializing,
         \/ k = "start" /\ InStart(t, s)
         \/ k = "rec" /\ (task[t].kind # "start" \/ task[t].pc = "idle")
  PROVE  ReservationExact'
<1>1. PICK pc \in {"init", "initErr"} : Become(t, k, s, pc, e)
  BY DEF Register
<1> QED BY <1>1, ReservationBecome

LEMMA ReservationFailed ==
  ASSUME TypeOK, ReservationExact, NEW t \in Tasks, NEW k, NEW s \in Sessions,
         NEW engs, NEW rc, NEW rows, NEW errs, NEW r, NEW st,
         LaunchFailed(t, k, s, engs, rc, rows, errs, r, st),
         \/ k = "start" /\ InStart(t, s)
         \/ k = "rec" /\ (task[t].kind # "start" \/ task[t].pc = "idle")
  PROVE  ReservationExact'
<1>1. CASE Become(t, k, s, "evict", engs[s]) /\ k = "start" /\ initializing' = initializing
  BY <1>1, ReservationBecome
<1>2. CASE FinishLaunch(t) /\ k = "start"
  BY <1>2, ReservationFinishLaunch DEF InStart
<1>3. CASE Finish(t) /\ k = "rec" /\ initializing' = initializing
  BY <1>3, ReservationFinish
<1> QED BY <1>1, <1>2, <1>3 DEF LaunchFailed

LEMMA ReservationGoto ==
  ASSUME TypeOK, ReservationExact, NEW t \in Tasks, NEW pc, NEW e, Goto(t, pc, e),
         initializing' = initializing,
         task[t].kind # "start" \/ (task[t].pc \notin {"idle", "check"} /\ pc \notin {"idle", "check"})
  PROVE  ReservationExact'
<1>1. Become(t, task[t].kind, task[t].sess, pc, e)
  BY DEF Goto
<1>2. task[t].kind = "start" => InStart(t, task[t].sess)
  BY DEF InStart
<1> QED BY <1>1, <1>2, ReservationBecome

LEMMA ReservationTask ==
  ASSUME TypeOK, ReservationExact, NEW t \in Tasks, TaskStep(t)
  PROVE  ReservationExact'
<1> USE TaskType
<1> DEFINE s == task[t].sess
<1>0. ASSUME task[t].kind = "start", task[t].pc \notin {"idle", "check"}
      PROVE  InStart(t, s)
  BY <1>0 DEF InStart
<1>1. CASE StartReject(t)
  BY <1>1, ReservationFinish DEF StartReject, At, service
<1>2. CASE StartReserve(t)
  <2>1. /\ task'[t] = [kind |-> "start", sess |-> s, pc |-> "hook", eng |-> NoEngine]
        /\ \A u \in Tasks \ {t} : task'[u] = task[u]
    BY <1>2, BecomeChanges DEF StartReserve, Goto, At
  <2>2. s \notin initializing /\ initializing' = initializing \union {s} /\ s \in Sessions
    BY <1>2 DEF StartReserve, StartRefused
  <2>3. \A u \in Tasks, r \in Sessions : InStart(u, r)' <=> InStart(u, r) \/ (u = t /\ r = s)
    BY <1>2, <2>1 DEF InStart, StartReserve, At
  <2> QED BY <2>2, <2>3 DEF ReservationExact
<1>3. CASE StartProceed(t)
  BY <1>0, <1>3, ReservationRegister, ReservationFailed DEF StartProceed, At
<1>4. CASE LaunchAborted(t)
  <2>1. task[t].kind \in {"start", "rec"}
    BY <1>4 DEF LaunchAborted, LaunchFailed
  <2> QED BY <1>0, <1>4, <2>1, ReservationFailed DEF LaunchAborted
<1>5. CASE Launch(t)
  BY <1>5, ReservationGoto DEF Launch, service
<1>6. CASE LaunchResolves(t)
  BY <1>6, ReservationGoto DEF LaunchResolves, service
<1>7. CASE LaunchThrows(t)
  <2> DEFINE e == task[t].eng
             rc == IF IsLiveEngine(s, e) THEN CancelReconnect(reconnect, s) ELSE reconnect
             errs == IF IsLiveEngine(s, e) THEN errors \union {s} ELSE errors
             st == [status EXCEPT ![e] = "failed"]
  <2>1. LaunchFailed(t, task[t].kind, s, engines, rc, Reported(e, "failed"), errs, Arrived(e), st)
    BY <1>7 DEF LaunchThrows
  <2>2. task[t].kind \in {"start", "rec"}
    BY <2>1 DEF LaunchFailed
  <2>3. task[t].pc = "launch"
    BY <1>7 DEF LaunchThrows
  <2> HIDE DEF rc, errs, st
  <2> QED BY <1>0, <2>1, <2>2, <2>3, ReservationFailed
<1>8. CASE Guard(t)
  BY <1>8, ReservationGoto, ReservationFinishLaunch DEF Guard
<1>9. CASE GuardUndone(t) \/ GuardRejects(t)
  BY <1>9, ReservationFinishLaunch DEF GuardUndone, GuardRejects
<1>10. CASE Evicted(t)
  BY <1>10, ReservationFinishLaunch DEF Evicted
<1>11. CASE Reconnect(t)
  BY <1>11, ReservationRegister, ReservationFailed DEF Reconnect, At
<1>12. CASE TeardownStarts(t)
  BY <1>12, ReservationGoto, ReservationFinish DEF TeardownStarts
<1>13. CASE Stopped(t)
  BY <1>13, ReservationFinish DEF Stopped
<1>14. CASE DeleteTornDown(t)
  BY <1>14, ReservationGoto DEF DeleteTornDown, At
<1>15. CASE Deleted(t)
  BY <1>15, ReservationFinish DEF Deleted, At
<1> QED BY <1>1, <1>2, <1>3, <1>4, <1>5, <1>6, <1>7, <1>8, <1>9, <1>10, <1>11, <1>12,
           <1>13, <1>14, <1>15 DEF TaskStep

LEMMA ReservationNext ==
  ASSUME TypeOK, ReservationExact, [Next]_vars
  PROVE  ReservationExact'
<1>0. ASSUME UNCHANGED <<task, initializing>>
      PROVE  ReservationExact'
  BY <1>0 DEF ReservationExact, InStart
<1>1. CASE \E t \in Tasks, kind \in CallKinds, s \in Sessions : Call(t, kind, s)
  BY <1>1, ReservationBecome DEF Call, service
<1>2. CASE \E t \in Tasks : TaskStep(t)
  BY <1>2, ReservationTask
<1>3. CASE \E s \in Sessions : TimerStep(s)
  <2> PICK s \in Sessions, own \in BOOLEAN :
        TimerIgnored(s, own) \/ \E t \in Tasks : TimerFires(t, s, own)
    BY <1>3 DEF TimerStep
  <2>1. CASE TimerIgnored(s, own)
    BY <1>0, <2>1 DEF TimerIgnored
  <2>2. ASSUME NEW t \in Tasks, TimerFires(t, s, own)
        PROVE  ReservationExact'
    BY <2>2, ReservationBecome, ReservationRegister, ReservationFailed DEF TimerFires
  <2> QED BY <2>1, <2>2
<1>4. CASE \E e \in Engines : EngineStep(e)
  BY <1>0, <1>4 DEF EngineStep, ClientBuilt, EnginePairing, EngineReady,
     EngineDisconnected, EngineStuck, Dropped, EngineAuthFailure, service
<1>5. CASE Restart
  BY <1>5 DEF Restart, ReservationExact, InStart, Idle
<1>6. CASE UNCHANGED vars
  BY <1>0, <1>6 DEF vars
<1> QED BY <1>1, <1>2, <1>3, <1>4, <1>5, <1>6 DEF Next

\* A session is reserved exactly while one start() is between its synchronous block and
\* its finally, whatever stops, deletes, reconnects and restarts race it.
THEOREM ReservationIsExact == Spec => []ReservationExact
<1>1. ASSUME Init
      PROVE  ReservationExact
  <2>1. initializing = {} /\ \A t \in Tasks : task[t] = Idle
    BY <1>1 DEF Init, ProcessMemoryEmpty
  <2>2. Idle.pc = "idle"
    BY DEF Idle
  <2>3. \A t \in Tasks, s \in Sessions : ~InStart(t, s)
    BY <2>1, <2>2 DEF InStart
  <2> QED BY <2>1, <2>3 DEF ReservationExact
<1>2. TypeOK /\ ReservationExact /\ [Next]_vars => ReservationExact'
  BY ReservationNext
<1> QED BY <1>1, <1>2, TypeCorrect, PTL DEF Spec

\* Types and reservations together, for any number of sessions, adapters and calls.
THEOREM Consistency == Spec => []Consistent
  BY TypeCorrect, ReservationIsExact, PTL DEF Consistent

-----------------------------------------------------------------------------
\* Who writes READY.  Every other write leaves the rows no readier than they were.
NoReadier(rows) == \A s \in Sessions : rows[s] = "ready" => row[s] = "ready"

LEMMA WriteNoReadier ==
  ASSUME NEW rows \in [Sessions -> RowStatus], NoReadier(rows), NEW s \in Sessions, NEW st, st # "ready"
  PROVE  NoReadier(Write(rows, s, st))
BY DEF NoReadier, Write

LEMMA ReportNoReadier ==
  ASSUME TypeOK, NEW e \in Engines, NEW st, st # "ready"
  PROVE  NoReadier(Reported(e, st)) /\ NoReadier(RowAfterTeardown(e)) /\ NoReadier(row)
<1>1. row \in [Sessions -> RowStatus] /\ owner[e] \in Sessions /\ NoReadier(row)
  BY DEF TypeOK, NoReadier
<1>2. NoReadier(Write(row, owner[e], st)) /\ NoReadier(Write(row, owner[e], "disconnected"))
  BY <1>1, WriteNoReadier
<1> QED BY <1>1, <1>2 DEF Reported, RowAfterTeardown

LEMMA FailureNoReadier ==
  ASSUME NEW t, NEW kind, NEW s \in Sessions, NEW engs, NEW rc, NEW errs, NEW r, NEW st,
         NEW rows \in [Sessions -> RowStatus], NoReadier(rows),
         LaunchFailed(t, kind, s, engs, rc, rows, errs, r, st)
  PROVE  NoReadier(row')
<1>1. NoReadier(Write(rows, s, "failed"))
  BY WriteNoReadier
<1> QED BY <1>1 DEF LaunchFailed, ScheduleReconnect

LEMMA TaskNoReadier ==
  ASSUME TypeOK, Holding, NEW t \in Tasks, TaskStep(t)
  PROVE  NoReadier(row')
<1>0. row \in [Sessions -> RowStatus] /\ NoReadier(row) /\ task[t].sess \in Sessions
  BY TaskType DEF TypeOK, NoReadier
<1>1. \A st : st # "ready" => NoReadier(Write(row, task[t].sess, st))
  BY <1>0, WriteNoReadier
<1>2. ASSUME UNCHANGED row
      PROVE  NoReadier(row')
  BY <1>2 DEF NoReadier
<1>3. ASSUME NEW e \in Engines, row' = Reported(e, "initializing") \/ row' = RowAfterTeardown(e)
      PROVE  NoReadier(row')
  BY <1>3, ReportNoReadier
<1>4. ASSUME NEW kind, NEW e, NEW r, NEW written, Register(t, kind, task[t].sess, e, r, written)
      PROVE  NoReadier(row')
  BY <1>1, <1>2, <1>4 DEF Register
<1>5. engines[task[t].sess] \in Engines \union {NoEngine}
  BY <1>0 DEF TypeOK
<1>6. CASE StartReject(t) \/ StartReserve(t) \/ LaunchResolves(t) \/ GuardUndone(t) \/ DeleteTornDown(t)
  BY <1>2, <1>6 DEF StartReject, StartReserve, LaunchResolves, GuardUndone, DeleteTornDown
<1>7. CASE StartProceed(t)
  BY <1>0, <1>4, <1>7, FailureNoReadier DEF StartProceed
<1>8. CASE LaunchAborted(t)
  BY <1>0, <1>8, FailureNoReadier DEF LaunchAborted
<1>9. CASE Launch(t)
  BY <1>3, <1>9 DEF Launch, Holding, HasEngine
<1>10. CASE LaunchThrows(t)
  <2> DEFINE e == task[t].eng
             s == task[t].sess
             rc == IF IsLiveEngine(s, e) THEN CancelReconnect(reconnect, s) ELSE reconnect
             errs == IF IsLiveEngine(s, e) THEN errors \union {s} ELSE errors
             st == [status EXCEPT ![e] = "failed"]
  <2>1. LaunchFailed(t, task[t].kind, s, engines, rc, Reported(e, "failed"), errs, Arrived(e), st)
    BY <1>10 DEF LaunchThrows
  <2>2. e \in Engines
    BY <1>10 DEF LaunchThrows, Holding, HasEngine
  <2>3. Reported(e, "failed") \in [Sessions -> RowStatus] /\ NoReadier(Reported(e, "failed"))
    BY <2>2, ReportedType, ReportNoReadier DEF Status
  <2> HIDE DEF e, rc, errs, st
  <2> QED BY <1>0, <2>1, <2>3, FailureNoReadier
<1>11. CASE Guard(t) \/ GuardRejects(t)
  BY <1>1, <1>2, <1>3, <1>5, <1>11 DEF Guard, GuardRejects, ScheduleReconnect
<1>12. CASE Evicted(t)
  BY <1>1, <1>12 DEF Evicted
<1>13. CASE Reconnect(t)
  BY <1>0, <1>4, <1>13, FailureNoReadier DEF Reconnect
<1>14. CASE TeardownStarts(t)
  BY <1>1, <1>2, <1>3, <1>5, <1>14 DEF TeardownStarts, FinalWrite
<1>15. CASE Stopped(t)
  BY <1>1, <1>2, <1>15 DEF Stopped, FinalWrite
<1>16. CASE Deleted(t)
  BY <1>2, <1>16 DEF Deleted, NoReadier, TypeOK
<1> QED BY <1>6, <1>7, <1>8, <1>9, <1>10, <1>11, <1>12, <1>13, <1>14, <1>15, <1>16 DEF TaskStep

LEMMA TimerNoReadier ==
  ASSUME TypeOK, NEW s \in Sessions, TimerStep(s)
  PROVE  NoReadier(row')
<1> PICK own \in BOOLEAN : TimerIgnored(s, own) \/ \E t \in Tasks : TimerFires(t, s, own)
  BY DEF TimerStep
<1>1. row \in [Sessions -> RowStatus] /\ NoReadier(row) /\ NoReadier(Write(row, s, "initializing"))
      /\ engines[s] \in Engines \union {NoEngine}
  BY WriteNoReadier DEF TypeOK, NoReadier
<1>2. ASSUME UNCHANGED row
      PROVE  NoReadier(row')
  BY <1>2 DEF NoReadier
<1>3. CASE TimerIgnored(s, own)
  BY <1>2, <1>3 DEF TimerIgnored
<1>4. ASSUME NEW t \in Tasks, TimerFires(t, s, own)
      PROVE  NoReadier(row')
  <2>1. CASE row' = RowAfterTeardown(engines[s]) /\ engines[s] \in Engines
    BY <2>1, ReportNoReadier
  <2>2. CASE \E new \in Engines, written \in BOOLEAN : Register(t, "rec", s, new, res, written)
    BY <1>1, <1>2, <2>2 DEF Register
  <2>3. CASE LaunchFailed(t, "rec", s, engines, EntriesAfterFiring(s, own), row, errors, res, status)
    BY <1>1, <2>3, FailureNoReadier
  <2> QED BY <1>1, <1>4, <2>1, <2>2, <2>3 DEF TimerFires
<1> QED BY <1>3, <1>4

LEMMA EngineNoReadier ==
  ASSUME TypeOK, NEW e \in Engines, EngineStep(e), ~EngineReady(e)
  PROVE  NoReadier(row')
<1>1. row \in [Sessions -> RowStatus] /\ NoReadier(row) /\ owner[e] \in Sessions
  BY DEF TypeOK, NoReadier
<1>2. ASSUME UNCHANGED row
      PROVE  NoReadier(row')
  BY <1>2 DEF NoReadier
<1>3. CASE ClientBuilt(e)
  BY <1>2, <1>3 DEF ClientBuilt
<1>4. CASE EnginePairing(e) \/ EngineAuthFailure(e)
  BY <1>4, ReportNoReadier DEF EnginePairing, EngineAuthFailure
<1>5. ASSUME NEW r, Dropped(e, r)
      PROVE  NoReadier(row')
  <2>1. Write(row, owner[e], "disconnected") \in [Sessions -> RowStatus]
        /\ NoReadier(Write(row, owner[e], "disconnected"))
    BY <1>1, WriteType, WriteNoReadier DEF RowStatus, Status
  <2>2. NoReadier(Write(Write(row, owner[e], "disconnected"), owner[e], "failed"))
    BY <1>1, <2>1, WriteNoReadier
  <2> QED BY <1>2, <1>5, <2>1, <2>2 DEF Dropped, ScheduleReconnect
<1> QED BY <1>3, <1>4, <1>5 DEF EngineStep, EngineDisconnected, EngineStuck

\* A session turns ready only by the word of the adapter that is registered for it: no
\* write of a handler says READY, and a superseded adapter's callback is dropped.
THEOREM ReadyByItsEngine == Spec => ReadyIsRegistered
<1>1. ASSUME TypeOK, Holding, [Next]_vars, NEW s \in Sessions, row[s] # "ready", row'[s] = "ready"
      PROVE  engines[s] \in Engines /\ status'[engines[s]] = "ready"
  <2>1. ~NoReadier(row')
    BY <1>1 DEF NoReadier
  <2>2. ~UNCHANGED row
    BY <1>1
  <2>3. PICK e \in Engines : EngineReady(e)
    BY <1>1, <2>1, <2>2, TaskNoReadier, TimerNoReadier, EngineNoReadier
       DEF Next, Call, vars, Restart, NoReadier
  <2>4. owner[e] = s /\ engines[s] = e
    BY <1>1, <2>3 DEF EngineReady, Reported, IsLiveEngine, Write, TypeOK
  <2> QED BY <1>1, <2>3, <2>4 DEF EngineReady, TypeOK
<1>2. TypeOK /\ Holding /\ [Next]_vars =>
        [\A s \in Sessions : row[s] # "ready" /\ row'[s] = "ready" =>
           engines[s] \in Engines /\ status'[engines[s]] = "ready"]_vars
  BY <1>1
<1> QED BY <1>2, TypeInvariant, PTL DEF ReadyIsRegistered, Spec

-----------------------------------------------------------------------------
\* Where reconnecting is off (maxReconnectAttempts 0), no timer is ever pending, and every
\* activation is a call.
NoTimer(rc) == \A s \in Sessions : rc[s] # NoReconnect => ~rc[s].timer

Quiet ==
  /\ \A t \in Tasks : task[t].kind \in CallKinds
  /\ \A s \in Sessions : stray[s] = 0
  /\ NoTimer(reconnect)

LEMMA ScheduleQuiet ==
  ASSUME MaxAttempts = 0, NEW rc \in Entries, NoTimer(rc), NEW s \in Sessions, NEW rows, NEW errs,
         ScheduleReconnect(s, rc, rows, errs)
  PROVE  NoTimer(reconnect')
<1>1. ~MayRetry(rc, s)
  BY DEF MayRetry, Entries, ReconnectState
<1> QED BY <1>1 DEF ScheduleReconnect

LEMMA CancelQuiet ==
  ASSUME NEW rc \in Entries, NoTimer(rc), NEW s \in Sessions
  PROVE  NoTimer(CancelReconnect(rc, s))
BY DEF CancelReconnect, NoTimer, Entries

\* The steps that are left.
LEMMA QuietSteps ==
  ASSUME TypeOK, Quiet, [Next]_vars
  PROVE  \/ \E t \in Tasks, kind \in CallKinds, s \in Sessions : Call(t, kind, s)
         \/ \E t \in Tasks : TaskStep(t) /\ ~Reconnect(t)
         \/ \E e \in Engines : EngineStep(e)
         \/ Restart
         \/ UNCHANGED vars
<1>1. ASSUME NEW s \in Sessions, TimerStep(s)
      PROVE  FALSE
  BY <1>1 DEF TimerStep, TimerIgnored, TimerFires, TimerPending, Quiet, NoTimer
<1>2. ASSUME NEW t \in Tasks, Reconnect(t)
      PROVE  FALSE
  BY <1>2 DEF Reconnect, At, Quiet, CallKinds
<1> QED BY <1>1, <1>2 DEF Next

LEMMA BecomeFields ==
  ASSUME TypeOK, NEW t \in Tasks, NEW k, NEW s, NEW pc, NEW e, Become(t, k, s, pc, e)
  PROVE  /\ task'[t].kind = k /\ task'[t].sess = s /\ task'[t].pc = pc /\ task'[t].eng = e
         /\ \A u \in Tasks \ {t} : task'[u] = task[u]
<1>1. /\ task'[t] = [kind |-> k, sess |-> s, pc |-> pc, eng |-> e]
      /\ \A u \in Tasks \ {t} : task'[u] = task[u]
  BY BecomeChanges
<1> QED BY <1>1

LEMMA GotoFields ==
  ASSUME TypeOK, NEW t \in Tasks, NEW pc, NEW e, Goto(t, pc, e)
  PROVE  /\ task'[t].kind = task[t].kind /\ task'[t].sess = task[t].sess
         /\ task'[t].pc = pc /\ task'[t].eng = e
         /\ \A u \in Tasks \ {t} : task'[u] = task[u]
<1>1. Become(t, task[t].kind, task[t].sess, pc, e)
  BY DEF Goto
<1> QED BY <1>1, BecomeFields

\* What a task becomes: it is done, or goes on as the call it is.
LEMMA TaskGoesOn ==
  ASSUME TypeOK, Quiet, NEW t \in Tasks, TaskStep(t), ~Reconnect(t)
  PROVE  /\ task[t].pc # "idle" /\ task[t].sess \in Sessions
         /\ \A u \in Tasks \ {t} : task'[u] = task[u]
         /\ \/ task'[t] = Idle
            \/ task'[t].kind = task[t].kind /\ task'[t].sess = task[t].sess
<1>1. ASSUME NEW k, NEW s, NEW pc, NEW e, Become(t, k, s, pc, e), k = task[t].kind, s = task[t].sess
      PROVE  /\ \A u \in Tasks \ {t} : task'[u] = task[u]
             /\ task'[t].kind = task[t].kind /\ task'[t].sess = task[t].sess
  BY <1>1, BecomeFields
<1>2. ASSUME NEW pc, NEW e, Goto(t, pc, e)
      PROVE  /\ \A u \in Tasks \ {t} : task'[u] = task[u]
             /\ task'[t].kind = task[t].kind /\ task'[t].sess = task[t].sess
  BY <1>2, GotoFields
<1>3. ASSUME Finish(t)
      PROVE  task'[t] = Idle /\ \A u \in Tasks \ {t} : task'[u] = task[u]
  BY <1>3 DEF Finish, TypeOK
<1>4. ASSUME NEW k, NEW s, NEW engs, NEW rc, NEW rows, NEW errs, NEW r, NEW st,
             LaunchFailed(t, k, s, engs, rc, rows, errs, r, st), k = task[t].kind, s = task[t].sess
      PROVE  /\ \A u \in Tasks \ {t} : task'[u] = task[u]
             /\ \/ task'[t] = Idle
                \/ task'[t].kind = task[t].kind /\ task'[t].sess = task[t].sess
  BY <1>1, <1>3, <1>4 DEF LaunchFailed, FinishLaunch
<1>5. task[t].sess \in Sessions
  BY TaskType
<1>6. CASE StartReject(t) \/ StartReserve(t) \/ Launch(t) \/ LaunchResolves(t) \/ Guard(t)
           \/ GuardRejects(t) \/ GuardUndone(t) \/ Evicted(t) \/ TeardownStarts(t) \/ Stopped(t)
           \/ DeleteTornDown(t) \/ Deleted(t)
  BY <1>2, <1>3, <1>5, <1>6
     DEF StartReject, StartReserve, Launch, LaunchResolves, Guard, GuardRejects, GuardUndone,
         Evicted, TeardownStarts, Stopped, DeleteTornDown, Deleted, FinishLaunch, At
<1>7. CASE StartProceed(t)
  BY <1>1, <1>4, <1>5, <1>7 DEF StartProceed, Register, At
<1>8. CASE LaunchAborted(t) \/ LaunchThrows(t)
  BY <1>4, <1>5, <1>8 DEF LaunchAborted, LaunchThrows
<1> QED BY <1>6, <1>7, <1>8 DEF TaskStep

\* Without a reconnect under way a rejected guard changes nothing but the start it ends.
LEMMA QuietReject ==
  ASSUME TypeOK, Quiet, NEW t \in Tasks, GuardRejects(t)
  PROVE  /\ UNCHANGED <<engines, stopping, errors, reconnect, stray, owner, res, status, row>>
         /\ FinishLaunch(t) /\ task[t].pc = "guard" /\ task[t].sess \notin stopping
BY DEF GuardRejects, Quiet, CallKinds, adapter

LEMMA QuietNext ==
  ASSUME MaxAttempts = 0, TypeOK, Quiet, [Next]_vars
  PROVE  Quiet'
<1>0. reconnect \in Entries /\ NoTimer(reconnect) /\ Idle.kind \in CallKinds
      /\ stray \in [Sessions -> 0..MaxStray]
  BY DEF TypeOK, Entries, Quiet, Idle, CallKinds
<1>1. CASE \E t \in Tasks, kind \in CallKinds, s \in Sessions : Call(t, kind, s)
  <2> PICK t \in Tasks, kind \in CallKinds, s \in Sessions : Call(t, kind, s)
    BY <1>1
  <2>1. task'[t].kind = kind /\ \A u \in Tasks \ {t} : task'[u] = task[u]
    BY BecomeFields DEF Call
  <2> QED BY <2>1 DEF Call, service, Quiet, NoTimer
<1>2. ASSUME NEW t \in Tasks, TaskStep(t), ~Reconnect(t)
      PROVE  Quiet'
  <2>1. \A u \in Tasks : task'[u].kind \in CallKinds
    BY <1>0, <1>2, TaskGoesOn DEF Quiet
  <2>2. ASSUME NEW k, NEW s \in Sessions, NEW engs, NEW rc \in Entries, NEW rows, NEW errs, NEW r, NEW st,
               LaunchFailed(t, k, s, engs, rc, rows, errs, r, st), NoTimer(rc)
        PROVE  NoTimer(reconnect')
    BY <2>2, ScheduleQuiet DEF LaunchFailed
  <2>3. task[t].sess \in Sessions
    BY TaskType
  <2>4. FreshReconnect(task[t].sess) \in Entries /\ NoTimer(FreshReconnect(task[t].sess))
    <3> DEFINE z == [attempts |-> 0, timer |-> FALSE]
    <3>1. z \in ReconnectState /\ ~z.timer
      BY ConstantsAssumption DEF ReconnectState
    <3>2. FreshReconnect(task[t].sess) = [reconnect EXCEPT ![task[t].sess] = z]
      BY DEF FreshReconnect
    <3> HIDE DEF z
    <3> QED BY <1>0, <3>1, <3>2 DEF Entries, NoTimer
  <2>5. (\A s \in Sessions : stray'[s] = 0) /\ NoTimer(reconnect')
    <3>1. CASE StartProceed(t)
      <4>1. \A s \in Sessions : stray'[s] = 0
        BY <1>0, <2>3, <3>1 DEF StartProceed, StrayAfterStart, Quiet, NoTimer
      <4>2. NoTimer(reconnect')
        BY <2>2, <2>3, <2>4, <3>1 DEF StartProceed
      <4> QED BY <4>1, <4>2
    <3>2. CASE LaunchAborted(t)
      BY <1>0, <2>2, <2>3, <3>2 DEF LaunchAborted, Quiet
    <3>3. CASE LaunchThrows(t)
      <4> DEFINE e == task[t].eng
                 s == task[t].sess
                 rc == IF IsLiveEngine(s, e) THEN CancelReconnect(reconnect, s) ELSE reconnect
                 errs == IF IsLiveEngine(s, e) THEN errors \union {s} ELSE errors
                 st == [status EXCEPT ![e] = "failed"]
      <4>1. LaunchFailed(t, task[t].kind, s, engines, rc, Reported(e, "failed"), errs, Arrived(e), st)
            /\ UNCHANGED stray
        BY <3>3 DEF LaunchThrows
      <4>2. rc \in Entries /\ NoTimer(rc)
        BY <1>0, <2>3, CancelQuiet, CancelType
      <4> HIDE DEF e, rc, errs, st
      <4> QED BY <2>2, <2>3, <4>1, <4>2 DEF Quiet
    <3>4. CASE TeardownStarts(t)
      BY <1>0, <2>3, <3>4, CancelQuiet DEF TeardownStarts, Quiet
    <3>5. CASE UNCHANGED <<reconnect, stray>>
      BY <3>5 DEF Quiet, NoTimer
    <3>6. CASE GuardRejects(t)
      BY <3>5, <3>6, QuietReject
    <3> QED BY <1>2, <3>1, <3>2, <3>3, <3>4, <3>5, <3>6
            DEF TaskStep, StartReject, StartReserve, Launch, LaunchResolves, Guard, GuardUndone,
                Evicted, Stopped, DeleteTornDown, Deleted, service
  <2> QED BY <2>1, <2>5 DEF Quiet
<1>3. ASSUME NEW e \in Engines, EngineStep(e)
      PROVE  Quiet'
  <2>1. owner[e] \in Sessions
    BY DEF TypeOK
  <2>2. NoTimer(reconnect')
    <3>1. CASE UNCHANGED reconnect
      BY <1>0, <3>1 DEF NoTimer
    <3>2. CASE EngineReady(e)
      BY <1>0, <2>1, <3>2 DEF EngineReady, NoTimer, Entries, ReconnectState
    <3>3. ASSUME NEW r, Dropped(e, r)
          PROVE  NoTimer(reconnect')
      BY <1>0, <2>1, <3>1, <3>3, ScheduleQuiet DEF Dropped
    <3>4. CASE EngineAuthFailure(e)
      BY <1>0, <2>1, <3>1, <3>4, CancelQuiet DEF EngineAuthFailure
    <3> QED BY <1>3, <3>1, <3>2, <3>3, <3>4
            DEF EngineStep, ClientBuilt, EnginePairing, EngineDisconnected, EngineStuck, service
  <2>3. UNCHANGED <<task, stray>>
    BY <1>3 DEF EngineStep, ClientBuilt, EnginePairing, EngineReady, EngineDisconnected, EngineStuck,
                Dropped, EngineAuthFailure, service
  <2> QED BY <2>2, <2>3 DEF Quiet
<1>4. CASE Restart
  BY <1>0, <1>4 DEF Restart, Quiet, NoTimer
<1>5. CASE UNCHANGED vars
  BY <1>5 DEF vars, Quiet, NoTimer
<1> QED BY <1>1, <1>2, <1>3, <1>4, <1>5, QuietSteps

-----------------------------------------------------------------------------
\* While an engine is registered for a session that is marked as stopping, a handler is on
\* its way that will take it from the map: a teardown, or a start that finds the mark.
Ending(t) == task[t].pc \in {"init", "initErr", "launch", "guard", "undo", "down"}

StopsEnd ==
  \A s \in Sessions : s \in stopping /\ engines[s] # NoEngine =>
    \E t \in Tasks : task[t].sess = s /\ Ending(t)

\* A step of one task, which may only end its own session's business.
LEMMA StopsStep ==
  ASSUME StopsEnd, NEW t \in Tasks, NEW s \in Sessions, s = task[t].sess,
         \A u \in Tasks \ {t} : task'[u] = task[u],
         \A r \in Sessions : r # s => engines'[r] = engines[r] /\ (r \in stopping' => r \in stopping),
         s \in stopping' /\ engines'[s] # NoEngine =>
           \/ task'[t].sess = s /\ Ending(t)'
           \/ s \in stopping /\ engines[s] # NoEngine /\ ~Ending(t)
  PROVE  StopsEnd'
<1> SUFFICES ASSUME NEW r \in Sessions, r \in stopping', engines'[r] # NoEngine
             PROVE  \E u \in Tasks : task'[u].sess = r /\ Ending(u)'
  BY DEF StopsEnd
<1>1. CASE task'[t].sess = r /\ Ending(t)'
  BY <1>1
<1>2. CASE ~(task'[t].sess = r /\ Ending(t)')
  <2>1. r \in stopping /\ engines[r] # NoEngine /\ ~(task[t].sess = r /\ Ending(t))
    BY <1>2
  <2>2. PICK u \in Tasks : task[u].sess = r /\ Ending(u)
    BY <2>1 DEF StopsEnd
  <2>3. u # t /\ task'[u] = task[u]
    BY <2>1, <2>2
  <2> QED BY <2>2, <2>3 DEF Ending
<1> QED BY <1>1, <1>2

\* What a handler does to the map and the marks: an entry comes from a start alone.
LEMMA OthersUntouched ==
  ASSUME TypeOK, Quiet, NEW t \in Tasks, TaskStep(t), ~Reconnect(t)
  PROVE  \A r \in Sessions : r # task[t].sess =>
           engines'[r] = engines[r] /\ (r \in stopping' <=> r \in stopping)
<1>1. engines \in [Sessions -> Engines \union {NoEngine}] /\ task[t].sess \in Sessions
  BY TaskType DEF TypeOK
<1> QED BY <1>1
     DEF TaskStep, StartReject, StartReserve, StartProceed, LaunchAborted, Launch, LaunchResolves,
         LaunchThrows, Guard, GuardRejects, GuardUndone, Evicted, TeardownStarts, Stopped,
         DeleteTornDown, Deleted, Register, LaunchFailed, service

LEMMA StopsTask ==
  ASSUME TypeOK, Quiet, StopsEnd, NEW t \in Tasks, TaskStep(t), ~Reconnect(t)
  PROVE  StopsEnd'
<1> DEFINE s == task[t].sess
           Mine == s \in stopping' /\ engines'[s] # NoEngine =>
                     \/ task'[t].sess = s /\ Ending(t)'
                     \/ s \in stopping /\ engines[s] # NoEngine /\ ~Ending(t)
<1>0. s \in Sessions /\ engines \in [Sessions -> Engines \union {NoEngine}]
  BY TaskType DEF TypeOK
<1>1. Mine => StopsEnd'
  <2>1. \A u \in Tasks \ {t} : task'[u] = task[u]
    BY TaskGoesOn
  <2> QED BY <1>0, <2>1, OthersUntouched, StopsStep
<1>2. ASSUME NEW pc \in {"init", "initErr", "launch", "guard", "undo", "down"}, NEW e, Goto(t, pc, e)
      PROVE  Mine
  BY <1>2, GotoFields DEF Ending
<1>3. ASSUME engines'[s] = NoEngine \/ s \notin stopping'
      PROVE  Mine
  BY <1>3
<1>4. ASSUME task[t].pc \in {"check", "hook", "evict"}, UNCHANGED engines, s \in stopping' => s \in stopping
      PROVE  Mine
  BY <1>4 DEF Ending
<1>5. ASSUME NEW engs, engs = engines, NEW rc, NEW rows, NEW errs, NEW r, NEW st,
             LaunchFailed(t, "start", s, engs, rc, rows, errs, r, st)
      PROVE  Mine
  BY <1>0, <1>3, <1>5 DEF LaunchFailed
<1>6. task[t].kind # "rec"
  BY DEF Quiet, CallKinds
<1>7. ASSUME StartReject(t) \/ StartReserve(t)
      PROVE  Mine
  BY <1>4, <1>7 DEF StartReject, StartReserve, At, service
<1>8. ASSUME StartProceed(t)
      PROVE  Mine
  <2>1. ASSUME NEW e, NEW written, Register(t, "start", s, e, res, written)
        PROVE  Mine
    <3>1. PICK pc \in {"init", "initErr"} : Become(t, "start", s, pc, e)
      BY <2>1 DEF Register
    <3> QED BY <3>1, BecomeFields DEF Ending
  <2> QED BY <1>5, <1>8, <2>1 DEF StartProceed
<1>9. ASSUME LaunchAborted(t)
      PROVE  Mine
  <2>1. task[t].kind = "start"
    BY <1>6, <1>9 DEF LaunchAborted, LaunchFailed
  <2> QED BY <1>5, <1>9, <2>1 DEF LaunchAborted
<1>10. ASSUME LaunchThrows(t)
       PROVE  Mine
  <2> DEFINE e == task[t].eng
             rc == IF IsLiveEngine(s, e) THEN CancelReconnect(reconnect, s) ELSE reconnect
             errs == IF IsLiveEngine(s, e) THEN errors \union {s} ELSE errors
             st == [status EXCEPT ![e] = "failed"]
  <2>1. LaunchFailed(t, task[t].kind, s, engines, rc, Reported(e, "failed"), errs, Arrived(e), st)
    BY <1>10 DEF LaunchThrows
  <2>2. task[t].kind = "start"
    BY <1>6, <2>1 DEF LaunchFailed
  <2> HIDE DEF e, rc, errs, st
  <2> QED BY <1>5, <2>1, <2>2
<1>11. ASSUME Launch(t)
       PROVE  Mine
  BY <1>2, <1>11 DEF Launch
<1>12. ASSUME LaunchResolves(t)
       PROVE  Mine
  BY <1>2, <1>12 DEF LaunchResolves
<1>13. ASSUME Guard(t)
       PROVE  Mine
  <2>1. CASE Retired(s) /\ engines[s] # NoEngine
    BY <1>2, <1>13, <2>1 DEF Guard
  <2>2. CASE ~Retired(s) \/ engines[s] = NoEngine
    BY <1>3, <1>13, <2>2 DEF Guard, Retired
  <2> QED BY <2>1, <2>2
<1>14. ASSUME GuardUndone(t) \/ Stopped(t) \/ DeleteTornDown(t)
       PROVE  Mine
  <2>1. engines' = [engines EXCEPT ![s] = NoEngine]
    BY <1>14 DEF GuardUndone, Stopped, DeleteTornDown
  <2> QED BY <1>0, <1>3, <2>1
<1>15. ASSUME Evicted(t)
       PROVE  Mine
  BY <1>4, <1>15 DEF Evicted
<1>16. ASSUME TeardownStarts(t)
       PROVE  Mine
  BY <1>2, <1>3, <1>16 DEF TeardownStarts
<1>17. ASSUME Deleted(t)
       PROVE  Mine
  BY <1>3, <1>17 DEF Deleted
<1>18. ASSUME GuardRejects(t)
       PROVE  Mine
  BY <1>3, <1>18, QuietReject
<1> HIDE DEF Mine
<1> QED BY <1>1, <1>7, <1>8, <1>9, <1>10, <1>11, <1>12, <1>13, <1>14, <1>15, <1>16, <1>17, <1>18
        DEF TaskStep

LEMMA StopsNext ==
  ASSUME TypeOK, Quiet, StopsEnd, [Next]_vars
  PROVE  StopsEnd'
<1>1. CASE \E t \in Tasks, kind \in CallKinds, s \in Sessions : Call(t, kind, s)
  <2> PICK t \in Tasks, kind \in CallKinds, s \in Sessions : Call(t, kind, s)
    BY <1>1
  <2>1. task[t].sess \in Sessions /\ ~Ending(t) /\ UNCHANGED <<engines, stopping>>
    BY TaskType DEF Call, Ending, service
  <2>2. \A u \in Tasks \ {t} : task'[u] = task[u]
    BY BecomeFields DEF Call
  <2> QED BY <2>1, <2>2, StopsStep
<1>2. CASE \E t \in Tasks : TaskStep(t) /\ ~Reconnect(t)
  BY <1>2, StopsTask
<1>3. CASE \E e \in Engines : EngineStep(e)
  BY <1>3 DEF StopsEnd, Ending, EngineStep, ClientBuilt, EnginePairing, EngineReady,
     EngineDisconnected, EngineStuck, Dropped, EngineAuthFailure, service
<1>4. CASE Restart
  BY <1>4 DEF Restart, StopsEnd
<1>5. CASE UNCHANGED vars
  BY <1>5 DEF vars, StopsEnd, Ending
<1> QED BY <1>1, <1>2, <1>3, <1>4, <1>5, QuietSteps

LEMMA QuietInit == Init => Quiet /\ StopsEnd
BY DEF Init, ProcessMemoryEmpty, Quiet, NoTimer, StopsEnd, Idle, CallKinds

\* A stop, kill or delete wins over every start it raced, with any number of calls in
\* flight, where reconnecting is off: the start that comes back late finds the mark, and
\* the one that fails takes its engine from the map itself.
THEOREM StopsHold == ASSUME MaxAttempts = 0 PROVE Spec => []StopHolds
<1>1. Init => Quiet /\ StopsEnd
  BY QuietInit
<1>2. TypeOK /\ Quiet /\ StopsEnd /\ [Next]_vars => (Quiet /\ StopsEnd)'
  BY QuietNext, StopsNext
<1>3. StopsEnd => StopHolds
  BY DEF StopsEnd, StopHolds, AtRest, Ending
<1> QED BY <1>1, <1>2, <1>3, TypeCorrect, PTL DEF Spec

-----------------------------------------------------------------------------
\* The slots.  Every step but the reservation of a start leaves the occupied sessions as
\* they are, or fewer of them.
LEMMA SlotsGiven ==
  ASSUME TypeOK, Quiet, ReservationExact, NEW t \in Tasks, TaskStep(t), ~Reconnect(t), ~StartReserve(t)
  PROVE  Occupied' \subseteq Occupied
<1> DEFINE s == task[t].sess
<1>0. s \in Sessions /\ engines \in [Sessions -> Engines \union {NoEngine}]
  BY TaskType DEF TypeOK
<1>1. ASSUME initializing' \subseteq initializing,
             \A r \in Sessions : engines'[r] = engines[r] \/ engines'[r] = NoEngine \/ r \in initializing
      PROVE  Occupied' \subseteq Occupied
  BY <1>1 DEF Occupied
<1>2. ASSUME NEW k, NEW rc, NEW rows, NEW errs, NEW r, NEW st,
             LaunchFailed(t, k, s, engines, rc, rows, errs, r, st)
      PROVE  Occupied' \subseteq Occupied
  BY <1>0, <1>1, <1>2 DEF LaunchFailed, FinishLaunch
<1>3. CASE StartProceed(t)
  <2>1. s \in initializing
    BY <1>0, <1>3 DEF StartProceed, At, ReservationExact, InStart
  <2>2. ASSUME NEW e, NEW written, Register(t, "start", s, e, res, written), UNCHANGED initializing
        PROVE  Occupied' \subseteq Occupied
    BY <1>0, <1>1, <2>1, <2>2 DEF Register
  <2> QED BY <1>2, <1>3, <2>2 DEF StartProceed
<1>4. CASE LaunchAborted(t)
  BY <1>2, <1>4 DEF LaunchAborted
<1>5. CASE LaunchThrows(t)
  <2> DEFINE e == task[t].eng
             rc == IF IsLiveEngine(s, e) THEN CancelReconnect(reconnect, s) ELSE reconnect
             errs == IF IsLiveEngine(s, e) THEN errors \union {s} ELSE errors
             st == [status EXCEPT ![e] = "failed"]
  <2>1. LaunchFailed(t, task[t].kind, s, engines, rc, Reported(e, "failed"), errs, Arrived(e), st)
    BY <1>5 DEF LaunchThrows
  <2> HIDE DEF e, rc, errs, st
  <2> QED BY <1>2, <2>1
<1>6. CASE StartReject(t) \/ Launch(t) \/ LaunchResolves(t) \/ Guard(t) \/ GuardRejects(t)
           \/ GuardUndone(t) \/ Evicted(t) \/ TeardownStarts(t) \/ Stopped(t) \/ DeleteTornDown(t) \/ Deleted(t)
  <2>1. initializing' \subseteq initializing
    BY <1>6 DEF StartReject, Launch, LaunchResolves, Guard, GuardRejects, GuardUndone, Evicted,
                TeardownStarts, Stopped, DeleteTornDown, Deleted, FinishLaunch, service
  <2>2. engines' = engines \/ engines' = [engines EXCEPT ![s] = NoEngine]
    BY <1>6 DEF StartReject, Launch, LaunchResolves, Guard, GuardRejects, GuardUndone, Evicted,
                TeardownStarts, Stopped, DeleteTornDown, Deleted, service
  <2> QED BY <1>0, <1>1, <2>1, <2>2
<1> QED BY <1>3, <1>4, <1>5, <1>6 DEF TaskStep

LEMMA SlotTaken ==
  ASSUME IsFiniteSet(Occupied), NEW t \in Tasks, NEW s \in Sessions, s = task[t].sess, StartReserve(t)
  PROVE  s \notin Occupied /\ Slots!Free /\ Occupied' = Occupied \union {s}
<1>1. s \notin Occupied /\ ~AtCap
  BY DEF StartReserve, StartRefused, Occupied
<1>2. Cardinality(Occupied) \in Nat /\ MaxConcurrent \in Nat
  BY FS_CardinalityType, ConstantsAssumption
<1>3. Slots!Free
  <2>1. PICK c \in Nat : c = Cardinality(Occupied)
    BY <1>2
  <2>2. MaxConcurrent = 0 \/ c < MaxConcurrent
    BY <1>1, <1>2, <2>1 DEF AtCap
  <2>3. Slots!Cardinality(Occupied) = Cardinality(Occupied)
    BY DEF Slots!Cardinality, Cardinality
  <2> QED BY <2>1, <2>2, <2>3 DEF Slots!Free
<1>4. Occupied' = Occupied \union {s}
  BY DEF StartReserve, Occupied
<1> QED BY <1>1, <1>3, <1>4

LEMMA SlotsNext ==
  ASSUME TypeOK, Quiet, ReservationExact, IsFiniteSet(Occupied), [Next]_vars
  PROVE  IsFiniteSet(Occupied') /\ (Slots!Next \/ UNCHANGED Occupied)
<1>1. ASSUME Occupied' \subseteq Occupied
      PROVE  IsFiniteSet(Occupied') /\ (Slots!Next \/ UNCHANGED Occupied)
  <2>1. IsFiniteSet(Occupied')
    BY <1>1, FS_Subset
  <2>2. Occupied \ Occupied' \in SUBSET Sessions /\ Occupied' = Occupied \ (Occupied \ Occupied')
    BY <1>1 DEF Occupied, TypeOK
  <2> QED BY <2>1, <2>2 DEF Slots!Next, Slots!Give
<1>2. CASE \E t \in Tasks, kind \in CallKinds, s \in Sessions : Call(t, kind, s)
  BY <1>1, <1>2 DEF Call, service, Occupied
<1>3. ASSUME NEW t \in Tasks, TaskStep(t), ~Reconnect(t)
      PROVE  IsFiniteSet(Occupied') /\ (Slots!Next \/ UNCHANGED Occupied)
  <2>1. CASE StartReserve(t)
    <3>1. PICK s \in Sessions : s = task[t].sess
      BY TaskType
    <3>2. s \notin Occupied /\ Slots!Free /\ Occupied' = Occupied \union {s}
      BY <2>1, <3>1, SlotTaken
    <3>3. IsFiniteSet(Occupied')
      BY <3>2, FS_AddElement
    <3> QED BY <3>2, <3>3 DEF Slots!Next, Slots!Take
  <2> QED BY <1>1, <1>3, <2>1, SlotsGiven
<1>4. CASE \E e \in Engines : EngineStep(e)
  <2>1. UNCHANGED <<engines, initializing>>
    BY <1>4 DEF EngineStep, ClientBuilt, EnginePairing, EngineReady,
       EngineDisconnected, EngineStuck, Dropped, EngineAuthFailure, service
  <2> QED BY <1>1, <2>1 DEF Occupied
<1>5. CASE Restart
  BY <1>1, <1>5 DEF Restart, Occupied
<1>6. CASE UNCHANGED vars
  BY <1>1, <1>6 DEF vars, Occupied
<1> QED BY <1>2, <1>3, <1>4, <1>5, <1>6, QuietSteps

\* Where reconnecting is off the service is a pool of MaxConcurrent slots: no interleaving of
\* starts takes one too many, and between a start's reservation and the engine it registers
\* the slot is not given to another.
THEOREM PoolOfSlots == ASSUME MaxAttempts = 0 PROVE Spec => ImplementsSlots
<1> DEFINE Fin == IsFiniteSet(Occupied)
<1>1. Init => Quiet /\ Fin /\ Slots!Init
  <2>1. Init => Occupied = {}
    BY DEF Init, ProcessMemoryEmpty, Occupied
  <2> QED BY <2>1, QuietInit, FS_EmptySet DEF Slots!Init
<1>2. TypeOK /\ Quiet /\ ReservationExact /\ Fin /\ [Next]_vars => (Quiet /\ Fin)' /\ [Slots!Next]_Occupied
  BY QuietNext, SlotsNext
<1> HIDE DEF Fin
<1> QED BY <1>1, <1>2, TypeCorrect, ReservationIsExact, PTL DEF Spec, ImplementsSlots, Slots!Spec

-----------------------------------------------------------------------------
\* What the service keeps of one session.  An adapter in the map, and one a handler works
\* on, were built for the session they stand under.
Owned ==
  /\ \A s \in Sessions : engines[s] # NoEngine => owner[engines[s]] = s
  /\ \A t \in Tasks : task[t].eng # NoEngine => owner[task[t].eng] = task[t].sess

LEMMA OwnedStep ==
  ASSUME TypeOK, Owned, NEW t \in Tasks, NEW s \in Sessions,
         UNCHANGED owner,
         \A u \in Tasks \ {t} : task'[u] = task[u],
         \A r \in Sessions : engines'[r] = engines[r] \/ engines'[r] = NoEngine,
         \/ task'[t].eng = NoEngine
         \/ task'[t].sess = s /\ task'[t].eng \in {task[t].eng, engines[s]} /\ s = task[t].sess
  PROVE  Owned'
<1>1. \A r \in Sessions : engines'[r] # NoEngine => owner'[engines'[r]] = r
  BY DEF Owned
<1>2. \A u \in Tasks : task'[u].eng # NoEngine => owner'[task'[u].eng] = task'[u].sess
  <2> TAKE u \in Tasks
  <2>1. CASE u # t
    BY <2>1 DEF Owned
  <2>2. CASE u = t
    BY <2>2 DEF Owned
  <2> QED BY <2>1, <2>2
<1> QED BY <1>1, <1>2 DEF Owned

LEMMA OwnedRegister ==
  ASSUME TypeOK, Owned, NEW t \in Tasks, NEW k, NEW s \in Sessions, NEW e \in Engines, NEW r,
         NEW written, Register(t, k, s, e, r, written)
  PROVE  Owned'
<1>1. /\ engines' = [engines EXCEPT ![s] = e] /\ owner' = [owner EXCEPT ![e] = s]
      /\ \A q \in Sessions : engines[q] # e
      /\ \A u \in Tasks : task[u].eng # e
  BY DEF Register, Fresh
<1>2. engines' \in [Sessions -> Engines \union {NoEngine}] /\ owner \in [Engines -> Sessions]
      /\ engines \in [Sessions -> Engines \union {NoEngine}]
  BY <1>1 DEF TypeOK
<1>3. PICK pc : Become(t, k, s, pc, e)
  BY DEF Register
<1>4. task'[t].sess = s /\ task'[t].eng = e /\ \A u \in Tasks \ {t} : task'[u] = task[u]
  BY <1>3, BecomeFields
<1>5. \A q \in Sessions : engines'[q] # NoEngine => owner'[engines'[q]] = q
  BY <1>1, <1>2 DEF Owned
<1>6. \A u \in Tasks : task'[u].eng # NoEngine => owner'[task'[u].eng] = task'[u].sess
  <2> TAKE u \in Tasks
  <2>1. CASE u # t
    BY <1>1, <1>2, <1>4, <2>1, TaskType DEF Owned
  <2>2. CASE u = t
    BY <1>1, <1>2, <1>4, <2>2
  <2> QED BY <2>1, <2>2
<1> QED BY <1>5, <1>6 DEF Owned

LEMMA OwnedTask ==
  ASSUME TypeOK, Quiet, Owned, NEW t \in Tasks, TaskStep(t), ~Reconnect(t)
  PROVE  Owned'
<1> DEFINE s == task[t].sess
<1>0. s \in Sessions /\ engines \in [Sessions -> Engines \union {NoEngine}] /\ Idle.eng = NoEngine
  BY TaskType DEF TypeOK, Idle
<1>1. \A u \in Tasks \ {t} : task'[u] = task[u]
  BY TaskGoesOn
<1>2. ASSUME Finish(t)
      PROVE  task'[t].eng = NoEngine
  BY <1>0, <1>2 DEF Finish, TypeOK
<1>3. ASSUME NEW pc, NEW e, Goto(t, pc, e)
      PROVE  task'[t].eng = e /\ task'[t].sess = s
  BY <1>3, GotoFields
<1>4. ASSUME NEW k, NEW rc, NEW rows, NEW errs, NEW r, NEW st, UNCHANGED owner,
             LaunchFailed(t, k, s, engines, rc, rows, errs, r, st)
      PROVE  Owned'
  <2>1. ASSUME NEW pc, Become(t, k, s, pc, engines[s])
        PROVE  task'[t].eng = engines[s] /\ task'[t].sess = s
    BY <2>1, BecomeFields
  <2>2. \/ task'[t].eng = NoEngine
        \/ task'[t].sess = s /\ task'[t].eng = engines[s]
    BY <1>2, <1>4, <2>1 DEF LaunchFailed, FinishLaunch
  <2>3. \A q \in Sessions : engines'[q] = engines[q] \/ engines'[q] = NoEngine
    BY <1>0, <1>4 DEF LaunchFailed
  <2> QED BY <1>0, <1>1, <1>4, <2>2, <2>3, OwnedStep
<1>5. CASE StartProceed(t)
  <2>1. ASSUME NEW e \in Engines, NEW written, Register(t, "start", s, e, res, written)
        PROVE  Owned'
    BY <1>0, <2>1, OwnedRegister
  <2> QED BY <1>4, <1>5, <2>1 DEF StartProceed
<1>6. CASE LaunchAborted(t)
  BY <1>4, <1>6 DEF LaunchAborted
<1>7. CASE LaunchThrows(t)
  <2> DEFINE e == task[t].eng
             rc == IF IsLiveEngine(s, e) THEN CancelReconnect(reconnect, s) ELSE reconnect
             errs == IF IsLiveEngine(s, e) THEN errors \union {s} ELSE errors
             st == [status EXCEPT ![e] = "failed"]
  <2>1. LaunchFailed(t, task[t].kind, s, engines, rc, Reported(e, "failed"), errs, Arrived(e), st)
        /\ UNCHANGED owner
    BY <1>7 DEF LaunchThrows
  <2> HIDE DEF e, rc, errs, st
  <2> QED BY <1>4, <2>1
<1>8. CASE StartReject(t) \/ StartReserve(t) \/ Launch(t) \/ LaunchResolves(t) \/ Guard(t)
           \/ GuardRejects(t) \/ GuardUndone(t) \/ Evicted(t) \/ TeardownStarts(t) \/ Stopped(t)
           \/ DeleteTornDown(t) \/ Deleted(t)
  <2>1. UNCHANGED owner
    BY <1>8 DEF StartReject, StartReserve, Launch, LaunchResolves, Guard, GuardRejects,
                GuardUndone, Evicted, TeardownStarts, Stopped, DeleteTornDown, Deleted, adapter
  <2>2. engines' = engines \/ engines' = [engines EXCEPT ![s] = NoEngine]
    BY <1>8 DEF StartReject, StartReserve, Launch, LaunchResolves, Guard, GuardRejects,
                GuardUndone, Evicted, TeardownStarts, Stopped, DeleteTornDown, Deleted, service
  <2>3. \A q \in Sessions : engines'[q] = engines[q] \/ engines'[q] = NoEngine
    BY <1>0, <2>2
  <2>4. \/ task'[t].eng = NoEngine
        \/ task'[t].sess = s /\ task'[t].eng \in {task[t].eng, engines[s]}
    BY <1>2, <1>3, <1>8
       DEF StartReject, StartReserve, Launch, LaunchResolves, Guard, GuardRejects, GuardUndone,
           Evicted, TeardownStarts, Stopped, DeleteTornDown, Deleted, FinishLaunch
  <2> QED BY <1>0, <1>1, <2>1, <2>3, <2>4, OwnedStep
<1> QED BY <1>5, <1>6, <1>7, <1>8 DEF TaskStep

LEMMA OwnedNext ==
  ASSUME TypeOK, Quiet, Owned, [Next]_vars
  PROVE  Owned'
<1>1. CASE \E t \in Tasks, kind \in CallKinds, s \in Sessions : Call(t, kind, s)
  <2> PICK t \in Tasks, kind \in CallKinds, s \in Sessions : Call(t, kind, s)
    BY <1>1
  <2>1. task'[t].eng = NoEngine /\ \A u \in Tasks \ {t} : task'[u] = task[u]
    BY BecomeFields DEF Call
  <2>2. UNCHANGED <<owner, engines>>
    BY DEF Call, adapter, service
  <2> QED BY <2>1, <2>2, OwnedStep
<1>2. CASE \E t \in Tasks : TaskStep(t) /\ ~Reconnect(t)
  BY <1>2, OwnedTask
<1>3. CASE \E e \in Engines : EngineStep(e)
  BY <1>3 DEF Owned, EngineStep, ClientBuilt, EnginePairing, EngineReady,
     EngineDisconnected, EngineStuck, Dropped, EngineAuthFailure, service
<1>4. CASE Restart
  BY <1>4 DEF Restart, Owned, Idle
<1>5. CASE UNCHANGED vars
  BY <1>5 DEF vars, Owned
<1> QED BY <1>1, <1>2, <1>3, <1>4, <1>5, QuietSteps

\* The one call that is out for a session whose calls come one at a time, and what it has
\* found or made: a start that has registered an engine is the only one to move it, and
\* nothing marks or deletes the session meanwhile.
Active(t, s) == task[t].sess = s /\ task[t].pc # "idle"
Launching(t) == task[t].pc \in {"init", "initErr", "launch", "guard"}

Posed(t, s) ==
  /\ task[t].pc = "check" => row[s] # "gone"
  /\ Launching(t) \/ At(t, "start", "hook") => s \notin stopping /\ row[s] # "gone"
  /\ Launching(t) => engines[s] = task[t].eng
  /\ At(t, "start", "hook") \/ task[t].pc = "evict" => engines[s] = NoEngine
  /\ task[t].pc \in {"init", "initErr"} => res[task[t].eng] = "created"
  /\ task[t].pc = "guard" => res[task[t].eng] # "pinning"
  /\ task[t].pc = "down" => engines[s] = task[t].eng /\ res[task[t].eng] \notin Running
  /\ task[t].pc # "undo"

Alone(s) == \A t, u \in Tasks : Active(t, s) /\ Active(u, s) => t = u
Kept(s) == \A e \in Engines : owner[e] = s /\ res[e] \in Running => engines[s] = e
Pinned(s) ==
  \A e \in Engines : owner[e] = s /\ res[e] = "pinning" =>
    \E t \in Tasks : Active(t, s) /\ task[t].pc = "launch"

Steady(s) ==
  /\ Alone(s)
  /\ \A t \in Tasks : Active(t, s) => Posed(t, s)
  /\ Kept(s)
  /\ Pinned(s)

\* A session nothing touches keeps what it has: the call out for it, its entry, its mark,
\* and its adapters, but for those whose client gets built or is given up.
LEMMA SteadyStays ==
  ASSUME TypeOK, Holding, NEW s \in Sessions, Steady(s), Owned',
         \A t \in Tasks : Active(t, s) \/ Active(t, s)' => task'[t] = task[t],
         engines'[s] = engines[s], s \in stopping' => s \in stopping,
         row'[s] = "gone" => row[s] = "gone",
         \A e \in Engines : owner'[e] = s =>
           /\ owner[e] = s
           /\ \/ res'[e] = res[e]
              \/ res[e] = "pinning" /\ res'[e] = "launching"
              \/ res[e] # "created" /\ res'[e] = "closed"
  PROVE  Steady(s)'
<1>1. \A t \in Tasks : Active(t, s)' => Active(t, s) /\ task'[t] = task[t]
  BY DEF Active
<1>2. \A t \in Tasks : Active(t, s) => Active(t, s)' /\ task'[t] = task[t]
  BY DEF Active
<1>3. Alone(s)'
  BY <1>1 DEF Steady, Alone
<1>4. \A e \in Engines : owner'[e] = s /\ res'[e] \in Running => owner[e] = s /\ res[e] \in Running
  BY DEF Running
<1>5. Kept(s)'
  BY <1>4 DEF Steady, Kept
<1>6. \A e \in Engines : owner'[e] = s /\ res'[e] = "pinning" => owner[e] = s /\ res[e] = "pinning"
  OBVIOUS
<1>7. Pinned(s)'
  <2> SUFFICES ASSUME NEW e \in Engines, owner'[e] = s, res'[e] = "pinning"
               PROVE  \E t \in Tasks : Active(t, s)' /\ task'[t].pc = "launch"
    BY DEF Pinned
  <2>1. PICK t \in Tasks : Active(t, s) /\ task[t].pc = "launch"
    BY <1>6 DEF Steady, Pinned
  <2> QED BY <1>2, <2>1
<1>8. ASSUME NEW t \in Tasks, Active(t, s)'
      PROVE  Posed(t, s)'
  <2>1. Active(t, s) /\ task'[t] = task[t] /\ Posed(t, s)
    BY <1>1, <1>8 DEF Steady
  <2> DEFINE e == task[t].eng
  <2>2. ASSUME e \in Engines
        PROVE  /\ res[e] = "created" => res'[e] = "created"
               /\ res[e] # "pinning" => res'[e] # "pinning"
               /\ res[e] \notin Running => res'[e] \notin Running
    <3>1. owner'[e] = s
      BY <2>1, <2>2, ConstantsAssumption DEF Owned, Active
    <3> QED BY <2>2, <3>1 DEF Running
  <2>3. task[t].pc \in {"init", "initErr", "guard", "down"} => e \in Engines
    BY DEF Holding, HasEngine
  <2>4. /\ task'[t].pc \in {"init", "initErr"} => res'[e] = "created"
        /\ task'[t].pc = "guard" => res'[e] # "pinning"
        /\ task'[t].pc = "down" => res'[e] \notin Running
    BY <2>1, <2>2, <2>3 DEF Posed
  <2>5. task'[t].eng = e /\ (row'[s] = "gone" => row[s] = "gone")
    BY <2>1
  <2> HIDE DEF e
  <2> QED BY <2>1, <2>4, <2>5 DEF Posed, Launching, At
<1> QED BY <1>3, <1>5, <1>7, <1>8 DEF Steady

\* The step of the call itself: what it leaves of the session.
LEMMA SteadyMove ==
  ASSUME NEW s \in Sessions, Alone(s), NEW t \in Tasks, Active(t, s),
         \A u \in Tasks \ {t} : task'[u] = task[u],
         Active(t, s)' => Posed(t, s)',
         Kept(s)',
         \A e \in Engines : owner'[e] = s /\ res'[e] = "pinning" => Active(t, s)' /\ task'[t].pc = "launch"
  PROVE  Steady(s)'
<1>1. \A u \in Tasks : Active(u, s)' => u = t
  BY DEF Active, Alone
<1>2. Alone(s)'
  BY <1>1 DEF Alone
<1>3. Pinned(s)'
  BY DEF Pinned
<1> QED BY <1>1, <1>2, <1>3 DEF Steady

LEMMA SteadyOwn ==
  ASSUME TypeOK, Holding, Quiet, Owned, NEW s \in Sessions, Steady(s), NEW t \in Tasks, Active(t, s),
         TaskStep(t), ~Reconnect(t)
  PROVE  Steady(s)'
<1> DEFINE e == task[t].eng
           NoPin == \A a \in Engines : owner[a] = s => res[a] # "pinning"
           Dead == \A a \in Engines : owner[a] = s => res'[a] \notin Running
           Calmer == \A a \in Engines : owner[a] = s =>
                       \/ res'[a] = res[a]
                       \/ res'[a] \notin Running
                       \/ res[a] = "launching" /\ res'[a] = "live"
<1>0. /\ s = task[t].sess /\ Posed(t, s) /\ Alone(s) /\ Kept(s) /\ Pinned(s)
      /\ engines \in [Sessions -> Engines \union {NoEngine}] /\ res \in [Engines -> Resource]
      /\ row \in [Sessions -> RowStatus] /\ owner \in [Engines -> Sessions] /\ stopping \subseteq Sessions
      /\ NoEngine \notin Engines /\ e \in Engines \union {NoEngine}
  BY TaskType, ConstantsAssumption DEF Steady, Active, TypeOK
<1>1. /\ \A u \in Tasks \ {t} : task'[u] = task[u]
      /\ task'[t] = Idle \/ task'[t].sess = s
  BY <1>0, TaskGoesOn
<1>2. task[t].pc # "launch" => NoPin
  BY <1>0 DEF Pinned, Alone
<1>3. engines[s] \in Engines /\ res[engines[s]] # "pinning" => NoPin
  BY <1>0 DEF Kept, Running
<1>4. ASSUME NoPin, UNCHANGED owner, Calmer, engines'[s] = engines[s] \/ Dead, Active(t, s)' => Posed(t, s)'
      PROVE  Steady(s)'
  <2>1. \A a \in Engines : owner'[a] = s /\ res'[a] \in Running => res[a] \in Running /\ ~Dead /\ res'[a] # "pinning"
    BY <1>4 DEF Running
  <2>2. Kept(s)'
    BY <1>0, <1>4, <2>1 DEF Kept
  <2>3. \A a \in Engines : owner'[a] = s => res'[a] # "pinning"
    BY <2>1 DEF Running
  <2> HIDE DEF NoPin, Calmer, Dead
  <2> QED BY <1>0, <1>1, <1>4, <2>2, <2>3, SteadyMove
<1>5. ASSUME Finish(t)
      PROVE  ~Active(t, s)'
  BY <1>5 DEF Finish, TypeOK, Idle, Active
<1>6. ASSUME NEW pc, NEW a, Goto(t, pc, a)
      PROVE  Active(t, s)' => task'[t].kind = task[t].kind /\ task'[t].pc = pc /\ task'[t].eng = a
  BY <1>6, GotoFields
<1>7. ASSUME NEW a \in Engines
      PROVE  /\ Torn(res, a) \in [Engines -> Resource]
             /\ Torn(res, a)[a] = IF HasClient(res, a) THEN "closing" ELSE res[a]
             /\ \A b \in Engines : b # a => Torn(res, a)[b] = res[b]
             /\ Settled(a)[a] = IF res[a] = "closing" THEN "closed" ELSE res[a]
             /\ \A b \in Engines : b # a => Settled(a)[b] = res[b]
  BY <1>0, <1>7 DEF Torn, Settled, Resource
<1> HIDE DEF NoPin, Dead, Calmer
<1>8. ASSUME UNCHANGED res
      PROVE  Calmer
  BY <1>8 DEF Calmer
<1>9. task[t].pc \in HasEngine => e \in Engines
  BY DEF Holding
<1>10. ASSUME StartReject(t)
       PROVE  Steady(s)'
  BY <1>2, <1>4, <1>5, <1>8, <1>10 DEF StartReject, At, service, adapter
<1>11. ASSUME StartReserve(t)
       PROVE  Steady(s)'
  <2>1. Active(t, s)' => task'[t].kind = "start" /\ task'[t].pc = "hook"
    BY <1>6, <1>11 DEF StartReserve, At
  <2>2. engines[s] = NoEngine /\ row[s] # "gone" /\ s \notin stopping' /\ UNCHANGED <<row, engines>>
    BY <1>0, <1>11 DEF StartReserve, StartRefused, Posed, At, adapter
  <2>3. Active(t, s)' => Posed(t, s)'
    BY <2>1, <2>2 DEF Posed, Launching, At
  <2> QED BY <1>2, <1>4, <1>8, <1>11, <2>2, <2>3 DEF StartReserve, At, adapter
<1>12. ASSUME NEW r \in [Engines -> Resource], NEW rc, NEW rows, NEW errs, NEW st,
              LaunchFailed(t, "start", s, engines, rc, rows, errs, r, st),
              UNCHANGED owner, NoPin, engines[s] \in Engines, r[engines[s]] # "pinning",
              \A b \in Engines : b # engines[s] => r[b] = res[b]
       PROVE  Steady(s)'
  <2> DEFINE a == engines[s]
  <2>1. /\ engines' = [engines EXCEPT ![s] = NoEngine] /\ res' = Torn(r, a)
        /\ Become(t, "start", s, "evict", a)
    BY <1>0, <1>12 DEF LaunchFailed
  <2>2. engines'[s] = NoEngine
    BY <1>0, <2>1
  <2>3. res'[a] \notin Running /\ \A b \in Engines : b # a => res'[b] = res[b]
    BY <1>12, <2>1 DEF Torn, HasClient, Running
  <2>4. \A b \in Engines : owner[b] = s => res'[b] \notin Running
    BY <1>0, <2>3 DEF Kept
  <2>5. task'[t].pc = "evict"
    BY <2>1, BecomeFields
  <2>6. Posed(t, s)'
    BY <2>2, <2>5 DEF Posed, Launching, At
  <2> QED BY <1>4, <1>12, <2>4, <2>6 DEF Dead, Calmer
<1>13. ASSUME StartProceed(t)
       PROVE  Steady(s)'
  <2>1. engines[s] = NoEngine /\ NoPin /\ s \notin stopping' /\ row[s] # "gone"
    BY <1>0, <1>2, <1>13 DEF StartProceed, At, Posed
  <2>2. ASSUME NEW a \in Engines, NEW written, Register(t, "start", s, a, res, written)
        PROVE  Steady(s)'
    <3>1. PICK pc \in {"init", "initErr"} : Become(t, "start", s, pc, a)
      BY <2>2 DEF Register
    <3>2. task'[t].pc = pc /\ task'[t].eng = a
      BY <3>1, BecomeFields
    <3>3. /\ engines'[s] = a /\ owner' = [owner EXCEPT ![a] = s] /\ res' = [res EXCEPT ![a] = "created"]
          /\ row'[s] # "gone"
      BY <1>0, <2>1, <2>2 DEF Register, Write
    <3>4. res'[a] = "created" /\ \A b \in Engines : b # a => res'[b] = res[b] /\ owner'[b] = owner[b]
      BY <1>0, <3>3
    <3>5. Posed(t, s)'
      BY <2>1, <3>1, <3>2, <3>3, <3>4 DEF Posed, Launching, At
    <3>6. \A b \in Engines : owner'[b] = s => res'[b] \notin Running
      BY <1>0, <2>1, <3>4 DEF Kept, Running
    <3>7. Kept(s)' /\ \A b \in Engines : owner'[b] = s => res'[b] # "pinning"
      BY <3>6 DEF Kept, Running
    <3> QED BY <1>0, <1>1, <3>5, <3>7, SteadyMove
  <2>3. ASSUME NEW rc, NEW rows, NEW errs, NEW st, UNCHANGED owner,
               LaunchFailed(t, "start", s, engines, rc, rows, errs, res, st)
        PROVE  Steady(s)'
    <3>1. Finish(t) /\ UNCHANGED <<engines, res>>
      BY <2>1, <2>3 DEF LaunchFailed, FinishLaunch
    <3> QED BY <1>4, <1>5, <1>8, <2>1, <2>3, <3>1
  <2> QED BY <1>0, <1>13, <2>2, <2>3 DEF StartProceed
<1>14. ASSUME LaunchAborted(t)
       PROVE  Steady(s)'
  <2>1. task[t].pc = "initErr" /\ engines[s] = e /\ e \in Engines /\ res[e] = "created" /\ NoPin
    BY <1>0, <1>2, <1>9, <1>14 DEF LaunchAborted, Posed, Launching, HasEngine
  <2>2. LaunchFailed(t, "start", s, engines, reconnect, row, errors, res, status) /\ UNCHANGED owner
    BY <1>0, <1>14 DEF LaunchAborted, LaunchFailed, Quiet, CallKinds
  <2> QED BY <1>0, <1>12, <2>1, <2>2
<1>15. ASSUME LaunchThrows(t)
       PROVE  Steady(s)'
  <2> DEFINE rc == IF IsLiveEngine(s, e) THEN CancelReconnect(reconnect, s) ELSE reconnect
             errs == IF IsLiveEngine(s, e) THEN errors \union {s} ELSE errors
             st == [status EXCEPT ![e] = "failed"]
  <2>1. task[t].pc = "launch" /\ engines[s] = e /\ e \in Engines /\ res[e] # "pinning"
    BY <1>0, <1>9, <1>15 DEF LaunchThrows, Posed, Launching, HasEngine
  <2>2. LaunchFailed(t, task[t].kind, s, engines, rc, Reported(e, "failed"), errs, Arrived(e), st)
        /\ UNCHANGED owner
    BY <1>0, <1>15 DEF LaunchThrows
  <2>3. task[t].kind = "start"
    BY <2>2 DEF LaunchFailed, Quiet, CallKinds
  <2>4. /\ Arrived(e) \in [Engines -> Resource] /\ Arrived(e)[e] # "pinning"
        /\ \A b \in Engines : b # e => Arrived(e)[b] = res[b]
    BY <1>0, <2>1 DEF Arrived, Resource
  <2>5. NoPin
    BY <1>3, <2>1
  <2>6. LaunchFailed(t, "start", s, engines, rc, Reported(e, "failed"), errs, Arrived(e), st)
    BY <2>2, <2>3
  <2> HIDE DEF e, rc, errs, st
  <2> QED BY <1>12, <2>1, <2>2, <2>4, <2>5, <2>6
<1>16. ASSUME Launch(t)
       PROVE  Steady(s)'
  <2>1. /\ task[t].pc = "init" /\ engines[s] = e /\ e \in Engines /\ NoPin /\ s \notin stopping /\ row[s] # "gone"
        /\ UNCHANGED <<owner, engines, stopping>>
    BY <1>0, <1>2, <1>9, <1>16 DEF Launch, Posed, Launching, HasEngine, service
  <2>2. task'[t].pc = "launch" /\ task'[t].eng = e /\ Active(t, s)'
    BY <1>0, <1>16, GotoFields DEF Launch, Active
  <2>3. row'[s] # "gone"
    BY <1>0, <1>16, <2>1 DEF Launch, Reported, Write
  <2>4. Posed(t, s)'
    BY <2>1, <2>2, <2>3 DEF Posed, Launching, At
  <2>5. res'[e] = "pinning" /\ \A b \in Engines : b # e => res'[b] = res[b]
    BY <1>0, <1>16, <2>1 DEF Launch
  <2>6. Kept(s)'
    BY <1>0, <2>1, <2>5 DEF Kept
  <2> QED BY <1>0, <1>1, <2>2, <2>4, <2>6, SteadyMove
<1>17. ASSUME LaunchResolves(t)
       PROVE  Steady(s)'
  <2>1. /\ engines[s] = e /\ e \in Engines /\ s \notin stopping /\ row[s] # "gone" /\ res[e] # "pinning"
        /\ UNCHANGED <<owner, engines, stopping, row>>
    BY <1>0, <1>9, <1>17 DEF LaunchResolves, Posed, Launching, HasEngine, service
  <2>2. NoPin
    BY <1>3, <2>1
  <2>3. task'[t].pc = "guard" /\ task'[t].eng = e
    BY <1>17, GotoFields DEF LaunchResolves
  <2>4. /\ \A b \in Engines : b # e => res'[b] = res[b]
        /\ res'[e] = IF res[e] = "launching" THEN "live" ELSE res[e]
    BY <1>0, <1>17, <2>1 DEF LaunchResolves, Arrived
  <2>5. Calmer
    BY <2>1, <2>4 DEF Calmer
  <2>6. Posed(t, s)'
    BY <2>1, <2>3, <2>4 DEF Posed, Launching, At
  <2> QED BY <1>4, <2>1, <2>2, <2>5, <2>6
<1>18. ASSUME Guard(t)
       PROVE  Steady(s)'
  <2>1. ~Retired(s) /\ NoPin
    BY <1>0, <1>2, <1>18 DEF Guard, Posed, Launching, Retired
  <2>2. Finish(t) /\ UNCHANGED <<res, engines, owner>>
    BY <1>0, <1>18, <2>1 DEF Guard, FinishLaunch
  <2> QED BY <1>4, <1>5, <1>8, <2>1, <2>2
<1>19. ASSUME GuardUndone(t)
       PROVE  Steady(s)'
  BY <1>0, <1>19 DEF GuardUndone, Posed
<1>20. ASSUME NEW a \in Engines, res' = Settled(a)
       PROVE  Calmer
  BY <1>7, <1>20 DEF Calmer, Running
<1>21. ASSUME Evicted(t)
       PROVE  Steady(s)'
  <2>1. e \in Engines /\ NoPin
    BY <1>2, <1>9, <1>21 DEF Evicted, HasEngine
  <2> QED BY <1>4, <1>5, <1>20, <1>21, <2>1 DEF Evicted, FinishLaunch
<1>22. ASSUME TeardownStarts(t)
       PROVE  Steady(s)'
  <2>1. NoPin /\ UNCHANGED <<engines, owner>>
    BY <1>2, <1>22 DEF TeardownStarts
  <2>2. ASSUME UNCHANGED res, Finish(t) \/ (task[t].kind = "delete" /\ Goto(t, "hook", NoEngine))
        PROVE  Steady(s)'
    <3>1. Active(t, s)' => Posed(t, s)'
      BY <1>5, <1>6, <2>2 DEF Posed, Launching, At
    <3> QED BY <1>4, <1>8, <2>1, <2>2, <3>1
  <2>3. ASSUME engines[s] \in Engines, res' = Torn(res, engines[s]), Goto(t, "down", engines[s])
        PROVE  Steady(s)'
    <3>1. PICK a \in Engines : a = engines[s]
      BY <2>3
    <3>2. owner[a] = s /\ res[a] # "pinning"
      BY <1>0, <2>1, <3>1 DEF Owned, NoPin
    <3>3. res'[a] \notin Running /\ \A b \in Engines : b # a => res'[b] = res[b]
      BY <1>7, <2>3, <3>1, <3>2 DEF HasClient, Running
    <3>4. Calmer
      BY <3>3 DEF Calmer
    <3>5. Active(t, s)' => Posed(t, s)'
      BY <1>6, <2>1, <2>3, <3>1, <3>3 DEF Posed, Launching, At
    <3> QED BY <1>4, <2>1, <3>4, <3>5
  <2> QED BY <1>0, <1>22, <2>2, <2>3 DEF TeardownStarts
<1>23. ASSUME Stopped(t) \/ DeleteTornDown(t)
       PROVE  Steady(s)'
  <2>1. task[t].pc = "down" /\ engines[s] = e /\ e \in Engines /\ res[e] \notin Running /\ NoPin
        /\ res' = Settled(e) /\ UNCHANGED owner
    BY <1>0, <1>2, <1>9, <1>23 DEF Stopped, DeleteTornDown, At, Posed, HasEngine
  <2>2. \A b \in Engines : owner[b] = s => res[b] \notin Running
    BY <1>0, <2>1 DEF Kept
  <2>3. \A b \in Engines : owner[b] = s => res'[b] \notin Running
    BY <1>7, <2>1, <2>2 DEF Running
  <2>4. Active(t, s)' => Posed(t, s)'
    BY <1>5, <1>6, <1>23 DEF Stopped, DeleteTornDown, Posed, Launching, At
  <2> QED BY <1>4, <1>20, <2>1, <2>3, <2>4 DEF Dead
<1>24. ASSUME Deleted(t)
       PROVE  Steady(s)'
  BY <1>2, <1>4, <1>5, <1>8, <1>24 DEF Deleted, At, adapter
<1>25. ASSUME GuardRejects(t)
       PROVE  Steady(s)'
  <2>1. /\ UNCHANGED <<engines, stopping, owner, res, row>>
        /\ FinishLaunch(t) /\ task[t].pc = "guard"
    BY <1>25, QuietReject
  <2> QED BY <1>2, <1>4, <1>5, <1>8, <2>1 DEF FinishLaunch
<1> QED BY <1>10, <1>11, <1>13, <1>14, <1>15, <1>16, <1>17, <1>18, <1>19, <1>21, <1>22, <1>23, <1>24,
           <1>25 DEF TaskStep

\* A call of one session leaves the row and the adapters of another one alone.
LEMMA Elsewhere ==
  ASSUME TypeOK, Holding, Quiet, Owned, NEW s \in Sessions, NEW t \in Tasks, task[t].sess # s,
         TaskStep(t), ~Reconnect(t)
  PROVE  /\ row'[s] = row[s]
         /\ \A b \in Engines : owner'[b] = s => owner[b] = s /\ res'[b] = res[b]
<1> DEFINE q == task[t].sess
           e == task[t].eng
           Mine(r) == \A b \in Engines : owner[b] = s => r[b] = res[b]
<1>0. /\ q \in Sessions /\ q # s /\ engines \in [Sessions -> Engines \union {NoEngine}]
      /\ res \in [Engines -> Resource] /\ row \in [Sessions -> RowStatus] /\ NoEngine \notin Engines
      /\ e \in Engines \union {NoEngine} /\ owner \in [Engines -> Sessions]
  BY TaskType, ConstantsAssumption DEF TypeOK
<1>1. (engines[q] \in Engines => owner[engines[q]] = q) /\ (e \in Engines => owner[e] = q)
  BY <1>0 DEF Owned
<1>2. task[t].pc \in HasEngine => e \in Engines
  BY DEF Holding
<1>3. ASSUME NEW rows \in [Sessions -> RowStatus], NEW st
      PROVE  Write(rows, q, st)[s] = rows[s]
  BY <1>0, <1>3 DEF Write
<1>4. ASSUME NEW a \in Engines, owner[a] = q
      PROVE  /\ \A st : Reported(a, st)[s] = row[s]
             /\ RowAfterTeardown(a)[s] = row[s]
             /\ \A r \in [Engines -> Resource] : Mine(r) => Mine(Torn(r, a))
             /\ Mine(Arrived(a)) /\ Mine(Settled(a))
  <2>1. \A st : Reported(a, st)[s] = row[s]
    BY <1>0, <1>3, <1>4 DEF Reported
  <2>2. RowAfterTeardown(a)[s] = row[s]
    BY <2>1 DEF RowAfterTeardown
  <2>3. \A b \in Engines : owner[b] = s => b # a
    BY <1>0, <1>4
  <2>4. \A r \in [Engines -> Resource] : Mine(r) => Mine(Torn(r, a))
    BY <2>3 DEF Torn
  <2>5. Mine(Arrived(a)) /\ Mine(Settled(a))
    BY <1>0, <2>3 DEF Arrived, Settled
  <2> HIDE DEF Mine
  <2> QED BY <2>1, <2>2, <2>4, <2>5
<1>6. Mine(res)
  OBVIOUS
<1> DEFINE Goal == /\ row'[s] = row[s]
                   /\ \A b \in Engines : owner'[b] = s => owner[b] = s /\ res'[b] = res[b]
<1>7. ASSUME UNCHANGED owner, res' = res, row'[s] = row[s]
      PROVE  Goal
  BY <1>7
<1>8. ASSUME UNCHANGED owner, Mine(res'), row'[s] = row[s]
      PROVE  Goal
  BY <1>8
<1> HIDE DEF Mine, Goal
<1>9. ASSUME NEW rc, NEW rows \in [Sessions -> RowStatus], NEW errs, NEW r \in [Engines -> Resource], NEW st,
             LaunchFailed(t, "start", q, engines, rc, rows, errs, r, st), UNCHANGED owner,
             Mine(r), rows[s] = row[s]
      PROVE  Goal
  <2>1. row' = rows /\ (res' = r \/ (engines[q] \in Engines /\ res' = Torn(r, engines[q])))
    BY <1>0, <1>9 DEF LaunchFailed
  <2>2. engines[q] \in Engines => Mine(Torn(r, engines[q]))
    BY <1>1, <1>4, <1>9
  <2> QED BY <1>8, <1>9, <2>1, <2>2
<1>10. ASSUME StartReject(t) \/ StartReserve(t)
       PROVE  Goal
  BY <1>7, <1>10 DEF StartReject, StartReserve, adapter
<1>11. ASSUME StartProceed(t)
       PROVE  Goal
  <2>1. ASSUME NEW a \in Engines, NEW written, Register(t, "start", q, a, res, written)
        PROVE  Goal
    <3>1. row'[s] = row[s] /\ owner' = [owner EXCEPT ![a] = q] /\ res' = [res EXCEPT ![a] = "created"]
      BY <1>3, <1>0, <2>1 DEF Register
    <3> QED BY <1>0, <3>1 DEF Goal
  <2> QED BY <1>0, <1>6, <1>9, <1>11, <2>1 DEF StartProceed
<1>12. ASSUME LaunchAborted(t)
       PROVE  Goal
  <2>1. LaunchFailed(t, "start", q, engines, reconnect, row, errors, res, status) /\ UNCHANGED owner
    BY <1>0, <1>12 DEF LaunchAborted, LaunchFailed, Quiet, CallKinds
  <2> QED BY <1>0, <1>6, <1>9, <2>1
<1>13. ASSUME LaunchThrows(t)
       PROVE  Goal
  <2> DEFINE rc == IF IsLiveEngine(q, e) THEN CancelReconnect(reconnect, q) ELSE reconnect
             errs == IF IsLiveEngine(q, e) THEN errors \union {q} ELSE errors
             st == [status EXCEPT ![e] = "failed"]
             rows == Reported(e, "failed")
             r == Arrived(e)
  <2>1. LaunchFailed(t, task[t].kind, q, engines, rc, rows, errs, r, st) /\ UNCHANGED owner
        /\ task[t].pc = "launch"
    BY <1>13 DEF LaunchThrows
  <2>2. e \in Engines /\ owner[e] = q
    BY <1>1, <1>2, <2>1 DEF HasEngine
  <2>3. rows \in [Sessions -> RowStatus] /\ rows[s] = row[s]
    BY <1>0, <1>4, <2>2, ReportedType, WriteType DEF Reported, RowStatus, Status
  <2>4. r \in [Engines -> Resource] /\ Mine(r)
    BY <1>0, <1>4, <2>2 DEF Arrived, Resource
  <2>5. LaunchFailed(t, "start", q, engines, rc, rows, errs, r, st)
    BY <2>1 DEF LaunchFailed, Quiet, CallKinds
  <2> HIDE DEF e, rc, errs, st, rows, r
  <2> QED BY <1>9, <2>1, <2>3, <2>4, <2>5
<1>14. ASSUME Launch(t)
       PROVE  Goal
  <2>1. e \in Engines /\ owner[e] = q /\ UNCHANGED owner /\ res' = [res EXCEPT ![e] = "pinning"]
        /\ row' = Reported(e, "initializing")
    BY <1>1, <1>2, <1>14 DEF Launch, HasEngine
  <2>2. Mine(res')
    BY <1>0, <2>1 DEF Mine
  <2> QED BY <1>4, <1>8, <2>1, <2>2
<1>15. ASSUME LaunchResolves(t)
       PROVE  Goal
  BY <1>1, <1>2, <1>4, <1>8, <1>15 DEF LaunchResolves, HasEngine
<1>16. ASSUME Guard(t)
       PROVE  Goal
  BY <1>0, <1>1, <1>4, <1>6, <1>7, <1>8, <1>16 DEF Guard
<1>17. ASSUME GuardUndone(t) \/ DeleteTornDown(t)
       PROVE  Goal
  BY <1>1, <1>2, <1>4, <1>8, <1>17 DEF GuardUndone, DeleteTornDown, HasEngine, At
<1>18. ASSUME Evicted(t) \/ Stopped(t)
       PROVE  Goal
  BY <1>0, <1>1, <1>2, <1>3, <1>4, <1>8, <1>18 DEF Evicted, Stopped, FinalWrite, HasEngine
<1>19. ASSUME TeardownStarts(t)
       PROVE  Goal
  BY <1>0, <1>1, <1>3, <1>4, <1>6, <1>7, <1>8, <1>19 DEF TeardownStarts, FinalWrite
<1>20. ASSUME Deleted(t)
       PROVE  Goal
  BY <1>0, <1>7, <1>20 DEF Deleted, adapter
<1>21. ASSUME GuardRejects(t)
       PROVE  Goal
  BY <1>7, <1>21, QuietReject
<1> QED BY <1>10, <1>11, <1>12, <1>13, <1>14, <1>15, <1>16, <1>17, <1>18, <1>19, <1>20, <1>21
        DEF TaskStep, Goal

LEMMA SteadyNext ==
  ASSUME TypeOK, Holding, Quiet, Owned, NEW s \in Serial, Steady(s), [Next]_vars
  PROVE  Steady(s)'
<1>0. s \in Sessions /\ Owned' /\ owner \in [Engines -> Sessions] /\ res \in [Engines -> Resource]
      /\ row \in [Sessions -> RowStatus] /\ NoEngine \notin Engines
  BY OwnedNext, ConstantsAssumption DEF TypeOK
<1>1. ASSUME NEW t \in Tasks, NEW kind \in CallKinds, NEW q \in Sessions, Call(t, kind, q)
      PROVE  Steady(s)'
  <2>1. /\ task'[t].sess = q /\ task'[t].pc = "check" /\ \A u \in Tasks \ {t} : task'[u] = task[u]
        /\ UNCHANGED <<engines, stopping, owner, res, row>> /\ task[t].pc = "idle" /\ row[q] # "gone"
    BY <1>1, BecomeFields DEF Call, service, adapter
  <2>2. CASE q # s
    <3>1. \A u \in Tasks : Active(u, s) \/ Active(u, s)' => task'[u] = task[u]
      BY <2>1, <2>2 DEF Active
    <3> QED BY <1>0, <2>1, <3>1, SteadyStays
  <2>3. CASE q = s
    <3>1. \A u \in Tasks : ~Active(u, s)
      BY <1>1, <2>3 DEF Call, Active, Quiet, CallKinds
    <3>2. \A u \in Tasks : Active(u, s)' => u = t
      BY <2>1, <3>1 DEF Active
    <3>3. Posed(t, s)'
      BY <2>1, <2>3 DEF Posed, Launching, At
    <3>4. Kept(s)' /\ Pinned(s)' /\ Alone(s)'
      BY <2>1, <3>1, <3>2 DEF Steady, Kept, Pinned, Alone
    <3> QED BY <3>2, <3>3, <3>4 DEF Steady
  <2> QED BY <2>2, <2>3
<1>2. ASSUME NEW t \in Tasks, TaskStep(t), ~Reconnect(t)
      PROVE  Steady(s)'
  <2>1. CASE task[t].sess = s
    BY <1>0, <1>2, <2>1, SteadyOwn, TaskGoesOn DEF Active
  <2>2. CASE task[t].sess # s
    <3>1. \A u \in Tasks : Active(u, s) \/ Active(u, s)' => task'[u] = task[u]
      <4>1. ~Active(t, s) /\ ~Active(t, s)' /\ \A u \in Tasks \ {t} : task'[u] = task[u]
        <5>1. /\ \A u \in Tasks \ {t} : task'[u] = task[u]
              /\ task'[t] = Idle \/ task'[t].sess = task[t].sess
          BY <1>2, TaskGoesOn
        <5>2. Idle.pc = "idle"
          BY DEF Idle
        <5> QED BY <2>2, <5>1, <5>2 DEF Active
      <4> QED BY <4>1
    <3>2. engines'[s] = engines[s] /\ (s \in stopping' => s \in stopping)
      BY <1>0, <1>2, <2>2, OthersUntouched
    <3> QED BY <1>0, <1>2, <2>2, <3>1, <3>2, Elsewhere, SteadyStays
  <2> QED BY <2>1, <2>2
<1>3. ASSUME NEW e \in Engines, EngineStep(e)
      PROVE  Steady(s)'
  <2>1. UNCHANGED <<engines, stopping, owner, task>>
    BY <1>3 DEF EngineStep, ClientBuilt, EnginePairing, EngineReady, EngineDisconnected, EngineStuck,
                Dropped, EngineAuthFailure, service
  <2>2. row'[s] = "gone" => row[s] = "gone"
    BY <1>0, <1>3 DEF EngineStep, ClientBuilt, EnginePairing, EngineReady, EngineDisconnected,
       EngineStuck, Dropped, EngineAuthFailure, ScheduleReconnect, Reported, Write, TypeOK
  <2>3. \A a \in Engines : \/ res'[a] = res[a]
                           \/ res[a] = "pinning" /\ res'[a] = "launching"
                           \/ res[a] # "created" /\ res'[a] = "closed"
    BY <1>0, <1>3 DEF EngineStep, ClientBuilt, EnginePairing, EngineReady, EngineDisconnected,
       EngineStuck, Dropped, EngineAuthFailure
  <2> QED BY <1>0, <2>1, <2>2, <2>3, SteadyStays
<1>4. CASE Restart
  BY <1>0, <1>4 DEF Restart, Steady, Alone, Active, Kept, Pinned, Idle, Running
<1>5. CASE UNCHANGED vars
  BY <1>0, <1>5, SteadyStays DEF vars
<1> QED BY <1>1, <1>2, <1>3, <1>4, <1>5, QuietSteps

LEMMA BooksInit == Init => Owned /\ \A s \in Serial : Steady(s)
BY ConstantsAssumption
DEF Init, ProcessMemoryEmpty, Owned, Steady, Alone, Active, Kept, Pinned, Idle, Running

\* No adapter is lost: where reconnecting is off and the calls of a session come one at a
\* time, its client never outlives its entry in the map, through failing creates, failing
\* writes and launches that throw, whatever the other sessions do.
THEOREM NoAdapterOrphaned == ASSUME MaxAttempts = 0 PROVE Spec => []NoOrphan
<1> DEFINE Books == Owned /\ \A s \in Serial : Steady(s)
<1>1. Init => Quiet /\ Books
  BY QuietInit, BooksInit
<1>2. TypeOK /\ Holding /\ Quiet /\ Books /\ [Next]_vars => (Quiet /\ Books)'
  BY QuietNext, OwnedNext, SteadyNext
<1>3. Books => NoOrphan
  BY DEF NoOrphan, Steady, Kept
<1> HIDE DEF Books
<1> QED BY <1>1, <1>2, <1>3, TypeInvariant, PTL DEF Spec

-----------------------------------------------------------------------------
\* The row of such a session, where creates and writes do not fail: it says that the session
\* runs without an engine only while a handler that will correct it is under way.
RowKept(s) ==
  row[s] \in ActiveStatus /\ engines[s] = NoEngine =>
    \E t \in Tasks : Active(t, s) /\ (task[t].pc = "evict" \/ At(t, "delete", "hook"))

\* Its own call: it puts the entry in, or writes the row last.
LEMMA RowOwn ==
  ASSUME ~Faults, TypeOK, Holding, Quiet, Owned, NEW s \in Sessions, Steady(s), RowKept(s),
         NEW t \in Tasks, Active(t, s), TaskStep(t), ~Reconnect(t)
  PROVE  RowKept(s)'
<1>0. /\ s = task[t].sess /\ Posed(t, s) /\ Alone(s)
      /\ engines \in [Sessions -> Engines \union {NoEngine}] /\ row \in [Sessions -> RowStatus]
      /\ NoEngine \notin Engines /\ task[t].kind # "rec"
  BY TaskType, ConstantsAssumption DEF Steady, Active, TypeOK, Quiet, CallKinds
<1>1. task[t].pc # "evict" /\ ~At(t, "delete", "hook") => ~(row[s] \in ActiveStatus /\ engines[s] = NoEngine)
  BY <1>0 DEF RowKept, Alone
<1>2. ASSUME engines'[s] # NoEngine \/ row'[s] \notin ActiveStatus
      PROVE  RowKept(s)'
  BY <1>2 DEF RowKept
<1>3. ASSUME NEW pc, NEW a, Goto(t, pc, a), pc = "evict" \/ (task[t].kind = "delete" /\ pc = "hook")
      PROVE  RowKept(s)'
  <2>1. /\ task'[t].kind = task[t].kind /\ task'[t].sess = s /\ task'[t].pc = pc
    BY <1>0, <1>3, GotoFields
  <2> QED BY <1>3, <2>1 DEF RowKept, Active, At
<1>4. ASSUME NEW rc, NEW rows, NEW errs, NEW r, NEW st, engines[s] # NoEngine,
             LaunchFailed(t, task[t].kind, s, engines, rc, rows, errs, r, st)
      PROVE  RowKept(s)'
  <2>1. Goto(t, "evict", engines[s])
    BY <1>0, <1>4 DEF LaunchFailed, Goto
  <2> QED BY <1>3, <2>1
<1>5. ASSUME NEW rows \in [Sessions -> RowStatus], NEW st \in {"failed", "disconnected"},
             row' = Write(rows, s, st)
      PROVE  RowKept(s)'
  BY <1>2, <1>5 DEF Write, ActiveStatus
<1>6. ASSUME StartReject(t) \/ StartReserve(t)
      PROVE  RowKept(s)'
  BY <1>1, <1>2, <1>6 DEF StartReject, StartReserve, At, service, adapter
<1>7. ASSUME StartProceed(t)
      PROVE  RowKept(s)'
  BY <1>0, <1>2, <1>7 DEF StartProceed, Register
<1>8. ASSUME LaunchAborted(t)
      PROVE  RowKept(s)'
  <2>1. engines[s] # NoEngine
    BY <1>0, <1>8 DEF LaunchAborted, Posed, Launching, Holding, HasEngine
  <2> QED BY <1>0, <1>4, <1>8, <2>1 DEF LaunchAborted
<1>9. ASSUME LaunchThrows(t)
      PROVE  RowKept(s)'
  <2> DEFINE e == task[t].eng
             rc == IF IsLiveEngine(s, e) THEN CancelReconnect(reconnect, s) ELSE reconnect
             errs == IF IsLiveEngine(s, e) THEN errors \union {s} ELSE errors
             st == [status EXCEPT ![e] = "failed"]
  <2>1. engines[s] # NoEngine
    BY <1>0, <1>9 DEF LaunchThrows, Posed, Launching, Holding, HasEngine
  <2>2. LaunchFailed(t, task[t].kind, s, engines, rc, Reported(e, "failed"), errs, Arrived(e), st)
    BY <1>0, <1>9 DEF LaunchThrows
  <2> HIDE DEF e, rc, errs, st
  <2> QED BY <1>4, <2>1, <2>2
<1>10. ASSUME Launch(t) \/ LaunchResolves(t) \/ Guard(t)
       PROVE  RowKept(s)'
  <2>1. engines[s] # NoEngine /\ UNCHANGED engines
    BY <1>0, <1>10 DEF Launch, LaunchResolves, Guard, Posed, Launching, Holding, HasEngine, service
  <2> QED BY <1>2, <2>1
<1>11. ASSUME GuardUndone(t)
       PROVE  RowKept(s)'
  BY <1>0, <1>11 DEF GuardUndone, Posed
<1>12. ASSUME Evicted(t) \/ Stopped(t)
       PROVE  RowKept(s)'
  BY <1>0, <1>5, <1>12 DEF Evicted, Stopped, FinalWrite
<1>13. ASSUME TeardownStarts(t)
       PROVE  RowKept(s)'
  BY <1>0, <1>2, <1>3, <1>5, <1>13 DEF TeardownStarts, FinalWrite
<1>14. ASSUME DeleteTornDown(t)
       PROVE  RowKept(s)'
  BY <1>3, <1>14 DEF DeleteTornDown, At
<1>15. ASSUME Deleted(t)
       PROVE  RowKept(s)'
  BY <1>0, <1>2, <1>15 DEF Deleted, ActiveStatus
<1>16. ASSUME GuardRejects(t)
       PROVE  RowKept(s)'
  BY <1>16 DEF GuardRejects
<1> QED BY <1>6, <1>7, <1>8, <1>9, <1>10, <1>11, <1>12, <1>13, <1>14, <1>15, <1>16 DEF TaskStep

LEMMA RowStays ==
  ASSUME NEW s \in Sessions, RowKept(s), \A t \in Tasks : Active(t, s) => task'[t] = task[t],
         engines'[s] = engines[s], engines[s] = NoEngine => row'[s] = row[s]
  PROVE  RowKept(s)'
BY DEF RowKept, Active, At

LEMMA RowNext ==
  ASSUME ~Faults, TypeOK, Holding, Quiet, Owned, NEW s \in Serial, Steady(s), RowKept(s), [Next]_vars
  PROVE  RowKept(s)'
<1>0. s \in Sessions /\ row \in [Sessions -> RowStatus] /\ NoEngine \notin Engines
      /\ owner \in [Engines -> Sessions]
  BY ConstantsAssumption DEF TypeOK
<1>1. ASSUME NEW t \in Tasks, NEW kind \in CallKinds, NEW q \in Sessions, Call(t, kind, q)
      PROVE  RowKept(s)'
  <2>1. UNCHANGED <<engines, row>> /\ task[t].pc = "idle" /\ \A u \in Tasks \ {t} : task'[u] = task[u]
    BY <1>1, BecomeFields DEF Call, service
  <2>2. \A u \in Tasks : Active(u, s) => task'[u] = task[u]
    BY <2>1 DEF Active
  <2> QED BY <1>0, <2>1, <2>2, RowStays
<1>2. ASSUME NEW t \in Tasks, TaskStep(t), ~Reconnect(t)
      PROVE  RowKept(s)'
  <2>1. CASE task[t].sess = s
    BY <1>0, <1>2, <2>1, RowOwn, TaskGoesOn DEF Active
  <2>2. CASE task[t].sess # s
    <3>1. \A u \in Tasks : Active(u, s) => task'[u] = task[u]
      <4>1. \A u \in Tasks \ {t} : task'[u] = task[u]
        BY <1>2, TaskGoesOn
      <4> QED BY <2>2, <4>1 DEF Active
    <3>2. engines'[s] = engines[s]
      BY <1>0, <1>2, <2>2, OthersUntouched
    <3> QED BY <1>0, <1>2, <2>2, <3>1, <3>2, Elsewhere, RowStays
  <2> QED BY <2>1, <2>2
<1>3. ASSUME NEW e \in Engines, EngineStep(e)
      PROVE  RowKept(s)'
  <2>1. UNCHANGED <<engines, task>>
    BY <1>3 DEF EngineStep, ClientBuilt, EnginePairing, EngineReady, EngineDisconnected, EngineStuck,
                Dropped, EngineAuthFailure, service
  <2>2. engines[s] = NoEngine => row'[s] = row[s]
    BY <1>0, <1>3 DEF EngineStep, ClientBuilt, EnginePairing, EngineReady, EngineDisconnected,
       EngineStuck, Dropped, EngineAuthFailure, ScheduleReconnect, Reported, IsLiveEngine, Write
  <2> QED BY <1>0, <2>1, <2>2, RowStays
<1>4. CASE Restart
  BY <1>0, <1>4 DEF Restart, RowKept, ActiveStatus
<1>5. CASE UNCHANGED vars
  BY <1>0, <1>5, RowStays DEF vars
<1> QED BY <1>1, <1>2, <1>3, <1>4, <1>5, QuietSteps

\* What the service keeps of a session is so: where reconnecting is off and creates and
\* writes do not fail, a session whose calls come one at a time has its adapter in the map,
\* and at rest its row does not say more than the map, through launches that throw and
\* restarts.
THEOREM BooksAreHonest == ASSUME MaxAttempts = 0, ~Faults PROVE Spec => []BooksHonest
<1> DEFINE Books == Owned /\ \A s \in Serial : Steady(s) /\ RowKept(s)
<1>1. Init => Quiet /\ Books
  <2>1. Init => \A s \in Serial : RowKept(s)
    BY ConstantsAssumption DEF Init, RowKept, ActiveStatus
  <2> QED BY <2>1, QuietInit, BooksInit
<1>2. TypeOK /\ Holding /\ Quiet /\ Books /\ [Next]_vars => (Quiet /\ Books)'
  BY QuietNext, OwnedNext, SteadyNext, RowNext
<1>3. Books => BooksHonest
  BY DEF BooksHonest, NoOrphan, RowHonest, Steady, Kept, RowKept, AtRest, Active
<1> HIDE DEF Books
<1> QED BY <1>1, <1>2, <1>3, TypeInvariant, PTL DEF Spec
=============================================================================
