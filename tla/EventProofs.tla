------------------------------ MODULE EventProofs ------------------------------
(***************************************************************************)
(* Theorems about an event's way out, through the plugins and to the       *)
(* webhooks: WebhookDelivery for any number of deliveries, workers,        *)
(* retries and restarts; HookDispatch for any plugins, workers, events,    *)
(* executions and capability calls at once.                                *)
(***************************************************************************)
EXTENDS WebhookDelivery, HookDispatch, SequenceTheorems, FiniteSetTheorems,
        NaturalsInduction, WellFoundedInduction, TLAPS

-----------------------------------------------------------------------------
(***************************************************************************)
(* The webhooks.                                                           *)
(***************************************************************************)

\* The inductive invariant: the attempt a way is at bounds its POSTs, with one to spare
\* while a POST is still to come; a failure record ends the way that made it; and a way
\* that is not over has not used up its stalls.
ToPost == {"queued", "posting", "backoff"}

WayInv(d, w) ==
  /\ path[d][w].pc = "none" => path[d][w].attempt = 0 /\ posts[d][w] = 0
  /\ path[d][w].pc # "none" => path[d][w].attempt >= 1
  /\ posts[d][w] <= path[d][w].attempt + path[d][w].stalls
  /\ path[d][w].pc \in ToPost => posts[d][w] < path[d][w].attempt + path[d][w].stalls
  /\ <<d, w>> \in failures => path[d][w].pc = "failed"
  /\ path[d][w].pc # "failed" => path[d][w].stalls <= MaxStalls

\* Where dispatch() is tells which ways it can have taken.
DispatchInv(d) ==
  /\ dispatch[d] \in {"new", "hook"} => \A w \in Ways : path[d][w].pc = "none"
  /\ dispatch[d] = "adding" => path[d]["direct"].pc = "none"
  /\ dispatch[d] = "handed" => \E w \in Ways : path[d][w].pc # "none"

Inv ==
  /\ TypeOK
  /\ \A d \in Deliveries : DispatchInv(d) /\ \A w \in Ways : WayInv(d, w)

-----------------------------------------------------------------------------
Way == [pc : Places, attempt : 0..Budget, stalls : 0..MaxStalls + 1]

LEMMA BudgetType == Budget \in Nat \ {0} /\ MaxStalls \in Nat /\ Retries \in Nat /\ MaxCrashes \in Nat
  BY WebhookAssumption DEF Budget

LEMMA WayType ==
  ASSUME TypeOK, NEW d \in Deliveries, NEW w \in Ways
  PROVE  /\ path[d][w] \in Way
         /\ path[d][w].attempt \in Nat /\ path[d][w].stalls \in Nat
         /\ posts[d][w] \in Nat
  BY BudgetType DEF TypeOK, Way

\* One record of the two-level map is replaced by r.
Replaced(d, w, r) ==
  /\ path' \in [Deliveries -> [Ways -> Way]]
  /\ path'[d][w] = r
  /\ \A e \in Deliveries, v \in Ways : <<e, v>> # <<d, w>> => path'[e][v] = path[e][v]

LEMMA Replace ==
  ASSUME TypeOK, NEW d \in Deliveries, NEW w \in Ways, NEW r \in Way,
         path' = [path EXCEPT ![d] = [path[d] EXCEPT ![w] = r]]
  PROVE  Replaced(d, w, r)
<1>1. path \in [Deliveries -> [Ways -> Way]]
  BY DEF TypeOK, Way
<1> QED BY <1>1 DEF Replaced

LEMMA GotoChanges ==
  ASSUME TypeOK, NEW d \in Deliveries, NEW w \in Ways, NEW pc \in Places, Goto(d, w, pc)
  PROVE  Replaced(d, w, [path[d][w] EXCEPT !.pc = pc])
<1> DEFINE r == [path[d][w] EXCEPT !.pc = pc]
<1>1. path' = [path EXCEPT ![d] = [path[d] EXCEPT ![w] = r]]
  BY DEF Goto
<1>2. r \in Way
  BY WayType DEF Way
<1> HIDE DEF r
<1>3. Replaced(d, w, r)
  BY <1>1, <1>2, Replace
<1> QED BY <1>3 DEF r

LEMMA TakeChanges ==
  ASSUME TypeOK, NEW d \in Deliveries, NEW w \in Ways, NEW pc \in Places, Take(d, w, pc)
  PROVE  Replaced(d, w, [path[d][w] EXCEPT !.pc = pc, !.attempt = 1])
<1> DEFINE r == [path[d][w] EXCEPT !.pc = pc, !.attempt = 1]
<1>0. path \in [Deliveries -> [Ways -> Way]]
  BY DEF TypeOK, Way
<1>1. path' = [path EXCEPT ![d] = [path[d] EXCEPT ![w] = r]]
  BY <1>0 DEF Take
<1>2. path[d][w] \in Way /\ 1 \in 0..Budget
  BY WayType, BudgetType
<1>3. r \in Way
  BY <1>2 DEF Way
<1> HIDE DEF r
<1>4. Replaced(d, w, r)
  BY <1>1, <1>3, Replace
<1> QED BY <1>4 DEF r

LEMMA ThrowsChanges ==
  ASSUME TypeOK, NEW d \in Deliveries, NEW w \in Ways, Throws(d, w)
  PROVE  \/ Replaced(d, w, [path[d][w] EXCEPT !.pc = "recording"])
         \/ Replaced(d, w, [path[d][w] EXCEPT !.pc = "backoff", !.attempt = @ + 1])
<1>1. CASE FinalAttempt(d, w)
  BY <1>1, GotoChanges DEF Throws, Goto, Places
<1>2. CASE ~FinalAttempt(d, w)
  <2> DEFINE r == [path[d][w] EXCEPT !.pc = "backoff", !.attempt = @ + 1]
  <2>0. path \in [Deliveries -> [Ways -> Way]]
    BY DEF TypeOK, Way
  <2>1. path' = [path EXCEPT ![d] = [path[d] EXCEPT ![w] = r]]
    BY <1>2, <2>0 DEF Throws
  <2>2. path[d][w].attempt + 1 \in 0..Budget
    BY <1>2, WayType, WebhookAssumption DEF FinalAttempt, Budget, Way
  <2>3. r \in Way
    BY <2>2, WayType DEF Way, Places
  <2> HIDE DEF r
  <2>4. Replaced(d, w, r)
    BY <2>1, <2>3, Replace
  <2> QED BY <2>4 DEF r
<1> QED BY <1>1, <1>2

LEMMA ReplacedKeeps ==
  ASSUME TypeOK, NEW d \in Deliveries, NEW w \in Ways, NEW r \in Way, Replaced(d, w, r)
  PROVE  path' \in [Deliveries -> [Ways -> [pc : Places, attempt : 0..Budget, stalls : 0..MaxStalls + 1]]]
  BY DEF Replaced, Way

-----------------------------------------------------------------------------
\* A step of one way keeps the invariant: the others do not notice it.

OthersKept(d, w) ==
  \A e \in Deliveries, v \in Ways : <<e, v>> # <<d, w>> =>
    /\ path'[e][v] = path[e][v]
    /\ posts'[e][v] = posts[e][v]
    /\ <<e, v>> \in failures' <=> <<e, v>> \in failures

LEMMA OneWay ==
  ASSUME Inv, TypeOK', NEW d \in Deliveries, NEW w \in Ways, OthersKept(d, w),
         WayInv(d, w)', \A e \in Deliveries : DispatchInv(e)'
  PROVE  Inv'
<1>1. ASSUME NEW e \in Deliveries, NEW v \in Ways
      PROVE  WayInv(e, v)'
  <2>1. CASE <<e, v>> = <<d, w>>
    BY <2>1
  <2>2. CASE <<e, v>> # <<d, w>>
    BY <2>2 DEF Inv, WayInv, OthersKept
  <2> QED BY <2>1, <2>2
<1> QED BY <1>1 DEF Inv

\* A way that was taken stays taken, so dispatch() need not be looked at again.
LEMMA StillTaken ==
  ASSUME Inv, NEW d \in Deliveries, NEW w \in Ways, UNCHANGED dispatch,
         \A e \in Deliveries, v \in Ways : <<e, v>> # <<d, w>> => path'[e][v] = path[e][v],
         path[d][w].pc # "none", path'[d][w].pc # "none"
  PROVE  \A e \in Deliveries : DispatchInv(e)'
  BY DEF Inv, DispatchInv, Ways

\* What an attempt leaves of its way: the record r, one POST more or none, a failure or none.
LEMMA WayMoves ==
  ASSUME Inv, NEW d \in Deliveries, NEW w \in Ways, NEW r, Replaced(d, w, r),
         UNCHANGED <<dispatch, crashes>>,
         path[d][w].pc # "none", r.pc # "none",
         posts' \in {posts, [posts EXCEPT ![d][w] = @ + 1]},
         failures' \in {failures, failures \union {<<d, w>>}},
         unrecorded' \in {unrecorded, unrecorded \union {<<d, w>>}},
         ok' \in {ok, ok \union {<<d, w>>}},
         unstamped' \in {unstamped, unstamped \union {<<d, w>>}},
         WayInv(d, w)'
  PROVE  Inv'
<1>1. TypeOK /\ path[d][w] \in Way /\ posts[d][w] \in Nat
  BY WayType DEF Inv
<1>2. posts' \in [Deliveries -> [Ways -> Nat]]
  <2>1. CASE posts' = [posts EXCEPT ![d][w] = @ + 1]
    BY <1>1, <2>1 DEF TypeOK
  <2> QED BY <1>1, <2>1 DEF TypeOK
<1>3. \A e \in Deliveries, v \in Ways : <<e, v>> # <<d, w>> => posts'[e][v] = posts[e][v]
  BY <1>1 DEF TypeOK
<1>4. TypeOK'
  BY <1>1, <1>2 DEF TypeOK, Replaced, Way
<1>5. OthersKept(d, w)
  BY <1>3 DEF OthersKept, Replaced
<1>6. \A e \in Deliveries : DispatchInv(e)'
  BY StillTaken DEF Replaced
<1> QED BY <1>4, <1>5, <1>6, OneWay

LEMMA WayKeepsInv ==
  ASSUME Inv, NEW d \in Deliveries, NEW w \in Ways, WayStep(d, w)
  PROVE  Inv'
<1> USE BudgetType
<1>1. TypeOK /\ WayInv(d, w)
  BY DEF Inv
<1>2. /\ path[d][w] \in Way /\ path[d][w].attempt \in Nat /\ path[d][w].stalls \in Nat
      /\ posts[d][w] \in Nat
  BY <1>1, WayType
<1>3. CASE AttemptStarts(d, w)
  <2>1. Replaced(d, w, [path[d][w] EXCEPT !.pc = "posting"])
    BY <1>1, <1>3, GotoChanges DEF AttemptStarts, Places
  <2>2. path'[d][w] = [path[d][w] EXCEPT !.pc = "posting"]
    BY <2>1 DEF Replaced
  <2>3. WayInv(d, w)'
    BY <1>1, <1>2, <1>3, <2>2 DEF AttemptStarts, WayInv, ToPost, Way, records
  <2>4. [path[d][w] EXCEPT !.pc = "posting"].pc # "none"
    BY <1>2 DEF Way
  <2> QED BY <1>3, <2>1, <2>3, <2>4, WayMoves DEF AttemptStarts, history, records
<1>4. posts \in [Deliveries -> [Ways -> Nat]]
  BY <1>1 DEF TypeOK
<1>5. ASSUME Throws(d, w), path[d][w].pc \in {"posting", "stamping"},
             \/ posts'[d][w] = posts[d][w] + 1 /\ path[d][w].pc = "posting"
             \/ posts'[d][w] = posts[d][w],
             failures' = failures
      PROVE  \E r \in Way : Replaced(d, w, r) /\ r.pc # "none" /\ WayInv(d, w)'
  <2>1. ASSUME NEW r, Replaced(d, w, r),
               \/ r = [path[d][w] EXCEPT !.pc = "recording"]
               \/ r = [path[d][w] EXCEPT !.pc = "backoff", !.attempt = @ + 1]
        PROVE  r \in Way /\ r.pc # "none" /\ WayInv(d, w)'
    <3>1. path'[d][w] = r /\ r \in Way
      BY <2>1 DEF Replaced
    <3>2. CASE r = [path[d][w] EXCEPT !.pc = "recording"]
      BY <1>1, <1>2, <1>5, <3>1, <3>2 DEF WayInv, ToPost, Way
    <3>3. CASE r = [path[d][w] EXCEPT !.pc = "backoff", !.attempt = @ + 1]
      BY <1>1, <1>2, <1>5, <3>1, <3>3 DEF WayInv, ToPost, Way
    <3> QED BY <2>1, <3>1, <3>2, <3>3
  <2> QED BY <1>1, <1>5, <2>1, ThrowsChanges
<1>6. CASE PostAccepted(d, w)
  <2> DEFINE r == [path[d][w] EXCEPT !.pc = "stamping"]
  <2>1. Replaced(d, w, r)
    BY <1>1, <1>6, GotoChanges DEF PostAccepted, Places
  <2>2. path'[d][w] = r
    BY <2>1 DEF Replaced
  <2>3. posts'[d][w] = posts[d][w] + 1
    BY <1>4, <1>6 DEF PostAccepted
  <2>4. WayInv(d, w)' /\ r.pc # "none"
    BY <1>1, <1>2, <1>6, <2>2, <2>3 DEF PostAccepted, WayInv, ToPost, Way, records
  <2> HIDE DEF r
  <2> QED BY <1>6, <2>1, <2>4, WayMoves DEF PostAccepted, records
<1>7. CASE PostFails(d, w)
  <2>1. posts'[d][w] = posts[d][w] + 1
    BY <1>4, <1>7 DEF PostFails
  <2>2. PICK r \in Way : Replaced(d, w, r) /\ r.pc # "none" /\ WayInv(d, w)'
    BY <1>5, <1>7, <2>1 DEF PostFails, records
  <2> QED BY <1>7, <2>2, WayMoves DEF PostFails, history, records
<1>8. CASE Stamped(d, w)
  <2>1. CASE Goto(d, w, "done")
    <3> DEFINE r == [path[d][w] EXCEPT !.pc = "done"]
    <3>1. Replaced(d, w, r)
      BY <1>1, <2>1, GotoChanges DEF Places
    <3>2. path'[d][w] = r
      BY <3>1 DEF Replaced
    <3>3. WayInv(d, w)' /\ r.pc # "none"
      BY <1>1, <1>2, <1>8, <3>2 DEF Stamped, WayInv, ToPost, Way, records
    <3> HIDE DEF r
    <3> QED BY <1>8, <3>1, <3>3, WayMoves DEF Stamped, records
  <2>2. CASE Throws(d, w)
    <3>1. PICK r \in Way : Replaced(d, w, r) /\ r.pc # "none" /\ WayInv(d, w)'
      BY <1>5, <1>8, <2>2 DEF Stamped, records
    <3> QED BY <1>8, <3>1, WayMoves DEF Stamped, records
  <2> QED BY <1>8, <2>1, <2>2 DEF Stamped
<1>9. CASE Recorded(d, w)
  <2> DEFINE r == [path[d][w] EXCEPT !.pc = "failed"]
  <2>1. Replaced(d, w, r)
    BY <1>1, <1>9, GotoChanges DEF Recorded, Places
  <2>2. path'[d][w] = r
    BY <2>1 DEF Replaced
  <2>3. WayInv(d, w)' /\ r.pc # "none"
    BY <1>1, <1>2, <1>9, <2>2 DEF Recorded, WayInv, ToPost, Way
  <2> HIDE DEF r
  <2> QED BY <1>9, <2>1, <2>3, WayMoves DEF Recorded, history
<1> QED BY <1>3, <1>6, <1>7, <1>8, <1>9 DEF WayStep

-----------------------------------------------------------------------------
\* The steps of dispatch(): a way is taken for the first time, or only the stage changes.

LEMMA ServiceKeepsInv ==
  ASSUME Inv, NEW d \in Deliveries, ServiceStep(d)
  PROVE  Inv'
<1> USE BudgetType
<1>0. TypeOK /\ dispatch \in [Deliveries -> Stages]
  BY DEF Inv, TypeOK
<1>1. ASSUME NEW stage \in Stages, Stage(d, stage), UNCHANGED <<path, posts, history, records, crashes>>,
             DispatchInv(d)'
      PROVE  Inv'
  <2>1. TypeOK'
    BY <1>0, <1>1 DEF TypeOK, Stage, history, records
  <2>2. \A e \in Deliveries : DispatchInv(e)'
    BY <1>0, <1>1 DEF Inv, DispatchInv, Stage
  <2>3. \A e \in Deliveries, v \in Ways : WayInv(e, v)'
    BY <1>1 DEF Inv, WayInv, records
  <2> QED BY <2>1, <2>2, <2>3 DEF Inv
<1>2. ASSUME NEW w \in Ways, NEW pc \in {"queued", "posting"}, Take(d, w, pc),
             path[d][w].pc = "none", UNCHANGED <<posts, history, records, crashes>>,
             NEW stage \in Stages, dispatch' = [dispatch EXCEPT ![d] = stage],
             stage = "handed" \/ (stage = "adding" /\ w = "job" /\ dispatch[d] = "adding")
      PROVE  Inv'
  <2> DEFINE r == [path[d][w] EXCEPT !.pc = pc, !.attempt = 1]
  <2>1. Replaced(d, w, r)
    BY <1>0, <1>2, TakeChanges DEF Places
  <2>2. path[d][w] \in Way /\ WayInv(d, w) /\ DispatchInv(d)
    BY <1>0, WayType DEF Inv
  <2>3. path'[d][w] = r /\ path'[d][w].pc = pc
    BY <2>1, <2>2 DEF Replaced, Way
  <2>4. WayInv(d, w)'
    BY <1>2, <2>2, <2>3 DEF WayInv, ToPost, Way, records
  <2>5. TypeOK'
    BY <1>0, <1>2, <2>1 DEF TypeOK, history, records, Replaced, Way
  <2>6. OthersKept(d, w)
    BY <1>2, <2>1 DEF OthersKept, Replaced, records
  <2>7. ASSUME NEW e \in Deliveries
        PROVE  DispatchInv(e)'
    <3>1. CASE e = d
      BY <1>0, <1>2, <2>1, <2>2, <2>3, <3>1 DEF DispatchInv, Replaced, Ways
    <3>2. CASE e # d
      <4>1. dispatch'[e] = dispatch[e] /\ \A v \in Ways : path'[e][v] = path[e][v]
        BY <1>0, <1>2, <2>1, <3>2 DEF Replaced
      <4>2. DispatchInv(e)
        BY DEF Inv
      <4> QED BY <4>1, <4>2 DEF DispatchInv, Ways
    <3> QED BY <3>1, <3>2
  <2> QED BY <2>4, <2>5, <2>6, <2>7, OneWay
<1>3. DispatchInv(d)
  BY DEF Inv
<1>4. CASE LookUp(d)
  <2>1. PICK stage \in {"hook", "dropped"} : Stage(d, stage)
    BY <1>4 DEF LookUp
  <2>2. stage \in Stages /\ dispatch'[d] = stage
    BY <1>0, <2>1 DEF Stage, Stages
  <2>3. DispatchInv(d)'
    BY <1>3, <1>4, <2>2, <2>1 DEF DispatchInv, LookUp
  <2> QED BY <1>1, <1>4, <2>1, <2>2, <2>3 DEF LookUp
<1>5. CASE HookReturns(d)
  <2>1. CASE \E stage \in {"dropped", "poisoned", "adding"} : Stage(d, stage) /\ UNCHANGED path
    <3>1. PICK stage \in {"dropped", "poisoned", "adding"} : Stage(d, stage) /\ UNCHANGED path
      BY <2>1
    <3>2. stage \in Stages /\ dispatch'[d] = stage
      BY <1>0, <3>1 DEF Stage, Stages
    <3>3. DispatchInv(d)'
      BY <1>3, <1>5, <3>1, <3>2 DEF DispatchInv, HookReturns, Ways
    <3> QED BY <1>1, <1>5, <3>1, <3>2, <3>3 DEF HookReturns
  <2>2. CASE Stage(d, "handed") /\ Take(d, "direct", "posting")
    <3>1. path[d]["direct"].pc = "none" /\ "direct" \in Ways /\ "handed" \in Stages
      BY <1>3, <1>5 DEF DispatchInv, HookReturns, Ways, Stages
    <3> QED BY <1>2, <1>5, <2>2, <3>1 DEF HookReturns, Stage
  <2> QED BY <1>5, <2>1, <2>2 DEF HookReturns
<1>6. CASE JobAdded(d)
  <2>1. "job" \in Ways /\ "adding" \in Stages /\ dispatch' = [dispatch EXCEPT ![d] = "adding"]
    BY <1>0, <1>6 DEF JobAdded, Ways, Stages
  <2> QED BY <1>2, <1>6, <2>1 DEF JobAdded
<1>7. CASE AddResolves(d)
  <2>1. "handed" \in Stages /\ dispatch'[d] = "handed" /\ "job" \in Ways
    BY <1>0, <1>7 DEF AddResolves, Stage, Stages, Ways
  <2>2. DispatchInv(d)'
    BY <1>7, <2>1 DEF DispatchInv, AddResolves
  <2> QED BY <1>1, <1>7, <2>1, <2>2 DEF AddResolves
<1>8. CASE AddRejects(d)
  <2>1. path[d]["direct"].pc = "none" /\ "direct" \in Ways /\ "handed" \in Stages
    BY <1>3, <1>8 DEF DispatchInv, AddRejects, Ways, Stages
  <2> QED BY <1>2, <1>8, <2>1 DEF AddRejects, Stage
<1> QED BY <1>4, <1>5, <1>6, <1>7, <1>8 DEF ServiceStep

-----------------------------------------------------------------------------
\* A restart.

LEMMA CrashChanges ==
  ASSUME TypeOK, Crash, NEW d \in Deliveries, NEW w \in Ways
  PROVE  \/ path'[d][w] = path[d][w] /\ path[d][w].pc \notin Active
         \/ /\ path[d][w].pc \in Active /\ w = "job"
            /\ path'[d][w] = [path[d][w] EXCEPT !.stalls = @ + 1,
                 !.pc = IF path[d][w].stalls < MaxStalls THEN "queued" ELSE "failed"]
         \/ /\ path[d][w].pc \notin Over /\ w = "direct"
            /\ path'[d][w] = [path[d][w] EXCEPT !.pc = "lost"]
<1>1. path[d][w] \in Way
  BY WayType
<1>2. path'[d] = [path[d] EXCEPT !["job"] = AfterCrash(@),
                                 !["direct"].pc = IF @ \in Over THEN @ ELSE "lost"]
  BY DEF Crash
<1>3. path[d] \in [Ways -> Way]
  BY DEF TypeOK, Way
<1>4. CASE w = "job"
  <2>1. path'[d][w] = AfterCrash(path[d][w])
    BY <1>2, <1>3, <1>4 DEF Ways
  <2> QED BY <1>4, <2>1 DEF AfterCrash
<1>5. CASE w = "direct"
  <2>1. path'[d][w] = [path[d][w] EXCEPT !.pc = IF @ \in Over THEN @ ELSE "lost"]
    BY <1>2, <1>3, <1>5 DEF Ways
  <2>2. CASE path[d][w].pc \in Over
    BY <1>1, <2>1, <2>2 DEF Over, Active, Way
  <2>3. CASE path[d][w].pc \notin Over
    BY <1>5, <2>1, <2>3
  <2> QED BY <2>2, <2>3
<1> QED BY <1>4, <1>5 DEF Ways

LEMMA CrashKeepsInv ==
  ASSUME Inv, Crash
  PROVE  Inv'
<1> USE BudgetType
<1>1. TypeOK
  BY DEF Inv
<1>2. ASSUME NEW d \in Deliveries, NEW w \in Ways
      PROVE  path'[d][w] \in Way /\ WayInv(d, w)' /\ (path'[d][w].pc = "none" <=> path[d][w].pc = "none")
  <2>1. /\ path[d][w] \in Way /\ WayInv(d, w) /\ posts'[d][w] = posts[d][w]
        /\ posts[d][w] \in Nat /\ failures' = failures
    BY <1>1, WayType DEF Inv, Crash, records
  <2>2. CASE path'[d][w] = path[d][w] /\ path[d][w].pc \notin Active
    BY <2>1, <2>2 DEF WayInv, ToPost
  <2>3. CASE /\ path[d][w].pc \in Active /\ w = "job"
             /\ path'[d][w] = [path[d][w] EXCEPT !.stalls = @ + 1,
                  !.pc = IF path[d][w].stalls < MaxStalls THEN "queued" ELSE "failed"]
    <3>1. path[d][w].stalls + 1 \in 0..MaxStalls + 1
      BY <2>1, <2>3 DEF WayInv, Active, Way
    <3>2. path'[d][w] \in Way
      BY <2>1, <2>3, <3>1 DEF Way, Places
    <3> QED BY <2>1, <2>3, <3>1, <3>2 DEF WayInv, ToPost, Active, Way
  <2>4. CASE /\ path[d][w].pc \notin Over /\ w = "direct"
             /\ path'[d][w] = [path[d][w] EXCEPT !.pc = "lost"]
    <3>1. path'[d][w] \in Way
      BY <2>1, <2>4 DEF Way, Places
    <3> QED BY <2>1, <2>4, <3>1 DEF WayInv, ToPost, Over, Way
  <2> QED BY <1>1, <2>2, <2>3, <2>4, CrashChanges
<1>3. path' \in [Deliveries -> [Ways -> Way]]
  <2>1. path \in [Deliveries -> [Ways -> Way]]
    BY <1>1 DEF TypeOK, Way
  <2>2. /\ DOMAIN path' = Deliveries /\ path' = [d \in Deliveries |-> path'[d]]
        /\ \A d \in Deliveries : DOMAIN path'[d] = Ways /\ path'[d] = [w \in Ways |-> path'[d][w]]
    BY <2>1 DEF Crash, Ways
  <2>3. \A d \in Deliveries : path'[d] \in [Ways -> Way]
    BY <1>2, <2>2
  <2> QED BY <2>2, <2>3
<1>4. TypeOK'
  BY <1>1, <1>3 DEF TypeOK, Crash, records, Way, Stages
<1>5. ASSUME NEW d \in Deliveries
      PROVE  DispatchInv(d)'
  <2>1. DispatchInv(d)
    BY DEF Inv
  <2>2. dispatch'[d] = IF dispatch[d] \in {"new", "hook", "adding"} THEN "lost" ELSE dispatch[d]
    BY DEF Crash
  <2>3. dispatch'[d] \notin {"new", "hook", "adding"}
    BY <2>2
  <2>4. dispatch'[d] = "handed" => dispatch[d] = "handed"
    BY <2>2
  <2> QED BY <1>2, <2>1, <2>3, <2>4 DEF DispatchInv
<1> QED BY <1>2, <1>4, <1>5 DEF Inv

LEMMA InvInit == Init => Inv
<1> SUFFICES ASSUME Init PROVE Inv
  OBVIOUS
<1>1. TypeOK
  BY BudgetType DEF Init, TypeOK, Stages, Places
<1>2. \A d \in Deliveries, w \in Ways :
        path[d][w] = [pc |-> "none", attempt |-> 0, stalls |-> 0] /\ posts[d][w] = 0
  BY DEF Init
<1>3. \A d \in Deliveries, w \in Ways : WayInv(d, w)
  BY <1>2, BudgetType DEF Init, WayInv, ToPost
<1>4. \A d \in Deliveries : DispatchInv(d)
  BY <1>2 DEF Init, DispatchInv, Ways
<1> QED BY <1>1, <1>3, <1>4 DEF Inv

LEMMA InvNext == Inv /\ [Next]_vars => Inv'
<1> SUFFICES ASSUME Inv, [Next]_vars PROVE Inv'
  OBVIOUS
<1>1. CASE UNCHANGED vars
  BY <1>1 DEF vars, history, records, Inv, TypeOK, WayInv, DispatchInv
<1> QED BY <1>1, WayKeepsInv, ServiceKeepsInv, CrashKeepsInv DEF Next

LEMMA Invariant == Spec => []Inv
  BY InvInit, InvNext, PTL DEF Spec

\* The dispatches, the ways and the records keep their types: no attempt counter runs past
\* the retry budget and no job is taken back more often than the queue allows.
THEOREM TypeCorrect == Spec => []TypeOK
  BY Invariant, PTL DEF Inv

\* Each way makes at most retryCount attempts, and one more for each restart that
\* interrupted it, whatever POSTs, writes and the queue do.
THEOREM BudgetIsKept == Spec => []AttemptBudget
<1>1. Inv => AttemptBudget
  <2> SUFFICES ASSUME Inv, NEW d \in Deliveries, NEW w \in Ways
               PROVE  posts[d][w] <= Budget + path[d][w].stalls
    BY DEF AttemptBudget
  <2>1. path[d][w].attempt \in 0..Budget /\ path[d][w].stalls \in Nat /\ posts[d][w] \in Nat
    BY WayType DEF Inv, Way
  <2>2. WayInv(d, w)
    BY DEF Inv
  <2> QED BY <2>1, <2>2, BudgetType DEF WayInv
<1> QED BY <1>1, Invariant, PTL

-----------------------------------------------------------------------------
\* What a way leaves behind when it is over, and where an acknowledged one can be.
SureWay(d, w) ==
  /\ <<d, w>> \in ok \ unstamped => path[d][w].pc \in {"stamping", "done"}
  /\ path[d][w].pc \in {"stamping", "done"} => <<d, w>> \in ok
  /\ path[d][w].pc = "failed" =>
       <<d, w>> \in failures \union unrecorded \/ path[d][w].stalls > MaxStalls

Sure == \A d \in Deliveries, w \in Ways : SureWay(d, w)

\* The ways a step does not touch stay sure.
LEMMA SureOthers ==
  ASSUME Sure, NEW d \in Deliveries, NEW w \in Ways, NEW r, Replaced(d, w, r),
         ok \subseteq ok', ok' \subseteq ok \union {<<d, w>>}, unstamped \subseteq unstamped',
         failures \subseteq failures', unrecorded \subseteq unrecorded', SureWay(d, w)'
  PROVE  Sure'
<1>1. ASSUME NEW e \in Deliveries, NEW v \in Ways, <<e, v>> # <<d, w>>
      PROVE  SureWay(e, v)'
  <2>1. SureWay(e, v) /\ path'[e][v] = path[e][v]
    BY <1>1 DEF Sure, Replaced
  <2>2. /\ <<e, v>> \in ok' <=> <<e, v>> \in ok
        /\ <<e, v>> \in unstamped => <<e, v>> \in unstamped'
        /\ <<e, v>> \in failures \union unrecorded => <<e, v>> \in failures' \union unrecorded'
    BY <1>1
  <2> QED BY <2>1, <2>2 DEF SureWay
<1>2. ASSUME NEW e \in Deliveries, NEW v \in Ways, <<e, v>> = <<d, w>>
      PROVE  SureWay(e, v)'
  BY <1>2
<1> QED BY <1>1, <1>2 DEF Sure

LEMMA SureService ==
  ASSUME Inv, Sure, NEW d \in Deliveries, ServiceStep(d)
  PROVE  Sure'
<1>1. TypeOK /\ DispatchInv(d)
  BY DEF Inv
<1>2. CASE UNCHANGED <<path, posts, history, records, crashes>>
  BY <1>2 DEF Sure, SureWay, history, records
<1>3. ASSUME NEW w \in Ways, NEW pc \in {"queued", "posting"}, Take(d, w, pc),
             path[d][w].pc = "none", UNCHANGED <<posts, history, records, crashes>>
      PROVE  Sure'
  <2> DEFINE r == [path[d][w] EXCEPT !.pc = pc, !.attempt = 1]
  <2>1. Replaced(d, w, r)
    BY <1>1, <1>3, TakeChanges DEF Places
  <2>2. path'[d][w] = r /\ path[d][w] \in Way /\ SureWay(d, w)
    BY <1>1, <2>1, WayType DEF Replaced, Sure
  <2>3. SureWay(d, w)'
    BY <1>3, <2>2 DEF SureWay, Way, history, records
  <2> HIDE DEF r
  <2> QED BY <1>3, <2>1, <2>3, SureOthers DEF history, records
<1>4. CASE LookUp(d)
  BY <1>2, <1>4 DEF LookUp
<1>5. CASE HookReturns(d)
  <2>1. CASE Take(d, "direct", "posting")
    <3>1. path[d]["direct"].pc = "none" /\ "direct" \in Ways
      BY <1>1, <1>5 DEF DispatchInv, HookReturns, Ways
    <3> QED BY <1>3, <1>5, <2>1, <3>1 DEF HookReturns
  <2> QED BY <1>2, <1>5, <2>1 DEF HookReturns
<1>6. CASE JobAdded(d)
  BY <1>3, <1>6 DEF JobAdded, Ways
<1>7. CASE AddResolves(d)
  BY <1>2, <1>7 DEF AddResolves
<1>8. CASE AddRejects(d)
  <2>1. path[d]["direct"].pc = "none" /\ "direct" \in Ways
    BY <1>1, <1>8 DEF DispatchInv, AddRejects, Ways
  <2> QED BY <1>3, <1>8, <2>1 DEF AddRejects
<1> QED BY <1>4, <1>5, <1>6, <1>7, <1>8 DEF ServiceStep

LEMMA SureWayStep ==
  ASSUME Inv, Sure, NEW d \in Deliveries, NEW w \in Ways, WayStep(d, w)
  PROVE  Sure'
<1>1. TypeOK /\ WayInv(d, w) /\ SureWay(d, w)
  BY DEF Inv, Sure
<1>2. path[d][w] \in Way /\ path[d][w].stalls \in Nat
  BY <1>1, WayType
<1>3. CASE AttemptStarts(d, w)
  <2> DEFINE r == [path[d][w] EXCEPT !.pc = "posting"]
  <2>1. Replaced(d, w, r)
    BY <1>1, <1>3, GotoChanges DEF AttemptStarts, Places
  <2>2. path'[d][w] = r
    BY <2>1 DEF Replaced
  <2>3. SureWay(d, w)'
    BY <1>1, <1>2, <1>3, <2>2 DEF SureWay, AttemptStarts, history, records, Way
  <2> HIDE DEF r
  <2> QED BY <1>3, <2>1, <2>3, SureOthers DEF AttemptStarts, history, records
<1>4. CASE PostAccepted(d, w)
  <2> DEFINE r == [path[d][w] EXCEPT !.pc = "stamping"]
  <2>1. Replaced(d, w, r)
    BY <1>1, <1>4, GotoChanges DEF PostAccepted, Places
  <2>2. path'[d][w] = r
    BY <2>1 DEF Replaced
  <2>3. SureWay(d, w)'
    BY <1>1, <1>2, <1>4, <2>2 DEF SureWay, PostAccepted, records, Way
  <2> HIDE DEF r
  <2> QED BY <1>4, <2>1, <2>3, SureOthers DEF PostAccepted, records
<1>5. ASSUME Throws(d, w)
      PROVE  \E r : /\ Replaced(d, w, r)
                    /\ path'[d][w].pc \in {"recording", "backoff"}
  <2>1. PICK r : /\ Replaced(d, w, r)
                 /\ \/ r = [path[d][w] EXCEPT !.pc = "recording"]
                    \/ r = [path[d][w] EXCEPT !.pc = "backoff", !.attempt = @ + 1]
    BY <1>1, <1>5, ThrowsChanges
  <2>2. path'[d][w] = r
    BY <2>1 DEF Replaced
  <2> QED BY <1>2, <2>1, <2>2 DEF Way
<1>6. CASE PostFails(d, w)
  <2>1. PICK r : Replaced(d, w, r) /\ path'[d][w].pc \in {"recording", "backoff"}
    BY <1>5, <1>6 DEF PostFails
  <2>2. SureWay(d, w)'
    BY <1>1, <1>6, <2>1 DEF SureWay, PostFails, history, records
  <2> QED BY <1>6, <2>1, <2>2, SureOthers DEF PostFails, history, records
<1>7. CASE Stamped(d, w)
  <2>1. CASE Goto(d, w, "done") /\ UNCHANGED unstamped
    <3> DEFINE r == [path[d][w] EXCEPT !.pc = "done"]
    <3>1. Replaced(d, w, r)
      BY <1>1, <2>1, GotoChanges DEF Places
    <3>2. path'[d][w] = r
      BY <3>1 DEF Replaced
    <3>3. SureWay(d, w)'
      BY <1>1, <1>2, <1>7, <2>1, <3>2 DEF SureWay, Stamped, records, Way
    <3> HIDE DEF r
    <3> QED BY <1>7, <2>1, <3>1, <3>3, SureOthers DEF Stamped, records
  <2>2. CASE Throws(d, w) /\ unstamped' = unstamped \union {<<d, w>>}
    <3>1. PICK r : Replaced(d, w, r) /\ path'[d][w].pc \in {"recording", "backoff"}
      BY <1>5, <2>2
    <3>2. SureWay(d, w)'
      BY <1>1, <1>7, <2>2, <3>1 DEF SureWay, Stamped, records
    <3> QED BY <1>7, <2>2, <3>1, <3>2, SureOthers DEF Stamped, records
  <2> QED BY <1>7, <2>1, <2>2 DEF Stamped
<1>8. CASE Recorded(d, w)
  <2> DEFINE r == [path[d][w] EXCEPT !.pc = "failed"]
  <2>1. Replaced(d, w, r)
    BY <1>1, <1>8, GotoChanges DEF Recorded, Places
  <2>2. path'[d][w] = r
    BY <2>1 DEF Replaced
  <2>3. SureWay(d, w)'
    BY <1>1, <1>2, <1>8, <2>2 DEF SureWay, Recorded, history, Way
  <2> HIDE DEF r
  <2> QED BY <1>8, <2>1, <2>3, SureOthers DEF Recorded, history
<1> QED BY <1>3, <1>4, <1>6, <1>7, <1>8 DEF WayStep

LEMMA SureCrash ==
  ASSUME Inv, Sure, Crash
  PROVE  Sure'
<1> SUFFICES ASSUME NEW d \in Deliveries, NEW w \in Ways
             PROVE  SureWay(d, w)'
  BY DEF Sure
<1>1. TypeOK /\ SureWay(d, w) /\ path[d][w] \in Way /\ path[d][w].stalls \in Nat
  BY WayType DEF Inv, Sure
<1>2. ok' = ok /\ failures' = failures /\ unrecorded' = unrecorded
  BY DEF Crash, records
<1>3. /\ <<d, w>> \in unstamped => <<d, w>> \in unstamped'
      /\ <<d, w>> \in ok /\ path[d][w].pc = "stamping" => <<d, w>> \in unstamped'
  BY DEF Crash
<1>4. CASE path'[d][w] = path[d][w]
  BY <1>1, <1>2, <1>3, <1>4 DEF SureWay
<1>5. CASE /\ path[d][w].pc \in Active
           /\ path'[d][w] = [path[d][w] EXCEPT !.stalls = @ + 1,
                !.pc = IF path[d][w].stalls < MaxStalls THEN "queued" ELSE "failed"]
  <2>1. <<d, w>> \in ok => <<d, w>> \in unstamped'
    BY <1>1, <1>3, <1>5 DEF SureWay, Active
  <2>2. \/ path'[d][w].pc = "queued"
        \/ path'[d][w].pc = "failed" /\ path'[d][w].stalls > MaxStalls
    BY <1>1, <1>5, BudgetType DEF Way
  <2> QED BY <1>2, <2>1, <2>2 DEF SureWay
<1>6. CASE path[d][w].pc \notin Over /\ path'[d][w] = [path[d][w] EXCEPT !.pc = "lost"]
  <2>1. <<d, w>> \in ok => <<d, w>> \in unstamped'
    BY <1>1, <1>3, <1>6 DEF SureWay, Over
  <2>2. path'[d][w].pc = "lost"
    BY <1>1, <1>6 DEF Way
  <2> QED BY <1>2, <2>1, <2>2 DEF SureWay
<1> QED BY <1>1, <1>4, <1>5, <1>6, CrashChanges

LEMMA SureInit == Init => Sure
  BY DEF Init, Sure, SureWay

LEMMA SureNext == Inv /\ Sure /\ [Next]_vars => Sure'
<1> SUFFICES ASSUME Inv, Sure, [Next]_vars PROVE Sure'
  OBVIOUS
<1>1. CASE UNCHANGED vars
  BY <1>1 DEF vars, history, records, Sure, SureWay
<1> QED BY <1>1, SureService, SureWayStep, SureCrash DEF Next

LEMMA SureInvariant == Spec => [](Inv /\ Sure)
  BY Invariant, SureInit, SureNext, PTL DEF Spec

\* A failure record is never about a way on which the receiver acknowledged the event,
\* unless that could not be noted: its write rejected, or a restart came before it.
THEOREM FailuresAreHonest == Spec => []FailureMeansLost
<1>1. Inv /\ Sure => FailureMeansLost
  <2> SUFFICES ASSUME Inv, Sure, NEW p \in failures \intersect ok
               PROVE  p \in unstamped
    BY DEF FailureMeansLost
  <2>1. PICK d \in Deliveries, w \in Ways : p = <<d, w>>
    BY DEF Inv, TypeOK
  <2>2. path[d][w].pc = "failed"
    BY <2>1 DEF Inv, WayInv
  <2> QED BY <2>1, <2>2 DEF Sure, SureWay
<1> QED BY <1>1, SureInvariant, PTL

\* No event is lost in silence: a delivery that is over on every way it took was
\* acknowledged on each or left a record there, unless the process died with it, the queue
\* gave its job up, or the record itself could not be written.
THEOREM NothingIsLost == Spec => []NoSilentLoss
<1>1. Inv /\ Sure => NoSilentLoss
  <2> SUFFICES ASSUME Inv, Sure, NEW d \in Deliveries, Ended(d),
                      dispatch[d] = "handed" \/ Taken(d) # {}
               PROVE  /\ Taken(d) # {}
                      /\ \A w \in Taken(d) : <<d, w>> \in ok \union failures \/ Untold(d, w)
    BY DEF NoSilentLoss
  <2>1. Taken(d) # {}
    BY DEF Inv, DispatchInv, Taken
  <2>2. ASSUME NEW w \in Taken(d)
        PROVE  <<d, w>> \in ok \union failures \/ Untold(d, w)
    <3>1. w \in Ways /\ path[d][w].pc \in {"done", "failed", "lost"}
      BY <2>2 DEF Ended, Over, Taken
    <3> QED BY <3>1 DEF Sure, SureWay, Untold
  <2> QED BY <2>1, <2>2
<1> QED BY <1>1, SureInvariant, PTL

\* No way makes a further attempt after a 2xx answer that was noted.
THEOREM SuccessIsFinal == Spec => NoRetryAfterSuccess
<1> DEFINE P == \A d \in Deliveries, w \in Ways :
                  <<d, w>> \in ok \ unstamped => posts'[d][w] = posts[d][w]
<1>1. Inv /\ Sure /\ [Next]_vars => P
  <2> SUFFICES ASSUME Inv, Sure, [Next]_vars, NEW d \in Deliveries, NEW w \in Ways,
                      <<d, w>> \in ok \ unstamped
               PROVE  posts'[d][w] = posts[d][w]
    OBVIOUS
  <2>1. SureWay(d, w) /\ posts \in [Deliveries -> [Ways -> Nat]]
    BY DEF Sure, Inv, TypeOK
  <2>2. path[d][w].pc # "posting"
    BY <2>1 DEF SureWay
  <2>3. CASE UNCHANGED posts
    BY <2>3
  <2>4. ASSUME NEW e \in Deliveries, NEW v \in Ways, path[e][v].pc = "posting",
               posts' = [posts EXCEPT ![e][v] = @ + 1]
        PROVE  posts'[d][w] = posts[d][w]
    BY <2>1, <2>2, <2>4
  <2>5. ASSUME NEW e \in Deliveries, ServiceStep(e)
        PROVE  UNCHANGED posts
    BY <2>5 DEF ServiceStep, LookUp, HookReturns, JobAdded, AddResolves, AddRejects
  <2>6. ASSUME NEW e \in Deliveries, NEW v \in Ways, WayStep(e, v)
        PROVE  posts'[d][w] = posts[d][w]
    BY <2>3, <2>4, <2>6 DEF WayStep, AttemptStarts, PostAccepted, PostFails, Stamped, Recorded
  <2> QED BY <2>3, <2>5, <2>6 DEF Next, Crash, vars
<1>2. Inv /\ Sure /\ [Next]_vars => [P]_vars
  BY <1>1
<1> QED BY <1>2, SureInvariant, PTL DEF Spec, NoRetryAfterSuccess

\* Failure records tell of the lost events, of all of them and of no other, but for what
\* could not be written.
THEOREM FailuresAreTold == Spec => []FailuresTold
  BY NothingIsLost, FailuresAreHonest, PTL DEF FailuresTold

\* Attempts keep the budget and end with a success that was noted.
THEOREM AttemptsAreExact == Spec => AttemptsExact
  BY TypeCorrect, BudgetIsKept, SuccessIsFinal, PTL DEF AttemptsExact

-----------------------------------------------------------------------------
(***************************************************************************)
(* The hooks.                                                              *)
(***************************************************************************)

\* A plugin's host and the worker's plugin are of each other, and who subscribed is the host.
Wired ==
  /\ \A w \in Workers : worker[w].alive => Of(w) \in Plugins /\ host[Of(w)] = w
  /\ \A p \in Plugins : host[p] # None => Of(host[p]) = p
  /\ \A e \in Event : \A i \in 1..Len(hooks[e]) :
       Of(hooks[e][i]) \in Plugins /\ host[Of(hooks[e][i])] = hooks[e][i]

\* How far a loop with the record r has got in its list l: nobody of the start is behind it
\* who has not run, and nobody who ran is ahead, unless one was inserted among them.
Track(r, l) ==
  /\ l \in Seq(Workers) /\ \A i, j \in 1..Len(l) : l[i] = l[j] => i = j
  /\ Passed(r) <= Len(l)
  /\ \A v \in r.start : v \in r.ran \/ \E j \in 1..Len(l) : Passed(r) < j /\ l[j] = v
  /\ r.twice => r.moved
  /\ ~r.moved => \A v \in r.ran : \E j \in 1..Len(l) : j <= Passed(r) /\ l[j] = v

\* The handlers are plugins', and the owner it was fired with is still the chat's.
Told(x) ==
  /\ \A i \in 1..Len(List(x)) : Of(List(x)[i]) \in Plugins
  /\ exec[x].at # "next" => exec[x].host \in Workers
  /\ exec[x].owner \in {None, Owner}
  /\ exec[x].at = "wait" => exec[x].owner \in {None, Of(exec[x].host)}
  /\ exec[x].event # "received" => exec[x].at # "gate" /\ exec[x].owner = None

\* An event that a call fired is its only one, and the call waits for it.
FiredBy(x) ==
  exec[x].cap # None =>
    /\ exec[x].event = "sending"
    /\ cap[exec[x].cap] # Idle /\ cap[exec[x].cap].at = "hooks"
    /\ \A y \in Execs : Running(y) /\ exec[y].cap = exec[x].cap => y = x

\* A call on behalf of a handler fires an event only if the handler's is another.
CausedBy(k) ==
  cap[k].cause # None =>
    /\ Waiting(cap[k].cause)
    /\ cap[k].at = "hooks" => exec[cap[k].cause].event # "sending"

\* The requests a worker has not answered, and the calls it has made.
Pending(w, e) == {x \in Execs : Waiting(x) /\ exec[x].host = w /\ exec[x].event = e}
Asked(w) == {k \in Caps : cap[k] # Idle /\ cap[k].worker = w}
Unanswered == \A w \in Workers : \A e \in Event : inFlight[w][e] = Cardinality(Pending(w, e))
\* Who calls is a plugin's.
Unended ==
  \A w \in Workers :
    /\ capsIn[w] = Cardinality(Asked(w))
    /\ Of(w) = None => Asked(w) = {}

Runs == {x \in Execs : Running(x)}
Made == {k \in Caps : cap[k] # Idle}
FinitelyMany == IsFiniteSet(Runs) /\ IsFiniteSet(Made)

Loops == \A x \in Execs : Running(x) => Track(exec[x], List(x)) /\ Told(x)
Firing == \A x \in Execs : Running(x) => FiredBy(x)
Causes == \A k \in Caps : cap[k] # Idle => CausedBy(k)

Sorted ==
  \A e \in Event : \A i, j \in 1..Len(hooks[e]) : i < j =>
    LET p == worker[hooks[e][i]].plugin
        q == worker[hooks[e][j]].plugin
    IN  p # q /\ Priority[p] <= Priority[q]
PluginsTyped ==
  /\ hooks \in [Event -> Seq(Workers)]
  /\ host \in [Plugins -> Workers \union {None}]
  /\ worker \in [Workers -> [plugin: Plugins \union {None}, alive: BOOLEAN]]
  /\ active \subseteq Plugins
  /\ Sorted
RunsTyped == exec \in [Execs -> Exec \union {Idle}]
AnswersTyped == inFlight \in [Workers -> [Event -> Nat]]
CallsTyped == cap \in [Caps -> Cap \union {Idle}] /\ capsIn \in [Workers -> 0..MaxCaps]
RowsTyped == /\ state \in [Plugins -> State \union {None}]
             /\ recent \in Seq(Plugins) /\ IsInjective(recent)
CountsTyped == events \in 0..Events /\ enables \in 0..Enables /\ requests \in 0..Requests

HooksInv ==
  /\ PluginsTyped /\ RunsTyped /\ AnswersTyped /\ CallsTyped /\ RowsTyped /\ CountsTyped
  /\ Wired /\ Loops /\ Firing /\ Causes /\ FinitelyMany /\ Unanswered /\ Unended
-----------------------------------------------------------------------------
\* Sequences.

LEMMA MinOf ==
  ASSUME NEW I, I \subseteq Nat, I # {} PROVE Min(I) \in I /\ \A y \in I : Min(I) <= y
<1>1. PICK x \in I : \A y \in I : <<y, x>> \notin OpToRel(<, Nat)
  BY NatLessThanWellFounded, WFMin
<1>2. \A y \in I : ~(y < x)
  BY <1>1 DEF OpToRel
<1>3. \A y \in I : x <= y
  BY <1>2
<1>4. QED
  BY <1>3 DEF Min

LEMMA Inserted ==
  ASSUME NEW S, NEW s \in Seq(S), NEW n \in 1..Len(s) + 1, NEW v \in S
  PROVE  /\ InsertAt(s, n, v) \in Seq(S) /\ Len(InsertAt(s, n, v)) = Len(s) + 1
         /\ \A i \in 1..Len(s) + 1 :
              InsertAt(s, n, v)[i] = IF i < n THEN s[i] ELSE IF i = n THEN v ELSE s[i - 1]
<1> DEFINE a == SubSeq(s, 1, n - 1)
           b == SubSeq(s, n, Len(s))
<1>1. a \in Seq(S) /\ Len(a) = n - 1 /\ \A i \in 1..n - 1 : a[i] = s[i]
  BY SubSeqProperties
<1>2. b \in Seq(S) /\ Len(b) = Len(s) + 1 - n /\ \A i \in 1..Len(s) + 1 - n : b[i] = s[n + i - 1]
  BY SubSeqProperties
<1>3. <<v>> \in Seq(S) /\ Len(<<v>>) = 1 /\ <<v>>[1] = v
  OBVIOUS
<1> HIDE DEF a, b
<1>4. /\ a \o <<v>> \in Seq(S) /\ Len(a \o <<v>>) = n
      /\ \A i \in 1..n : (a \o <<v>>)[i] = IF i < n THEN s[i] ELSE v
  BY <1>1, <1>3
<1>5. /\ (a \o <<v>>) \o b \in Seq(S) /\ Len((a \o <<v>>) \o b) = Len(s) + 1
      /\ \A i \in 1..Len(s) + 1 :
           ((a \o <<v>>) \o b)[i] = IF i <= n THEN (a \o <<v>>)[i] ELSE b[i - n]
  <2>1. PICK c : c = a \o <<v>>
    OBVIOUS
  <2>2. c \in Seq(S) /\ Len(c) = n
    BY <1>4, <2>1
  <2>3. Len(c) + Len(b) = Len(s) + 1
    BY <1>2, <2>2
  <2>4. /\ c \o b \in Seq(S) /\ Len(c \o b) = Len(c) + Len(b)
        /\ \A i \in 1..Len(c) + Len(b) : (c \o b)[i] = IF i <= Len(c) THEN c[i] ELSE b[i - Len(c)]
    BY <1>2, <2>2, ConcatProperties
  <2>5. QED
    BY <2>1, <2>2, <2>3, <2>4
<1>6. \A i \in 1..Len(s) + 1 : i > n => b[i - n] = s[i - 1]
  BY <1>2
<1>7. PICK l : l = (a \o <<v>>) \o b
  OBVIOUS
<1>8. InsertAt(s, n, v) = l
  BY <1>7 DEF InsertAt, a, b
<1>9. ASSUME NEW i \in 1..Len(s) + 1
      PROVE  l[i] = IF i < n THEN s[i] ELSE IF i = n THEN v ELSE s[i - 1]
  <2>1. CASE i <= n
    BY <1>4, <1>5, <1>7, <2>1
  <2>2. CASE i > n
    BY <1>5, <1>6, <1>7, <2>2
  <2>3. QED
    BY <2>1, <2>2
<1>10. l \in Seq(S) /\ Len(l) = Len(s) + 1
  BY <1>5, <1>7
<1>11. QED
  BY <1>8, <1>9, <1>10

LEMMA TakenOut ==
  ASSUME NEW S, NEW s \in Seq(S), NEW n \in 1..Len(s)
  PROVE  /\ RemoveAt(s, n) \in Seq(S) /\ Len(RemoveAt(s, n)) = Len(s) - 1
         /\ \A i \in 1..Len(s) - 1 : RemoveAt(s, n)[i] = IF i < n THEN s[i] ELSE s[i + 1]
<1> DEFINE a == SubSeq(s, 1, n - 1)
           b == SubSeq(s, n + 1, Len(s))
<1>1. a \in Seq(S) /\ Len(a) = n - 1 /\ \A i \in 1..n - 1 : a[i] = s[i]
  BY SubSeqProperties
<1>2. b \in Seq(S) /\ Len(b) = Len(s) - n /\ \A i \in 1..Len(s) - n : b[i] = s[n + i]
  BY SubSeqProperties
<1> HIDE DEF a, b
<1>3. /\ a \o b \in Seq(S) /\ Len(a \o b) = Len(s) - 1
      /\ \A i \in 1..Len(s) - 1 : (a \o b)[i] = IF i <= n - 1 THEN a[i] ELSE b[i - (n - 1)]
  <2>1. Len(a) + Len(b) = Len(s) - 1
    BY <1>1, <1>2
  <2>2. /\ a \o b \in Seq(S) /\ Len(a \o b) = Len(a) + Len(b)
        /\ \A i \in 1..Len(a) + Len(b) : (a \o b)[i] = IF i <= Len(a) THEN a[i] ELSE b[i - Len(a)]
    BY <1>1, <1>2, ConcatProperties
  <2>3. QED
    BY <1>1, <2>1, <2>2
<1>4. \A i \in 1..Len(s) - 1 : i >= n => b[i - (n - 1)] = s[i + 1]
  BY <1>2
<1>5. RemoveAt(s, n) = a \o b
  BY DEF RemoveAt, a, b
<1>6. QED
  BY <1>1, <1>3, <1>4, <1>5

LEMMA FirstRemoved ==
  ASSUME NEW S, NEW s \in Seq(S), NEW v \in S, IsInjective(s)
  PROVE  <<v>> \o RemoveFirst(s, v) \in Seq(S) /\ IsInjective(<<v>> \o RemoveFirst(s, v))
<1> DEFINE t == RemoveFirst(s, v)
<1>1. ASSUME NEW l \in Seq(S), IsInjective(l), \A i \in 1..Len(l) : l[i] # v
      PROVE  <<v>> \o l \in Seq(S) /\ IsInjective(<<v>> \o l)
  <2>1. /\ <<v>> \o l \in Seq(S) /\ Len(<<v>> \o l) = Len(l) + 1
        /\ \A i \in 1..Len(l) + 1 : (<<v>> \o l)[i] = IF i <= 1 THEN v ELSE l[i - 1]
    OBVIOUS
  <2>2. \A i \in 1..Len(l) + 1 : i <= 1 \/ i - 1 \in 1..Len(l)
    OBVIOUS
  <2>3. DOMAIN (<<v>> \o l) = 1..Len(l) + 1 /\ DOMAIN l = 1..Len(l)
    BY <2>1
  <2>4. \A i, j \in 1..Len(l) + 1 : (<<v>> \o l)[i] = (<<v>> \o l)[j] => i = j
    <3>1. \A i, j \in 1..Len(l) : l[i] = l[j] => i = j
      BY <1>1, <2>3 DEF IsInjective
    <3>2. TAKE i, j \in 1..Len(l) + 1
    <3>3. CASE i <= 1 \/ j <= 1
      BY <1>1, <2>1, <2>2, <3>3
    <3>4. CASE i > 1 /\ j > 1
      BY <2>1, <2>2, <3>1, <3>4
    <3>5. QED
      BY <3>3, <3>4
  <2>5. QED
    BY <2>1, <2>3, <2>4 DEF IsInjective
<1>2. t \in Seq(S) /\ IsInjective(t) /\ \A i \in 1..Len(t) : t[i] # v
  <2>1. CASE \A i \in 1..Len(s) : s[i] # v
    BY <2>1 DEF RemoveFirst
  <2>2. CASE \E i \in 1..Len(s) : s[i] = v
    <3> DEFINE I == {i \in 1..Len(s) : s[i] = v}
    <3>1. Min(I) \in I
      <4>1. I \subseteq Nat /\ I # {}
        BY <2>2
      <4>2. QED
        BY <4>1, MinOf
    <3>2. t = RemoveAt(s, Min(I))
      BY <2>2 DEF RemoveFirst, SelectInSeq
    <3>3. PICK n \in 1..Len(s) : t = RemoveAt(s, n) /\ s[n] = v
      BY <3>1, <3>2
    <3> HIDE DEF t, I
    <3>4. /\ t \in Seq(S) /\ Len(t) = Len(s) - 1
          /\ \A i \in 1..Len(s) - 1 : t[i] = IF i < n THEN s[i] ELSE s[i + 1]
      BY <3>3, TakenOut
    <3>5. DOMAIN s = 1..Len(s) /\ DOMAIN t = 1..Len(s) - 1
      BY <3>4
    <3>6. \A i, j \in 1..Len(s) : s[i] = s[j] => i = j
      BY <3>5 DEF IsInjective
    <3>7. \A i, j \in 1..Len(s) - 1 : t[i] = t[j] => i = j
      BY <3>4, <3>6
    <3>8. \A i \in 1..Len(s) - 1 : t[i] # v
      BY <3>3, <3>4, <3>6
    <3>9. QED
      BY <3>4, <3>5, <3>7, <3>8 DEF IsInjective
  <2>3. QED
    BY <2>1, <2>2
<1>3. QED
  BY <1>1, <1>2

-----------------------------------------------------------------------------
\* The model's operators.

LEMMA OwnerIsAPlugin == RowsTyped => Owner \in Plugins \union {None}
<1> DEFINE I == {i \in 1..Len(recent) : NotBot(recent[i])}
<1>1. SUFFICES ASSUME RowsTyped PROVE Owner \in Plugins \union {None}
  OBVIOUS
<1>2. recent \in Seq(Plugins)
  BY <1>1 DEF RowsTyped
<1>3. I # {} => Min(I) \in 1..Len(recent)
  <2>1. I \subseteq Nat /\ I \subseteq 1..Len(recent)
    BY <1>2
  <2>2. QED
    BY <2>1, MinOf
<1>4. QED
  BY <1>2, <1>3 DEF Owner, SelectInSeq

\* A registration goes between those it is not to come before and those it is to come before.
LEMMA PositionDivides ==
  ASSUME PluginsTyped, Wired, NEW w \in Workers, Of(w) \in Plugins, NEW e \in Event
  PROVE  /\ Position(w, e) \in 1..Len(hooks[e]) + 1
         /\ \A i \in 1..Len(hooks[e]) :
              /\ i < Position(w, e) => Priority[Of(hooks[e][i])] <= Priority[Of(w)]
              /\ i >= Position(w, e) => Priority[Of(w)] <= Priority[Of(hooks[e][i])]
<1> DEFINE Later(v) == Priority[Of(v)] > Priority[Of(w)]
           I == {i \in 1..Len(hooks[e]) : Later(hooks[e][i])}
<1>1. hooks[e] \in Seq(Workers) /\ Len(hooks[e]) \in Nat
  BY DEF PluginsTyped
<1>2. \A i \in 1..Len(hooks[e]) : Of(hooks[e][i]) \in Plugins
  BY DEF Wired
<1>3. Priority \in [Plugins -> Nat]
  BY HooksAssumption
<1>4. \A i, j \in 1..Len(hooks[e]) : i < j => Priority[Of(hooks[e][i])] <= Priority[Of(hooks[e][j])]
  BY DEF PluginsTyped, Sorted, Of
<1>5. CASE I = {}
  <2>1. Position(w, e) = Len(hooks[e]) + 1
    BY <1>5 DEF Position, SelectInSeq
  <2>2. \A i \in 1..Len(hooks[e]) : ~Later(hooks[e][i])
    BY <1>5
  <2>3. QED
    BY <1>1, <1>2, <1>3, <2>1, <2>2
<1>6. CASE I # {}
  <2>1. I \subseteq Nat
    BY <1>1
  <2>2. Min(I) \in I /\ \A y \in I : Min(I) <= y
    BY <1>6, <2>1, MinOf
  <2>3. Position(w, e) = Min(I)
    BY <1>6, <2>2 DEF Position, SelectInSeq
  <2>4. PICK n \in 1..Len(hooks[e]) : /\ n = Position(w, e) /\ Later(hooks[e][n])
                                      /\ \A y \in I : n <= y
    BY <2>2, <2>3
  <2>5. \A i \in 1..Len(hooks[e]) : i < n => ~Later(hooks[e][i])
    BY <2>4
  <2>6. \A i \in 1..Len(hooks[e]) : i >= n => Priority[Of(w)] <= Priority[Of(hooks[e][i])]
    BY <1>2, <1>3, <1>4, <2>4
  <2>7. QED
    BY <1>1, <1>2, <1>3, <2>4, <2>5, <2>6
<1>7. QED
  BY <1>5, <1>6

-----------------------------------------------------------------------------
\* The loop.

\* What Track says of a loop does not depend on the rest of its record.
LEMMA TrackStays ==
  ASSUME NEW r, NEW q, NEW l, Track(r, l), Passed(q) = Passed(r),
         q.ran = r.ran, q.twice = r.twice, q.moved = r.moved, q.start = r.start
  PROVE  Track(q, l)
BY DEF Track

\* The next handler runs.
LEMMA TrackAdvances ==
  ASSUME NEW r, NEW q, NEW l, Track(r, l), r.at = "next", r.i \in Nat \ {0}, r.i <= Len(l),
         Passed(q) = r.i, q.ran = r.ran \union {l[r.i]}, q.twice = (r.twice \/ l[r.i] \in r.ran),
         q.moved = r.moved, q.start = r.start
  PROVE  Track(q, l)
<1>1. Passed(r) = r.i - 1 /\ Len(l) \in Nat /\ r.i \in 1..Len(l)
  BY DEF Track, Passed
<1>2. \A v \in q.start : v \in q.ran \/ \E j \in 1..Len(l) : Passed(q) < j /\ l[j] = v
  <2>1. TAKE v \in q.start
  <2>2. CASE v \in r.ran
    BY <2>2
  <2>3. ASSUME NEW j \in 1..Len(l), Passed(r) < j, l[j] = v
        PROVE  v \in q.ran \/ \E k \in 1..Len(l) : Passed(q) < k /\ l[k] = v
    <3>1. j = r.i \/ r.i < j
      BY <1>1, <2>3
    <3>2. QED
      BY <2>3, <3>1
  <2>4. QED
    BY <2>2, <2>3 DEF Track
<1>3. ~r.moved => l[r.i] \notin r.ran
  <2>1. SUFFICES ASSUME ~r.moved, l[r.i] \in r.ran PROVE FALSE
    OBVIOUS
  <2>2. PICK j \in 1..Len(l) : j <= Passed(r) /\ l[j] = l[r.i]
    BY <2>1 DEF Track
  <2>3. j = r.i
    BY <1>1, <2>2 DEF Track
  <2>4. QED
    BY <1>1, <2>2, <2>3
<1>4. q.twice => q.moved
  BY <1>3 DEF Track
<1>5. ~q.moved => \A v \in q.ran : \E j \in 1..Len(l) : j <= Passed(q) /\ l[j] = v
  <2>1. SUFFICES ASSUME ~r.moved, NEW v \in q.ran
                 PROVE  \E j \in 1..Len(l) : j <= Passed(q) /\ l[j] = v
    OBVIOUS
  <2>2. CASE v = l[r.i]
    BY <1>1, <2>2
  <2>3. CASE v \in r.ran
    <3>1. PICK j \in 1..Len(l) : j <= Passed(r) /\ l[j] = v
      BY <2>1, <2>3 DEF Track
    <3>2. j <= Passed(q)
      BY <1>1, <3>1
    <3>3. QED
      BY <3>1, <3>2
  <2>4. QED
    BY <2>1, <2>2, <2>3
<1>6. QED
  BY <1>1, <1>2, <1>4, <1>5 DEF Track

\* A handler is inserted: ahead of the loop, or behind it, which the record notes.
LEMMA TrackInserted ==
  ASSUME NEW r, NEW q, NEW l, Track(r, l), Passed(r) \in Nat,
         NEW n \in 1..Len(l) + 1, NEW w \in Workers, \A i \in 1..Len(l) : l[i] # w,
         Passed(q) = Passed(r), q.ran = r.ran, q.twice = r.twice, q.start = r.start,
         q.moved = (r.moved \/ n <= Passed(r))
  PROVE  Track(q, InsertAt(l, n, w))
<1> DEFINE m == InsertAt(l, n, w)
<1>1. l \in Seq(Workers) /\ Len(l) \in Nat
  BY DEF Track
<1>2. /\ m \in Seq(Workers) /\ Len(m) = Len(l) + 1
      /\ \A i \in 1..Len(l) + 1 : m[i] = IF i < n THEN l[i] ELSE IF i = n THEN w ELSE l[i - 1]
  BY <1>1, Inserted
<1> HIDE DEF m
<1>3. \A i, j \in 1..Len(m) : m[i] = m[j] => i = j
  <2>1. \A i \in 1..Len(l) + 1 : i < n => i \in 1..Len(l)
    BY <1>1
  <2>2. \A i \in 1..Len(l) + 1 : i > n => i - 1 \in 1..Len(l)
    BY <1>1
  <2>3. SUFFICES ASSUME NEW i \in 1..Len(l) + 1, NEW j \in 1..Len(l) + 1, m[i] = m[j], i < j
                 PROVE  FALSE
    BY <1>1, <1>2
  <2>4. ASSUME NEW k \in 1..Len(l) + 1, k # n PROVE m[k] # m[n]
    <3>1. m[n] = w
      BY <1>1, <1>2
    <3>2. CASE k < n
      <4>1. m[k] = l[k] /\ k \in 1..Len(l)
        BY <1>2, <2>1, <3>2
      <4>2. QED
        BY <3>1, <4>1
    <3>3. CASE k > n
      <4>1. m[k] = l[k - 1] /\ k - 1 \in 1..Len(l)
        BY <1>2, <2>2, <3>3
      <4>2. QED
        BY <3>1, <4>1
    <3>4. QED
      BY <2>4, <3>2, <3>3
  <2>5. n \in 1..Len(l) + 1
    BY <1>1
  <2>6. i # n /\ j # n
    BY <2>3, <2>4, <2>5
  <2>7. CASE j < n
    <3>1. i \in 1..Len(l) /\ j \in 1..Len(l) /\ l[i] = l[j]
      BY <1>1, <1>2, <2>1, <2>3, <2>7
    <3>2. QED
      BY <2>3, <3>1 DEF Track
  <2>8. CASE n < i
    <3>1. i - 1 \in 1..Len(l) /\ j - 1 \in 1..Len(l) /\ l[i - 1] = l[j - 1]
      BY <1>1, <1>2, <2>2, <2>3, <2>8
    <3>2. i - 1 = j - 1
      BY <3>1 DEF Track
    <3>3. QED
      BY <2>3, <3>2
  <2>9. CASE i < n /\ n < j
    <3>1. l[i] = l[j - 1]
      BY <1>2, <2>3, <2>9
    <3>2. i = j - 1
      BY <2>1, <2>2, <2>9, <3>1 DEF Track
    <3>3. QED
      BY <1>1, <2>9, <3>2
  <2>10. QED
    BY <1>1, <2>3, <2>6, <2>7, <2>8, <2>9
<1>4. Passed(q) <= Len(m)
  BY <1>1, <1>2 DEF Track
<1>5. \A v \in q.start : v \in q.ran \/ \E j \in 1..Len(m) : Passed(q) < j /\ m[j] = v
  <2>1. SUFFICES ASSUME NEW v \in r.start, NEW j \in 1..Len(l), Passed(r) < j, l[j] = v
                 PROVE  \E k \in 1..Len(m) : Passed(q) < k /\ m[k] = v
    BY DEF Track
  <2>2. CASE j < n
    BY <1>1, <1>2, <2>1, <2>2
  <2>3. CASE j >= n
    <3>1. j + 1 \in 1..Len(m) /\ Passed(q) < j + 1 /\ m[j + 1] = v
      BY <1>1, <1>2, <2>1, <2>3
    <3>2. QED
      BY <3>1
  <2>4. QED
    BY <1>1, <2>2, <2>3
<1>6. q.twice => q.moved
  BY DEF Track
<1>7. ~q.moved => \A v \in q.ran : \E j \in 1..Len(m) : j <= Passed(q) /\ m[j] = v
  <2>1. SUFFICES ASSUME ~r.moved, ~(n <= Passed(r)), NEW v \in r.ran
                 PROVE  \E j \in 1..Len(m) : j <= Passed(r) /\ m[j] = v
    OBVIOUS
  <2>2. PICK j \in 1..Len(l) : j <= Passed(r) /\ l[j] = v
    BY <2>1 DEF Track
  <2>3. j \in 1..Len(m) /\ m[j] = l[j]
    BY <1>1, <1>2, <2>1, <2>2
  <2>4. QED
    BY <2>2, <2>3
<1>8. QED
  BY <1>2, <1>3, <1>4, <1>5, <1>6, <1>7 DEF Track, m

-----------------------------------------------------------------------------
\* What a step leaves alone.

LEMMA Records ==
  /\ \A r \in Exec : r # Idle /\ Passed(r) \in Nat
  /\ \A c \in Cap : c # Idle
  /\ RunsTyped => \A x \in Execs : Running(x) <=> exec[x] \in Exec
  /\ CallsTyped => \A k \in Caps : cap[k] # Idle <=> cap[k] \in Cap
<1>1. \A r \in Exec : r.at # "idle" /\ r.i \in Nat /\ r.i >= 1
  BY DEF Exec
<1>2. \A c \in Cap : c.at # "idle"
  BY DEF Cap
<1>3. Idle.at = "idle"
  BY DEF Idle
<1>4. \A r \in Exec : r # Idle /\ Passed(r) \in Nat
  BY <1>1, <1>3 DEF Passed
<1>5. \A c \in Cap : c # Idle
  BY <1>2, <1>3
<1>6. QED
  BY <1>4, <1>5 DEF RunsTyped, CallsTyped, Running

LEMMA PluginsKept ==
  ASSUME PluginsTyped, Wired, UNCHANGED <<hooks, host, worker>>, active' \subseteq Plugins
  PROVE  PluginsTyped' /\ Wired'
BY DEF PluginsTyped, Sorted, Wired, Of

LEMMA RowsKept ==
  ASSUME RowsTyped, UNCHANGED rows PROVE RowsTyped' /\ Owner' = Owner
<1>1. state' = state /\ recent' = recent
  BY DEF rows
<1>2. RowsTyped'
  BY <1>1 DEF RowsTyped
<1>3. \A p : NotBot(p)' <=> NotBot(p)
  BY <1>1 DEF NotBot
<1>4. {i \in 1..Len(recent) : NotBot(recent[i])}' = {i \in 1..Len(recent) : NotBot(recent[i])}
  BY <1>1, <1>3
<1>5. Owner' = Owner
  BY <1>1, <1>4 DEF Owner, SelectInSeq
<1>6. QED
  BY <1>2, <1>5

\* A loop another step does not move, but may tell that the owner is no more.
LEMMA LoopKept ==
  ASSUME NEW x \in Execs, Running(x), Track(exec[x], List(x)), Told(x),
         exec'[x] = exec[x] \/ exec'[x] = [exec[x] EXCEPT !.owner = None],
         exec[x] \in Exec, List(x)' = List(x),
         \A i \in 1..Len(List(x)) : worker'[List(x)[i]].plugin = worker[List(x)[i]].plugin,
         exec[x].host \in Workers => worker'[exec[x].host].plugin = worker[exec[x].host].plugin,
         Owner' = Owner \/ exec'[x].owner = None
  PROVE  Track(exec[x], List(x))' /\ Told(x)'
<1>1. /\ exec'[x].at = exec[x].at /\ exec'[x].i = exec[x].i /\ exec'[x].host = exec[x].host
      /\ exec'[x].ran = exec[x].ran /\ exec'[x].twice = exec[x].twice
      /\ exec'[x].moved = exec[x].moved /\ exec'[x].start = exec[x].start
      /\ exec'[x].event = exec[x].event
      /\ exec'[x].owner \in {exec[x].owner, None}
  BY DEF Exec
<1>2. Track(exec'[x], List(x))
  BY <1>1, TrackStays DEF Passed
<1>3. Told(x)'
  BY <1>1 DEF Told, Of
<1>4. QED
  BY <1>2, <1>3

\* A handler's turn ends.
LEMMA LoopTurns ==
  ASSUME NEW x \in Execs, Running(x), Track(exec[x], List(x)), Told(x), exec[x].at # "next",
         exec[x] \in Exec, exec'[x] = NextHandler(exec[x]), List(x)' = List(x),
         \A w \in Workers : worker'[w].plugin = worker[w].plugin, Owner' = Owner
  PROVE  Track(exec[x], List(x))' /\ Told(x)'
<1>1. /\ exec'[x].at = "next" /\ exec'[x].i = exec[x].i + 1 /\ exec'[x].host = None
      /\ exec'[x].ran = exec[x].ran /\ exec'[x].twice = exec[x].twice
      /\ exec'[x].moved = exec[x].moved /\ exec'[x].start = exec[x].start
      /\ exec'[x].event = exec[x].event /\ exec'[x].owner = exec[x].owner
  BY DEF Exec, NextHandler
<1>2. Passed(exec'[x]) = Passed(exec[x])
  BY <1>1 DEF Passed, Exec
<1>3. Track(exec'[x], List(x))
  BY <1>1, <1>2, TrackStays
<1>4. Told(x)'
  <2>1. \A i \in 1..Len(List(x)) : List(x)[i] \in Workers
    BY DEF Track
  <2>2. QED
    BY <1>1, <2>1 DEF Told, Of
<1>5. QED
  BY <1>3, <1>4

LEMMA LinksKept ==
  ASSUME Firing, Causes,
         \A x \in Execs : Running(x)' =>
           \/ exec'[x].cap = None
           \/ Running(x) /\ exec'[x].cap = exec[x].cap /\ exec'[x].event = exec[x].event
              /\ cap'[exec[x].cap] # Idle /\ cap'[exec[x].cap].at = cap[exec[x].cap].at,
         \A k \in Caps : cap'[k] # Idle /\ cap'[k].cause # None =>
           /\ cap[k] # Idle /\ cap'[k].cause = cap[k].cause
           /\ cap[k].cause \in Execs
           /\ Waiting(cap[k].cause)' /\ exec'[cap[k].cause].event = exec[cap[k].cause].event
           /\ cap'[k].at = "hooks" => cap[k].at = "hooks"
  PROVE  Firing' /\ Causes'
<1>1. ASSUME NEW x \in Execs, Running(x)', exec'[x].cap # None PROVE FiredBy(x)'
  <2>1. /\ Running(x) /\ exec'[x].cap = exec[x].cap /\ exec'[x].event = exec[x].event
        /\ cap'[exec[x].cap] # Idle /\ cap'[exec[x].cap].at = cap[exec[x].cap].at
    BY <1>1
  <2>2. FiredBy(x)
    BY <2>1 DEF Firing
  <2>3. ASSUME NEW y \in Execs, Running(y)', exec'[y].cap = exec'[x].cap PROVE y = x
    BY <1>1, <2>1, <2>2, <2>3 DEF FiredBy
  <2>4. QED
    BY <1>1, <2>1, <2>2, <2>3 DEF FiredBy
<1>2. Firing'
  BY <1>1 DEF Firing, FiredBy
<1>3. ASSUME NEW k \in Caps, cap'[k] # Idle PROVE CausedBy(k)'
  BY <1>3 DEF Causes, CausedBy
<1>4. QED
  BY <1>2, <1>3 DEF Causes

-----------------------------------------------------------------------------
\* Counting.

LEMMA AnswersKept ==
  ASSUME Unanswered, AnswersTyped, UNCHANGED inFlight,
         \A x \in Execs : /\ Waiting(x)' <=> Waiting(x)
                          /\ Waiting(x) => exec'[x].host = exec[x].host /\ exec'[x].event = exec[x].event
  PROVE  Unanswered' /\ AnswersTyped'
<1>1. \A w \in Workers, e \in Event : Pending(w, e)' = Pending(w, e)
  BY DEF Pending
<1>2. QED
  BY <1>1 DEF Unanswered, AnswersTyped

LEMMA PendingIsFinite == FinitelyMany => \A w, e : IsFiniteSet(Pending(w, e))
<1>1. \A w, e : Pending(w, e) \subseteq Runs
  BY DEF Pending, Runs, Waiting
<1>2. QED
  BY <1>1, FS_Subset DEF FinitelyMany

LEMMA AnswersGo ==
  ASSUME Unanswered, AnswersTyped, FinitelyMany, NEW set \in SUBSET Execs, NEW b \in BOOLEAN,
         Settled(set, b), \A x \in set : Waiting(x),
         \A x \in Execs : /\ Waiting(x)' <=> Waiting(x) /\ x \notin set
                          /\ Waiting(x)' => exec'[x].host = exec[x].host /\ exec'[x].event = exec[x].event
  PROVE  Unanswered' /\ AnswersTyped'
<1>1. ASSUME NEW w \in Workers, NEW e \in Event
      PROVE  inFlight'[w][e] = Cardinality(Pending(w, e)') /\ inFlight'[w][e] \in Nat
  <2> DEFINE gone == {x \in set : exec[x].host = w /\ exec[x].event = e}
  <2>1. inFlight'[w][e] = inFlight[w][e] - Cardinality(gone)
    BY DEF Settled
  <2>2. gone \subseteq Pending(w, e)
    BY DEF Pending
  <2>3. Pending(w, e)' = Pending(w, e) \ gone
    BY DEF Pending
  <2>4. IsFiniteSet(Pending(w, e)) /\ IsFiniteSet(gone)
    BY <2>2, PendingIsFinite, FS_Subset
  <2> HIDE DEF gone
  <2>5. Pending(w, e) \cap gone = gone
    BY <2>2
  <2>6. Cardinality(Pending(w, e) \ gone) = Cardinality(Pending(w, e)) - Cardinality(gone)
    BY <2>4, <2>5, FS_Difference
  <2>7. Cardinality(Pending(w, e) \ gone) \in Nat
    <3>1. IsFiniteSet(Pending(w, e) \ gone)
      BY <2>4, FS_Subset
    <3>2. QED
      BY <3>1, FS_CardinalityType
  <2>8. QED
    BY <2>1, <2>3, <2>6, <2>7 DEF Unanswered
<1>2. /\ DOMAIN inFlight' = Workers /\ inFlight' = [w \in Workers |-> inFlight'[w]]
      /\ \A w \in Workers : inFlight'[w] = [e \in Event |-> inFlight'[w][e]]
  BY DEF Settled
<1>3. AnswersTyped'
  BY <1>1, <1>2 DEF AnswersTyped
<1>4. QED
  BY <1>1, <1>3 DEF Unanswered

LEMMA AnswerIsDue ==
  ASSUME Unanswered, AnswersTyped, FinitelyMany, NEW x \in Execs, NEW w \in Workers, NEW e \in Event,
         ~Waiting(x), Waiting(x)', exec'[x].host = w, exec'[x].event = e,
         \A y \in Execs \ {x} : exec'[y] = exec[y],
         inFlight' = [inFlight EXCEPT ![w][e] = @ + 1]
  PROVE  Unanswered' /\ AnswersTyped'
<1>1. \A y \in Execs \ {x} : Waiting(y)' <=> Waiting(y)
  BY DEF Waiting, Running
<1>2. ASSUME NEW v \in Workers, NEW f \in Event
      PROVE  inFlight'[v][f] = Cardinality(Pending(v, f)')
  <2>1. CASE v = w /\ f = e
    <3>1. Pending(v, f)' = Pending(v, f) \union {x} /\ x \notin Pending(v, f)
      BY <1>1, <2>1 DEF Pending
    <3>2. IsFiniteSet(Pending(v, f))
      BY PendingIsFinite
    <3>3. Cardinality(Pending(v, f) \union {x}) = Cardinality(Pending(v, f)) + 1
      BY <3>1, <3>2, FS_AddElement
    <3>4. inFlight'[v][f] = inFlight[v][f] + 1
      BY <2>1 DEF AnswersTyped
    <3>5. QED
      BY <3>1, <3>3, <3>4 DEF Unanswered
  <2>2. CASE ~(v = w /\ f = e)
    <3>1. Pending(v, f)' = Pending(v, f)
      BY <1>1, <2>2 DEF Pending
    <3>2. inFlight'[v][f] = inFlight[v][f]
      BY <2>2 DEF AnswersTyped
    <3>3. QED
      BY <3>1, <3>2 DEF Unanswered
  <2>3. QED
    BY <2>1, <2>2
<1>3. AnswersTyped'
  BY DEF AnswersTyped
<1>4. QED
  BY <1>2, <1>3 DEF Unanswered

LEMMA CallsKept ==
  ASSUME Unended, CallsTyped, UNCHANGED capsIn, cap' \in [Caps -> Cap \union {Idle}],
         \A k \in Caps : /\ cap'[k] # Idle <=> cap[k] # Idle
                         /\ cap[k] # Idle => cap'[k].worker = cap[k].worker,
         \A w \in Workers : worker'[w].plugin = None => worker[w].plugin = None
  PROVE  Unended' /\ CallsTyped'
<1>1. \A w \in Workers : Asked(w)' = Asked(w)
  BY DEF Asked
<1>2. QED
  BY <1>1 DEF Unended, CallsTyped, Of

LEMMA CallsStay ==
  ASSUME Unended, CallsTyped, FinitelyMany, UNCHANGED <<cap, capsIn, worker>>
  PROVE  Unended' /\ CallsTyped' /\ IsFiniteSet(Made')
<1>1. Made' = Made /\ \A w \in Workers : Asked(w)' = Asked(w)
  BY DEF Made, Asked
<1>2. QED
  BY <1>1 DEF Unended, CallsTyped, FinitelyMany, Of

LEMMA CallComes ==
  ASSUME Unended, CallsTyped, FinitelyMany, NEW k \in Caps, NEW w \in Workers, cap[k] = Idle,
         NEW c \in Cap, c.worker = w, cap' = [cap EXCEPT ![k] = c], capsIn[w] < MaxCaps,
         capsIn' = [capsIn EXCEPT ![w] = @ + 1], Of(w) # None, UNCHANGED worker
  PROVE  Unended' /\ CallsTyped' /\ IsFiniteSet(Made')
<1>1. cap' \in [Caps -> Cap \union {Idle}] /\ cap'[k] = c /\ \A j \in Caps \ {k} : cap'[j] = cap[j]
  BY DEF CallsTyped
<1>2. cap'[k] # Idle
  BY <1>1, Records
<1>3. Asked(w)' = Asked(w) \union {k} /\ k \notin Asked(w)
  BY <1>1, <1>2 DEF Asked
<1>4. IsFiniteSet(Asked(w))
  <2>1. Asked(w) \subseteq Made
    BY DEF Asked, Made
  <2>2. QED
    BY <2>1, FS_Subset DEF FinitelyMany
<1>5. Cardinality(Asked(w) \union {k}) = Cardinality(Asked(w)) + 1
  BY <1>3, <1>4, FS_AddElement
<1>6. ASSUME NEW v \in Workers, v # w PROVE Asked(v)' = Asked(v)
  BY <1>1, <1>6 DEF Asked
<1>7. MaxCaps \in Nat
  BY HooksAssumption
<1>8. capsIn' \in [Workers -> 0..MaxCaps] /\ capsIn'[w] = capsIn[w] + 1
      /\ \A v \in Workers \ {w} : capsIn'[v] = capsIn[v]
  BY <1>7 DEF CallsTyped
<1>9. Unended'
  BY <1>3, <1>5, <1>6, <1>8 DEF Unended, Of
<1>10. IsFiniteSet(Made')
  <2>1. Made' = Made \union {k}
    BY <1>1, <1>2 DEF Made
  <2>2. QED
    BY <2>1, FS_AddElement DEF FinitelyMany
<1>11. QED
  BY <1>1, <1>8, <1>9, <1>10 DEF CallsTyped

LEMMA CallEnds ==
  ASSUME Unended, CallsTyped, FinitelyMany, NEW k \in Caps, cap[k] # Idle, Answer(k), UNCHANGED worker
  PROVE  Unended' /\ CallsTyped' /\ IsFiniteSet(Made')
<1>1. cap[k] \in Cap
  BY Records
<1>2. PICK w \in Workers : w = cap[k].worker
  BY <1>1 DEF Cap
<1>3. cap' = [cap EXCEPT ![k] = Idle] /\ capsIn' = [capsIn EXCEPT ![w] = @ - 1]
  BY <1>2 DEF Answer
<1>4. cap' \in [Caps -> Cap \union {Idle}] /\ cap'[k] = Idle /\ \A j \in Caps \ {k} : cap'[j] = cap[j]
  BY <1>3 DEF CallsTyped
<1>5. Asked(w)' = Asked(w) \ {k} /\ k \in Asked(w)
  BY <1>2, <1>4 DEF Asked
<1>6. IsFiniteSet(Asked(w))
  <2>1. Asked(w) \subseteq Made
    BY DEF Asked, Made
  <2>2. QED
    BY <2>1, FS_Subset DEF FinitelyMany
<1>7. IsFiniteSet(Asked(w) \ {k}) /\ Cardinality(Asked(w) \ {k}) = Cardinality(Asked(w)) - 1
  BY <1>5, <1>6, FS_RemoveElement
<1>8. Cardinality(Asked(w) \ {k}) \in Nat
  BY <1>7, FS_CardinalityType
<1>9. ASSUME NEW v \in Workers, v # w PROVE Asked(v)' = Asked(v)
  BY <1>2, <1>4, <1>9 DEF Asked
<1>10. MaxCaps \in Nat
  BY HooksAssumption
<1>11. capsIn'[w] = capsIn[w] - 1 /\ \A v \in Workers \ {w} : capsIn'[v] = capsIn[v]
  BY <1>3, <1>2 DEF CallsTyped
<1>12. Unended'
  <2>1. capsIn'[w] = Cardinality(Asked(w)') /\ Of(w) # None
    BY <1>2, <1>5, <1>7, <1>11 DEF Unended
  <2>2. ASSUME NEW v \in Workers, v # w
        PROVE  capsIn'[v] = Cardinality(Asked(v)') /\ (Of(v) = None => Asked(v)' = {})
    BY <1>9, <1>11, <2>2 DEF Unended
  <2>3. QED
    BY <2>1, <2>2 DEF Unended, Of
<1>13. capsIn' \in [Workers -> 0..MaxCaps]
  <2>1. capsIn[w] \in 0..MaxCaps /\ capsIn[w] = Cardinality(Asked(w))
    BY <1>2 DEF CallsTyped, Unended
  <2>2. capsIn[w] - 1 \in 0..MaxCaps
    BY <1>7, <1>8, <1>10, <2>1
  <2>3. QED
    BY <1>3, <2>2 DEF CallsTyped
<1>14. IsFiniteSet(Made')
  <2>1. Made' \subseteq Made
    BY <1>4 DEF Made
  <2>2. QED
    BY <2>1, FS_Subset DEF FinitelyMany
<1>15. QED
  BY <1>4, <1>12, <1>13, <1>14 DEF CallsTyped

LEMMA RunsFinite ==
  ASSUME FinitelyMany, NEW x, \A y \in Execs \ {x} : Running(y)' => Running(y)
  PROVE  IsFiniteSet(Runs')
<1>1. Runs' \subseteq Runs \union {x}
  BY DEF Runs
<1>2. IsFiniteSet(Runs \union {x})
  BY FS_AddElement DEF FinitelyMany
<1>3. QED
  BY <1>1, <1>2, FS_Subset

-----------------------------------------------------------------------------
\* The steps.

LEMMA TheHooksStart == HooksInit => HooksInv
<1>1. SUFFICES ASSUME HooksInit PROVE HooksInv
  OBVIOUS
<1>2. \A x \in Execs : ~Running(x) /\ ~Waiting(x)
  BY <1>1 DEF HooksInit, Running, Waiting
<1>3. \A k \in Caps : cap[k] = Idle
  BY <1>1 DEF HooksInit
<1>4. PluginsTyped /\ RunsTyped /\ AnswersTyped /\ CountsTyped /\ Wired
  BY <1>1, HooksAssumption DEF HooksInit, PluginsTyped, Sorted, RunsTyped, AnswersTyped, CountsTyped, Wired, Event
<1>5. RowsTyped
  BY <1>1, HooksAssumption DEF HooksInit, RowsTyped, State
<1>6. CallsTyped
  BY <1>1, HooksAssumption DEF HooksInit, CallsTyped
<1>7. Loops /\ Firing /\ Causes
  BY <1>2, <1>3 DEF Loops, Firing, Causes
<1>8. FinitelyMany
  <2>1. Runs = {} /\ Made = {}
    BY <1>2, <1>3 DEF Runs, Made
  <2>2. QED
    BY <2>1, FS_EmptySet DEF FinitelyMany
<1>9. Unanswered
  <2>1. \A w, e : Pending(w, e) = {}
    BY <1>2 DEF Pending
  <2>2. Cardinality({}) = 0
    BY FS_EmptySet
  <2>3. QED
    BY <1>1, <2>1, <2>2 DEF Unanswered, HooksInit
<1>10. Unended
  <2>1. \A w : Asked(w) = {}
    BY <1>3 DEF Asked
  <2>2. Cardinality({}) = 0
    BY FS_EmptySet
  <2>3. QED
    BY <1>1, <2>1, <2>2 DEF Unended, HooksInit
<1>11. QED
  BY <1>4, <1>5, <1>6, <1>7, <1>8, <1>9, <1>10 DEF HooksInv

\* A step of one loop.
LEMMA OneRun ==
  ASSUME HooksInv, NEW x \in Execs, UNCHANGED <<plugins, rows>>, RunsTyped',
         \A y \in Execs \ {x} : exec'[y] = exec[y],
         Running(x)' => Track(exec[x], List(x))' /\ Told(x)'
  PROVE  PluginsTyped' /\ Wired' /\ RowsTyped' /\ Loops' /\ IsFiniteSet(Runs')
<1>1. UNCHANGED <<hooks, host, worker, active>>
  BY DEF plugins
<1>2. PluginsTyped' /\ Wired'
  BY <1>1, PluginsKept DEF HooksInv, PluginsTyped
<1>3. RowsTyped' /\ Owner' = Owner
  BY RowsKept DEF HooksInv
<1>4. ASSUME NEW y \in Execs, y # x, Running(y)' PROVE Track(exec[y], List(y))' /\ Told(y)'
  <2>1. exec'[y] = exec[y] /\ Running(y) /\ exec[y] \in Exec /\ List(y)' = List(y)
    BY <1>1, <1>4, Records DEF Running, HooksInv, List
  <2>2. Track(exec[y], List(y)) /\ Told(y)
    BY <2>1 DEF HooksInv, Loops
  <2>3. QED
    BY <1>1, <1>3, <2>1, <2>2, LoopKept
<1>5. Loops'
  BY <1>4 DEF Loops
<1>6. IsFiniteSet(Runs')
  <2>1. \A y \in Execs \ {x} : Running(y)' => Running(y)
    BY DEF Running
  <2>2. QED
    BY <2>1, RunsFinite DEF HooksInv
<1>7. QED
  BY <1>2, <1>3, <1>5, <1>6

LEMMA Fired ==
  ASSUME HooksInv, NEW x \in Execs, NEW e \in Event, NEW k \in Caps \union {None}, ~Running(x),
         Start(x, e, k), UNCHANGED <<plugins, rows>>
  PROVE  /\ RunsTyped' /\ PluginsTyped' /\ Wired' /\ RowsTyped' /\ Loops' /\ IsFiniteSet(Runs')
         /\ exec'[x].event = e /\ exec'[x].cap = k /\ ~Waiting(x)' /\ Running(x)'
         /\ \A y \in Execs \ {x} : exec'[y] = exec[y]
<1> DEFINE s == hooks[e]
           first == {s[i] : i \in 1..Len(s)}
           own == IF e = "received" THEN Owner ELSE None
           r == [event |-> e, live |-> TRUE, list |-> <<>>, i |-> 1, at |-> "next", host |-> None,
                 cap |-> k, ran |-> {}, twice |-> FALSE, moved |-> FALSE, start |-> first,
                 owner |-> own]
<1>1. s \in Seq(Workers) /\ first \subseteq Workers
  BY DEF HooksInv, PluginsTyped
<1>2. own \in Plugins \union {None}
  BY OwnerIsAPlugin DEF HooksInv
<1>3. r \in Exec
  <2> HIDE DEF s, first, own
  <2>1. <<>> \in Seq(Workers)
    OBVIOUS
  <2>2. QED
    BY <1>1, <1>2, <2>1 DEF Exec
<1>4. exec' = [exec EXCEPT ![x] = r]
  BY DEF Start
<1> HIDE DEF r
<1>5. exec'[x] = r /\ \A y \in Execs \ {x} : exec'[y] = exec[y]
  BY <1>4 DEF HooksInv, RunsTyped
<1>6. RunsTyped'
  BY <1>3, <1>4 DEF HooksInv, RunsTyped
<1>7. /\ r.event = e /\ r.live = TRUE /\ r.i = 1 /\ r.at = "next" /\ r.cap = k
      /\ r.ran = {} /\ r.twice = FALSE /\ r.moved = FALSE /\ r.start = first /\ r.owner = own
  BY DEF r
<1>8. hooks' = hooks /\ worker' = worker /\ Owner' = Owner
  BY RowsKept DEF plugins, HooksInv
<1>9. List(x)' = s
  BY <1>5, <1>7, <1>8 DEF List
<1>10. Track(r, s)
  <2>1. \A i, j \in 1..Len(s) : i < j => s[i] # s[j]
    BY DEF HooksInv, PluginsTyped, Sorted
  <2>2. \A i, j \in 1..Len(s) : s[i] = s[j] => i = j
    BY <1>1, <2>1
  <2>3. Passed(r) = 0
    BY <1>7 DEF Passed
  <2>4. QED
    BY <1>1, <1>7, <2>2, <2>3 DEF Track
<1>11. Told(x)'
  BY <1>2, <1>5, <1>7, <1>8, <1>9 DEF Told, HooksInv, Wired, Of
<1>12. Track(exec[x], List(x))'
  BY <1>5, <1>9, <1>10
<1>13. Running(x)' /\ ~Waiting(x)'
  BY <1>3, <1>5, <1>7, Records DEF Running, Waiting
<1>14. QED
  BY <1>5, <1>6, <1>7, <1>11, <1>12, <1>13, OneRun

LEMMA StepExecute ==
  ASSUME HooksInv, NEW x \in Execs, NEW e \in Event, Execute(x, e) PROVE HooksInv'
<1>1. ~Running(x) /\ Start(x, e, None) /\ UNCHANGED <<plugins, inFlight, calls, rows, enables, requests>>
  BY DEF Execute
<1>2. /\ RunsTyped' /\ PluginsTyped' /\ Wired' /\ RowsTyped' /\ Loops' /\ IsFiniteSet(Runs')
      /\ exec'[x].event = e /\ exec'[x].cap = None /\ ~Waiting(x)' /\ Running(x)'
      /\ \A y \in Execs \ {x} : exec'[y] = exec[y]
  BY <1>1, Fired
<1>3. cap' = cap /\ capsIn' = capsIn /\ inFlight' = inFlight
  BY <1>1 DEF calls
<1>4. \A y \in Execs : /\ Waiting(y)' <=> Waiting(y)
                       /\ Waiting(y) => exec'[y] = exec[y]
  BY <1>1, <1>2 DEF Waiting, Running
<1>5. Unanswered' /\ AnswersTyped'
  BY <1>3, <1>4, AnswersKept DEF HooksInv
<1>6. Unended' /\ CallsTyped' /\ IsFiniteSet(Made')
  BY <1>1, <1>3, CallsStay DEF HooksInv, plugins
<1>7. Firing' /\ Causes'
  <2>1. ASSUME NEW y \in Execs, Running(y)'
        PROVE  \/ exec'[y].cap = None
               \/ /\ Running(y) /\ exec'[y] = exec[y] /\ cap'[exec[y].cap] # Idle
    <3>1. CASE y = x
      BY <1>2, <3>1
    <3>2. CASE y # x
      BY <1>2, <1>3, <2>1, <3>2 DEF Running, HooksInv, Firing, FiredBy
    <3>3. QED
      BY <3>1, <3>2
  <2>2. ASSUME NEW k \in Caps, cap'[k] # Idle, cap'[k].cause # None
        PROVE  Waiting(cap[k].cause)' /\ cap[k].cause \in Execs /\ exec'[cap[k].cause] = exec[cap[k].cause]
    <3>1. cap[k] # Idle /\ cap[k].cause # None /\ Waiting(cap[k].cause) /\ cap[k].cause \in Execs
      BY <1>3, <2>2, Records DEF HooksInv, Causes, CausedBy, Cap
    <3>2. QED
      BY <1>3, <1>4, <3>1
  <2>3. QED
    BY <1>3, <2>1, <2>2, LinksKept DEF HooksInv
<1>8. CountsTyped'
  BY HooksAssumption DEF HooksInv, CountsTyped, Execute
<1>9. QED
  BY <1>2, <1>5, <1>6, <1>7, <1>8 DEF HooksInv, FinitelyMany

LEMMA NextIsARun == \A r \in Exec : NextHandler(r) \in Exec
<1>1. SUFFICES ASSUME NEW r \in Exec PROVE NextHandler(r) \in Exec
  OBVIOUS
<1>2. r.i + 1 \in Nat \ {0}
  BY DEF Exec
<1>3. NextHandler(r) = [[[r EXCEPT !.at = "next"] EXCEPT !.i = r.i + 1] EXCEPT !.host = None]
  BY DEF NextHandler, Exec
<1>4. QED
  BY <1>2, <1>3 DEF Exec

\* Calls on behalf of handlers whose turn is over.
LEMMA Uncausing ==
  ASSUME CallsTyped, NEW set
  PROVE  /\ Uncaused(set) \in [Caps -> Cap \union {Idle}]
         /\ \A k \in Caps :
              /\ Uncaused(set)[k] # Idle <=> cap[k] # Idle
              /\ cap[k] # Idle =>
                   /\ Uncaused(set)[k].at = cap[k].at /\ Uncaused(set)[k].worker = cap[k].worker
                   /\ Uncaused(set)[k].cause = IF cap[k].cause \in set THEN None ELSE cap[k].cause
<1>1. ASSUME NEW k \in Caps, cap[k] # Idle, cap[k].cause \in set
      PROVE  /\ Uncaused(set)[k] \in Cap /\ Uncaused(set)[k] # Idle
             /\ Uncaused(set)[k].at = cap[k].at /\ Uncaused(set)[k].worker = cap[k].worker
             /\ Uncaused(set)[k].cause = None
  <2>1. cap[k] \in Cap
    BY <1>1, Records
  <2>2. Uncaused(set)[k] = [cap[k] EXCEPT !.cause = None]
    BY <1>1 DEF Uncaused
  <2>3. [cap[k] EXCEPT !.cause = None] \in Cap
    BY <2>1 DEF Cap
  <2>4. QED
    BY <2>1, <2>2, <2>3, Records DEF Cap
<1>2. ASSUME NEW k \in Caps, cap[k] # Idle, cap[k].cause \notin set PROVE Uncaused(set)[k] = cap[k]
  BY <1>2 DEF Uncaused
<1>3. ASSUME NEW k \in Caps, cap[k] = Idle PROVE Uncaused(set)[k] = Idle
  BY <1>3 DEF Uncaused
<1>4. \A k \in Caps : Uncaused(set)[k] \in Cap \union {Idle}
  BY <1>1, <1>2, <1>3, Records
<1>5. Uncaused(set) \in [Caps -> Cap \union {Idle}]
  <2>1. DOMAIN Uncaused(set) = Caps /\ Uncaused(set) = [k \in Caps |-> Uncaused(set)[k]]
    BY DEF Uncaused
  <2>2. QED
    BY <1>4, <2>1
<1>6. QED
  BY <1>1, <1>2, <1>3, <1>5

\* The turns of these handlers are over, and no call is on their behalf any more.
LEMMA TurnsEnd ==
  ASSUME HooksInv, NEW set \in SUBSET Execs, NEW b \in BOOLEAN, \A x \in set : Waiting(x),
         Settled(set, b), cap' = Uncaused(set), UNCHANGED <<capsIn, rows, counts>>,
         exec' = [x \in Execs |-> IF x \in set THEN NextHandler(exec[x]) ELSE exec[x]],
         hooks' = hooks, host' = host, active' = active, PluginsTyped', Wired',
         \A w \in Workers : worker'[w].plugin = worker[w].plugin
  PROVE  HooksInv'
<1>1. ASSUME NEW x \in set
      PROVE  /\ Running(x) /\ exec[x].at = "wait" /\ exec[x] \in Exec /\ exec'[x] = NextHandler(exec[x])
             /\ exec'[x] \in Exec /\ exec'[x].at = "next" /\ exec'[x].cap = exec[x].cap
             /\ exec'[x].event = exec[x].event /\ List(x)' = List(x)
  <2>1. Running(x) /\ exec[x].at = "wait" /\ exec[x] \in Exec
    BY <1>1, Records DEF Waiting, HooksInv
  <2>2. exec'[x] = [exec[x] EXCEPT !.at = "next", !.i = @ + 1, !.host = None]
    BY <1>1 DEF NextHandler
  <2>3. exec'[x] \in Exec
    BY <1>1, <2>1, NextIsARun
  <2>4. QED
    BY <2>1, <2>2, <2>3 DEF NextHandler, Exec, List
<1>2. ASSUME NEW x \in Execs \ set PROVE exec'[x] = exec[x]
  OBVIOUS
<1>3. RunsTyped'
  BY <1>1, <1>2 DEF RunsTyped, HooksInv
<1>4. RowsTyped' /\ Owner' = Owner /\ CountsTyped'
  BY RowsKept DEF HooksInv, CountsTyped, counts
<1>5. \A x \in Execs : Running(x)' <=> Running(x)
  BY <1>1, <1>2, Records DEF Running
<1>6. \A x \in Execs : /\ Waiting(x)' <=> Waiting(x) /\ x \notin set
                       /\ Waiting(x)' => exec'[x] = exec[x]
  BY <1>1, <1>2, <1>5 DEF Waiting
<1>7. Unanswered' /\ AnswersTyped'
  BY <1>6, AnswersGo DEF HooksInv
<1>8. Loops'
  <2>1. ASSUME NEW x \in Execs, Running(x) PROVE Track(exec[x], List(x))' /\ Told(x)'
    <3>1. Track(exec[x], List(x)) /\ Told(x) /\ exec[x] \in Exec
      BY <2>1, Records DEF HooksInv, Loops
    <3>2. CASE x \in set
      BY <1>1, <1>4, <3>1, <3>2, LoopTurns
    <3>3. CASE x \notin set
      <4>1. exec'[x] = exec[x] /\ List(x)' = List(x)
        BY <3>3, <1>2 DEF List
      <4>2. \A i \in 1..Len(List(x)) : List(x)[i] \in Workers
        BY <3>1 DEF Track
      <4>3. QED
        BY <1>4, <2>1, <3>1, <4>1, <4>2, LoopKept
    <3>4. QED
      BY <3>2, <3>3
  <2>2. QED
    BY <1>5, <2>1 DEF Loops
<1>9. /\ cap' \in [Caps -> Cap \union {Idle}]
      /\ \A k \in Caps :
           /\ cap'[k] # Idle <=> cap[k] # Idle
           /\ cap[k] # Idle =>
                /\ cap'[k].at = cap[k].at /\ cap'[k].worker = cap[k].worker
                /\ cap'[k].cause = IF cap[k].cause \in set THEN None ELSE cap[k].cause
  BY Uncausing DEF HooksInv
<1>10. Firing' /\ Causes'
  <2>1. ASSUME NEW x \in Execs, Running(x)', exec'[x].cap # None
        PROVE  /\ Running(x) /\ exec'[x].cap = exec[x].cap /\ exec'[x].event = exec[x].event
               /\ cap'[exec[x].cap] # Idle /\ cap'[exec[x].cap].at = cap[exec[x].cap].at
    <3>1. Running(x) /\ exec'[x].cap = exec[x].cap /\ exec'[x].event = exec[x].event
      BY <1>1, <1>2, <1>5, <2>1
    <3>2. cap[exec[x].cap] # Idle /\ exec[x].cap \in Caps
      BY <2>1, <3>1, Records DEF HooksInv, Firing, FiredBy, Exec
    <3>3. QED
      BY <1>9, <3>1, <3>2
  <2>2. ASSUME NEW k \in Caps, cap'[k] # Idle, cap'[k].cause # None
        PROVE  /\ cap[k] # Idle /\ cap'[k].cause = cap[k].cause /\ cap[k].cause \in Execs
               /\ Waiting(cap[k].cause)' /\ exec'[cap[k].cause].event = exec[cap[k].cause].event
               /\ cap'[k].at = cap[k].at
    <3>1. cap[k] # Idle /\ cap'[k].cause = cap[k].cause /\ cap[k].cause \notin set /\ cap'[k].at = cap[k].at
      BY <1>9, <2>2
    <3>2. cap[k].cause \in Execs /\ Waiting(cap[k].cause)
      BY <2>2, <3>1, Records DEF HooksInv, Causes, CausedBy, Cap
    <3>3. QED
      BY <1>6, <3>1, <3>2
  <2>3. QED
    BY <2>1, <2>2, LinksKept DEF HooksInv
<1>11. Unended' /\ CallsTyped'
  BY <1>9, CallsKept DEF HooksInv
<1>12. FinitelyMany'
  <2>1. Runs' = Runs /\ Made' = Made
    BY <1>5, <1>9 DEF Runs, Made
  <2>2. QED
    BY <2>1 DEF HooksInv, FinitelyMany
<1>13. QED
  BY <1>3, <1>4, <1>7, <1>8, <1>10, <1>11, <1>12 DEF HooksInv

LEMMA StepHookTimeout ==
  ASSUME HooksInv, NEW x \in Execs, HookTimeout(x) PROVE HooksInv'
<1>1. UNCHANGED <<hooks, host, worker, active>> /\ UNCHANGED <<capsIn, rows, counts>>
  BY DEF HookTimeout, plugins
<1>2. PluginsTyped' /\ Wired'
  BY <1>1, PluginsKept DEF HooksInv, PluginsTyped
<1>3. exec' = [y \in Execs |-> IF y \in {x} THEN NextHandler(exec[y]) ELSE exec[y]]
  BY DEF HookTimeout, HooksInv, RunsTyped
<1>4. Waiting(x) /\ Settled({x}, FALSE) /\ cap' = Uncaused({x})
  BY DEF HookTimeout
<1>5. QED
  BY <1>1, <1>2, <1>3, <1>4, TurnsEnd

LEMMA StepHandleExit ==
  ASSUME HooksInv, NEW w \in Workers, HandleExit(w) PROVE HooksInv'
<1>1. UNCHANGED <<hooks, host, active>> /\ UNCHANGED <<capsIn, rows, counts>>
  BY DEF HandleExit
<1>2. worker \in [Workers -> [plugin: Plugins \union {None}, alive: BOOLEAN]]
  BY DEF HooksInv, PluginsTyped
<1>3. worker' = [worker EXCEPT ![w].alive = FALSE]
  BY DEF HandleExit
<1>4. /\ worker' \in [Workers -> [plugin: Plugins \union {None}, alive: BOOLEAN]]
      /\ \A v \in Workers : worker'[v].alive => worker[v].alive
  BY <1>2, <1>3
<1>5. \A v \in Workers : worker'[v].plugin = worker[v].plugin
  BY <1>2, <1>3
<1>6. PluginsTyped' /\ Wired'
  <2>1. \A e \in Event : hooks[e] \in Seq(Workers) /\ \A i \in 1..Len(hooks[e]) : hooks[e][i] \in Workers
    BY DEF HooksInv, PluginsTyped
  <2>2. Sorted'
    BY <1>1, <1>5, <2>1 DEF HooksInv, PluginsTyped, Sorted
  <2>3. Wired'
    BY <1>1, <1>4, <1>5, <2>1 DEF HooksInv, PluginsTyped, Wired, Of
  <2>4. QED
    BY <1>1, <1>4, <2>2, <2>3 DEF HooksInv, PluginsTyped
<1>7. On(w) \in SUBSET Execs /\ \A x \in On(w) : Waiting(x)
  BY DEF On
<1>8. exec' = [x \in Execs |-> IF x \in On(w) THEN NextHandler(exec[x]) ELSE exec[x]]
  BY DEF HandleExit, Drained
<1>9. Settled(On(w), FALSE) /\ cap' = Uncaused(On(w))
  BY DEF HandleExit
<1>10. QED
  BY <1>1, <1>5, <1>6, <1>7, <1>8, <1>9, TurnsEnd

\* The event's loop is over.
LEMMA RunEnds ==
  ASSUME HooksInv, NEW x \in Execs, Running(x), exec' = [exec EXCEPT ![x] = Idle],
         RunOver(x, Uncaused({x})), UNCHANGED <<plugins, capsIn, rows, counts>>,
         Unanswered' /\ AnswersTyped'
  PROVE  HooksInv'
<1> DEFINE U == Uncaused({x})
<1>1. exec[x] \in Exec /\ exec[x].cap \in Caps \union {None}
  BY Records DEF HooksInv, Exec
<1>2. exec'[x] = Idle /\ \A y \in Execs \ {x} : exec'[y] = exec[y]
  BY DEF HooksInv, RunsTyped
<1>3. /\ U \in [Caps -> Cap \union {Idle}]
      /\ \A k \in Caps :
           /\ U[k] # Idle <=> cap[k] # Idle
           /\ cap[k] # Idle =>
                /\ U[k].at = cap[k].at /\ U[k].worker = cap[k].worker
                /\ U[k].cause = IF cap[k].cause \in {x} THEN None ELSE cap[k].cause
  BY Uncausing DEF HooksInv
<1> HIDE DEF U
<1>4. /\ cap' \in [Caps -> Cap \union {Idle}]
      /\ \A k \in Caps :
           /\ cap'[k] # Idle <=> cap[k] # Idle
           /\ cap[k] # Idle =>
                /\ cap'[k].at = (IF k = exec[x].cap THEN "act" ELSE cap[k].at)
                /\ cap'[k].worker = cap[k].worker
                /\ cap'[k].cause = IF cap[k].cause = x THEN None ELSE cap[k].cause
  <2>1. CASE exec[x].cap = None
    <3>1. cap' = U /\ None \notin Caps
      BY <2>1, HooksAssumption DEF RunOver, U
    <3>2. QED
      BY <1>3, <2>1, <3>1
  <2>2. CASE exec[x].cap # None
    <3>1. PICK j \in Caps : j = exec[x].cap
      BY <1>1, <2>2
    <3>2. cap' = [U EXCEPT ![j].at = "act"]
      BY <2>2, <3>1 DEF RunOver, U
    <3>3. cap[j] # Idle
      BY <2>2, <3>1 DEF HooksInv, Firing, FiredBy
    <3>4. U[j] \in Cap
      BY <1>3, <3>3, Records
    <3>5. [U[j] EXCEPT !.at = "act"] \in Cap
      BY <3>4 DEF Cap
    <3>6. cap'[j] = [U[j] EXCEPT !.at = "act"] /\ \A k \in Caps \ {j} : cap'[k] = U[k]
      BY <1>3, <3>2
    <3>7. cap' \in [Caps -> Cap \union {Idle}]
      BY <1>3, <3>2, <3>5
    <3>8. /\ cap'[j] # Idle /\ cap'[j].at = "act" /\ cap'[j].worker = U[j].worker
          /\ cap'[j].cause = U[j].cause
      BY <3>4, <3>5, <3>6, Records DEF Cap
    <3>9. ASSUME NEW k \in Caps, k # j
          PROVE  /\ cap'[k] # Idle <=> cap[k] # Idle
                 /\ cap[k] # Idle =>
                      /\ cap'[k].at = cap[k].at /\ cap'[k].worker = cap[k].worker
                      /\ cap'[k].cause = IF cap[k].cause = x THEN None ELSE cap[k].cause
      BY <1>3, <3>6, <3>9
    <3>10. cap'[j].worker = cap[j].worker /\ cap'[j].cause = IF cap[j].cause = x THEN None ELSE cap[j].cause
      BY <1>3, <3>3, <3>8
    <3>11. QED
      BY <3>1, <3>3, <3>7, <3>8, <3>9, <3>10
  <2>3. QED
    BY <2>1, <2>2
<1>5. RunsTyped'
  BY DEF HooksInv, RunsTyped
<1>6. \A y \in Execs : Running(y)' <=> Running(y) /\ y # x
  BY <1>2 DEF Running
<1>7. PluginsTyped' /\ Wired' /\ RowsTyped' /\ Loops' /\ IsFiniteSet(Runs')
  <2>1. UNCHANGED <<plugins, rows>> /\ ~Running(x)'
    BY <1>6
  <2>2. QED
    BY <1>2, <1>5, <2>1, OneRun
<1>8. Firing' /\ Causes'
  <2>1. ASSUME NEW y \in Execs, Running(y)', exec'[y].cap # None
        PROVE  /\ Running(y) /\ exec'[y].cap = exec[y].cap /\ exec'[y].event = exec[y].event
               /\ cap'[exec[y].cap] # Idle /\ cap'[exec[y].cap].at = cap[exec[y].cap].at
    <3>1. Running(y) /\ y # x /\ exec'[y] = exec[y]
      BY <1>2, <1>6, <2>1
    <3>2. cap[exec[y].cap] # Idle /\ exec[y].cap \in Caps
      BY <2>1, <3>1, Records DEF HooksInv, Firing, FiredBy, Exec
    <3>3. exec[y].cap # exec[x].cap
      BY <2>1, <3>1 DEF HooksInv, Firing, FiredBy
    <3>4. QED
      BY <1>4, <3>1, <3>2, <3>3
  <2>2. ASSUME NEW k \in Caps, cap'[k] # Idle, cap'[k].cause # None
        PROVE  /\ cap[k] # Idle /\ cap'[k].cause = cap[k].cause /\ cap[k].cause \in Execs
               /\ Waiting(cap[k].cause)' /\ exec'[cap[k].cause].event = exec[cap[k].cause].event
               /\ cap'[k].at = "hooks" => cap[k].at = "hooks"
    <3>1. /\ cap[k] # Idle /\ cap'[k].cause = cap[k].cause /\ cap[k].cause # x
          /\ cap'[k].at = "hooks" => cap[k].at = "hooks"
      BY <1>4, <2>2
    <3>2. cap[k].cause \in Execs /\ Waiting(cap[k].cause)
      BY <2>2, <3>1, Records DEF HooksInv, Causes, CausedBy, Cap
    <3>3. QED
      BY <1>2, <3>1, <3>2 DEF Waiting, Running
  <2>3. QED
    BY <2>1, <2>2, LinksKept DEF HooksInv
<1>9. Unended' /\ CallsTyped'
  BY <1>4, CallsKept DEF HooksInv, plugins
<1>10. IsFiniteSet(Made')
  <2>1. Made' = Made
    BY <1>4 DEF Made
  <2>2. QED
    BY <2>1 DEF HooksInv, FinitelyMany
<1>11. CountsTyped'
  BY DEF HooksInv, CountsTyped, counts
<1>12. QED
  BY <1>5, <1>7, <1>8, <1>9, <1>10, <1>11 DEF HooksInv, FinitelyMany

LEMMA StepFinish ==
  ASSUME HooksInv, NEW x \in Execs, Finish(x) PROVE HooksInv'
<1>1. /\ Running(x) /\ exec[x].at = "next" /\ exec' = [exec EXCEPT ![x] = Idle]
      /\ RunOver(x, Uncaused({x})) /\ UNCHANGED <<plugins, inFlight, capsIn, rows, counts>>
  BY DEF Finish
<1>2. \A y \in Execs : /\ Waiting(y)' <=> Waiting(y)
                       /\ Waiting(y) => exec'[y] = exec[y]
  BY <1>1 DEF Waiting, Running, HooksInv, RunsTyped
<1>3. Unanswered' /\ AnswersTyped'
  BY <1>1, <1>2, AnswersKept DEF HooksInv
<1>4. QED
  BY <1>1, <1>3, RunEnds

LEMMA StepHookResult ==
  ASSUME HooksInv, NEW x \in Execs, HookResult(x) PROVE HooksInv'
<1>1. Waiting(x) /\ Settled({x}, TRUE) /\ UNCHANGED <<plugins, capsIn, rows, counts>>
  BY DEF HookResult
<1>2. CASE exec' = [exec EXCEPT ![x] = NextHandler(@)] /\ cap' = Uncaused({x})
  <2>1. UNCHANGED <<hooks, host, worker, active>> /\ UNCHANGED <<capsIn, rows, counts>>
    BY <1>1 DEF plugins
  <2>2. PluginsTyped' /\ Wired'
    BY <2>1, PluginsKept DEF HooksInv, PluginsTyped
  <2>3. exec' = [y \in Execs |-> IF y \in {x} THEN NextHandler(exec[y]) ELSE exec[y]]
    BY <1>2 DEF HooksInv, RunsTyped
  <2>4. QED
    BY <1>1, <1>2, <2>1, <2>2, <2>3, TurnsEnd
<1>3. CASE exec' = [exec EXCEPT ![x] = Idle] /\ RunOver(x, Uncaused({x}))
  <2>1. exec'[x] = Idle /\ \A y \in Execs \ {x} : exec'[y] = exec[y]
    BY <1>3 DEF HooksInv, RunsTyped
  <2>2. \A y \in Execs : /\ Waiting(y)' <=> Waiting(y) /\ y \notin {x}
                         /\ Waiting(y)' => exec'[y] = exec[y]
    BY <2>1 DEF Waiting, Running
  <2>3. Unanswered' /\ AnswersTyped'
    BY <1>1, <2>2, AnswersGo DEF HooksInv
  <2>4. QED
    BY <1>1, <1>3, <2>3, RunEnds DEF Waiting
<1>4. QED
  BY <1>2, <1>3 DEF HookResult

\* A step of one loop that fires and ends nothing.
LEMMA RunMoves ==
  ASSUME HooksInv, NEW x \in Execs, Running(x), exec'[x] \in Exec, ~Waiting(x),
         \A y \in Execs \ {x} : exec'[y] = exec[y], RunsTyped',
         exec'[x].cap = exec[x].cap, exec'[x].event = exec[x].event,
         UNCHANGED <<plugins, calls, rows, counts>>,
         Track(exec[x], List(x))' /\ Told(x)',
         Unanswered' /\ AnswersTyped'
  PROVE  HooksInv'
<1>1. cap' = cap /\ capsIn' = capsIn
  BY DEF calls
<1>2. PluginsTyped' /\ Wired' /\ RowsTyped' /\ Loops' /\ IsFiniteSet(Runs')
  BY OneRun
<1>3. Firing' /\ Causes'
  <2>1. ASSUME NEW y \in Execs, Running(y)', exec'[y].cap # None
        PROVE  /\ Running(y) /\ exec'[y].cap = exec[y].cap /\ exec'[y].event = exec[y].event
               /\ cap'[exec[y].cap] # Idle
    <3>1. Running(y) /\ exec'[y].cap = exec[y].cap /\ exec'[y].event = exec[y].event
      BY <2>1 DEF Running
    <3>2. QED
      BY <1>1, <2>1, <3>1 DEF HooksInv, Firing, FiredBy
  <2>2. ASSUME NEW k \in Caps, cap'[k] # Idle, cap'[k].cause # None
        PROVE  /\ cap[k] # Idle /\ cap[k].cause \in Execs
               /\ Waiting(cap[k].cause)' /\ exec'[cap[k].cause].event = exec[cap[k].cause].event
    <3>1. cap[k] # Idle /\ cap[k].cause \in Execs /\ Waiting(cap[k].cause)
      BY <1>1, <2>2, Records DEF HooksInv, Causes, CausedBy, Cap
    <3>2. QED
      BY <1>1, <3>1 DEF Waiting, Running
  <2>3. QED
    BY <1>1, <2>1, <2>2, LinksKept DEF HooksInv
<1>4. Unended' /\ CallsTyped' /\ IsFiniteSet(Made')
  BY <1>1, CallsStay DEF HooksInv, plugins
<1>5. CountsTyped'
  BY DEF HooksInv, CountsTyped, counts
<1>6. QED
  BY <1>2, <1>3, <1>4, <1>5 DEF HooksInv, FinitelyMany

LEMMA StepInvoke ==
  ASSUME HooksInv, NEW x \in Execs, Invoke(x) PROVE HooksInv'
<1> DEFINE l == List(x)
           n == exec[x].i
           w == l[n]
           h == host[Of(w)]
           r == [exec[x] EXCEPT !.ran = @ \union {w}, !.twice = @ \/ w \in exec[x].ran]
<1>1. /\ Running(x) /\ exec[x].at = "next" /\ n <= Len(l) /\ exec[x] \in Exec
      /\ UNCHANGED <<plugins, calls, rows, counts>> /\ hooks' = hooks /\ worker' = worker
      /\ Owner' = Owner
  BY Records, RowsKept DEF Invoke, plugins, HooksInv
<1>2. Track(exec[x], l) /\ Told(x)
  BY <1>1 DEF HooksInv, Loops
<1>3. n \in 1..Len(l) /\ w \in Workers /\ Of(w) \in Plugins /\ n \in Nat \ {0}
  BY <1>1, <1>2 DEF Track, Told, Exec
<1>4. h \in Workers \union {None}
  BY <1>3 DEF HooksInv, PluginsTyped
<1>5. /\ r \in Exec /\ r.event = exec[x].event /\ r.live = exec[x].live /\ r.list = exec[x].list
      /\ r.i = n /\ r.at = "next" /\ r.cap = exec[x].cap /\ r.host = exec[x].host
      /\ r.ran = exec[x].ran \union {w} /\ r.twice = (exec[x].twice \/ w \in exec[x].ran)
      /\ r.moved = exec[x].moved /\ r.start = exec[x].start /\ r.owner = exec[x].owner
  <2>1. exec[x].ran \union {w} \in SUBSET Workers
    BY <1>1, <1>3 DEF Exec
  <2>2. (exec[x].twice \/ w \in exec[x].ran) \in BOOLEAN
    OBVIOUS
  <2> HIDE DEF w
  <2>3. QED
    BY <1>1, <2>1, <2>2 DEF Exec
<1>6. ~Waiting(x)
  BY <1>1 DEF Waiting
<1> HIDE DEF r, w, h
<1>7. ASSUME NEW q \in Exec, exec' = [exec EXCEPT ![x] = q],
             q.event = r.event, q.live = r.live, q.list = r.list, q.cap = r.cap, q.ran = r.ran,
             q.twice = r.twice, q.moved = r.moved, q.start = r.start, q.owner = r.owner
      PROVE  /\ exec'[x] = q /\ \A y \in Execs \ {x} : exec'[y] = exec[y]
             /\ RunsTyped' /\ List(x)' = l /\ Running(x)'
             /\ (Passed(q) = n => Track(exec[x], List(x))')
  <2>1. exec'[x] = q /\ \A y \in Execs \ {x} : exec'[y] = exec[y]
    BY <1>7 DEF HooksInv, RunsTyped
  <2>2. RunsTyped'
    BY <1>7 DEF HooksInv, RunsTyped
  <2>3. List(x)' = l
    BY <1>1, <1>5, <1>7, <2>1 DEF List
  <2>4. ASSUME Passed(q) = n PROVE Track(q, l)
    BY <1>1, <1>2, <1>3, <1>5, <1>7, <2>4, TrackAdvances DEF w
  <2>5. QED
    BY <2>1, <2>2, <2>3, <2>4, Records DEF Running
<1>8. CASE exec' = [exec EXCEPT ![x] = NextHandler(r)] /\ UNCHANGED inFlight
  <2> DEFINE q == NextHandler(r)
  <2>1. q \in Exec
    BY <1>5, NextIsARun
  <2>2. /\ q.event = r.event /\ q.live = r.live /\ q.list = r.list /\ q.cap = r.cap /\ q.ran = r.ran
        /\ q.twice = r.twice /\ q.moved = r.moved /\ q.start = r.start /\ q.owner = r.owner
        /\ q.at = "next" /\ q.i = n + 1
    BY <1>5 DEF NextHandler, Exec
  <2> HIDE DEF q
  <2>3. Passed(q) = n
    BY <1>3, <2>2 DEF Passed
  <2>4. /\ exec'[x] = q /\ \A y \in Execs \ {x} : exec'[y] = exec[y]
        /\ RunsTyped' /\ List(x)' = l /\ Running(x)' /\ Track(exec[x], List(x))'
    BY <1>7, <1>8, <2>1, <2>2, <2>3 DEF q
  <2>5. Told(x)'
    BY <1>1, <1>2, <1>5, <2>2, <2>4 DEF Told, Of
  <2>6. \A y \in Execs : /\ Waiting(y)' <=> Waiting(y)
                         /\ Waiting(y) => exec'[y] = exec[y]
    BY <1>6, <2>2, <2>4 DEF Waiting, Running
  <2>7. Unanswered' /\ AnswersTyped'
    BY <1>8, <2>6, AnswersKept DEF HooksInv
  <2>8. QED
    BY <1>1, <1>5, <1>6, <2>1, <2>2, <2>4, <2>5, <2>7, RunMoves
<1>9. CASE /\ exec' = [exec EXCEPT ![x] = [r EXCEPT !.at = "gate", !.host = h]]
           /\ h # None /\ r.event = "received" /\ UNCHANGED inFlight
  <2> DEFINE q == [r EXCEPT !.at = "gate", !.host = h]
  <2>1. q \in Exec
    BY <1>4, <1>5 DEF Exec
  <2>2. /\ q.event = r.event /\ q.live = r.live /\ q.list = r.list /\ q.cap = r.cap /\ q.ran = r.ran
        /\ q.twice = r.twice /\ q.moved = r.moved /\ q.start = r.start /\ q.owner = r.owner
        /\ q.at = "gate" /\ q.i = n /\ q.host = h
    BY <1>5 DEF Exec
  <2> HIDE DEF q
  <2>3. Passed(q) = n
    BY <2>2 DEF Passed
  <2>4. /\ exec'[x] = q /\ \A y \in Execs \ {x} : exec'[y] = exec[y]
        /\ RunsTyped' /\ List(x)' = l /\ Running(x)' /\ Track(exec[x], List(x))'
    BY <1>7, <1>9, <2>1, <2>2, <2>3 DEF q
  <2>5. Told(x)'
    BY <1>1, <1>2, <1>4, <1>5, <1>9, <2>2, <2>4 DEF Told, Of
  <2>6. \A y \in Execs : /\ Waiting(y)' <=> Waiting(y)
                         /\ Waiting(y) => exec'[y] = exec[y]
    BY <1>6, <2>2, <2>4 DEF Waiting, Running
  <2>7. Unanswered' /\ AnswersTyped'
    BY <1>9, <2>6, AnswersKept DEF HooksInv
  <2>8. QED
    BY <1>1, <1>5, <1>6, <2>1, <2>2, <2>4, <2>5, <2>7, RunMoves
<1>10. CASE Dispatch(x, [r EXCEPT !.host = h]) /\ h # None /\ r.event # "received"
  <2> DEFINE q == [[r EXCEPT !.host = h] EXCEPT !.at = "wait"]
  <2>1. q \in Exec
    BY <1>4, <1>5 DEF Exec
  <2>2. /\ q.event = r.event /\ q.live = r.live /\ q.list = r.list /\ q.cap = r.cap /\ q.ran = r.ran
        /\ q.twice = r.twice /\ q.moved = r.moved /\ q.start = r.start /\ q.owner = r.owner
        /\ q.at = "wait" /\ q.i = n /\ q.host = h
    BY <1>5 DEF Exec
  <2>3. exec' = [exec EXCEPT ![x] = q] /\ inFlight' = [inFlight EXCEPT ![h][r.event] = @ + 1]
    BY <1>5, <1>10 DEF Dispatch, Exec
  <2> HIDE DEF q
  <2>4. Passed(q) = n
    BY <2>2 DEF Passed
  <2>5. /\ exec'[x] = q /\ \A y \in Execs \ {x} : exec'[y] = exec[y]
        /\ RunsTyped' /\ List(x)' = l /\ Running(x)' /\ Track(exec[x], List(x))'
    BY <1>7, <2>1, <2>2, <2>3, <2>4
  <2>6. Told(x)'
    BY <1>1, <1>2, <1>4, <1>5, <1>10, <2>2, <2>5 DEF Told, Of
  <2>7. Waiting(x)' /\ r.event \in Event /\ h \in Workers
    BY <1>4, <1>5, <1>10, <2>2, <2>5 DEF Waiting, Exec
  <2>8. Unanswered' /\ AnswersTyped'
    BY <1>6, <2>2, <2>3, <2>5, <2>7, AnswerIsDue DEF HooksInv
  <2>9. QED
    BY <1>1, <1>5, <1>6, <2>1, <2>2, <2>5, <2>6, <2>8, RunMoves
<1>11. QED
  BY <1>8, <1>9, <1>10 DEF Invoke, r, h, w

LEMMA StepGate ==
  ASSUME HooksInv, NEW x \in Execs, Gate(x) PROVE HooksInv'
<1>1. /\ Running(x) /\ exec[x].at = "gate" /\ exec[x] \in Exec /\ ~Waiting(x)
      /\ UNCHANGED <<plugins, calls, rows, counts>> /\ hooks' = hooks /\ worker' = worker
      /\ Owner' = Owner
  BY Records, RowsKept DEF Gate, plugins, HooksInv, Waiting
<1>2. Track(exec[x], List(x)) /\ Told(x)
  BY <1>1 DEF HooksInv, Loops
<1>3. exec[x].host \in Workers /\ exec[x].event \in Event
  BY <1>1, <1>2 DEF Told, Exec
<1>4. ASSUME NEW own, own \in {exec[x].owner, None}, own \in {None, Of(exec[x].host)},
             exec' = [exec EXCEPT ![x] = [exec[x] EXCEPT !.owner = own, !.at = "wait"]],
             inFlight' = [inFlight EXCEPT ![exec[x].host][exec[x].event] = @ + 1]
      PROVE  HooksInv'
  <2> DEFINE q == [exec[x] EXCEPT !.owner = own, !.at = "wait"]
  <2>1. q \in Exec
    BY <1>1, <1>4 DEF Exec
  <2>2. /\ q.event = exec[x].event /\ q.live = exec[x].live /\ q.list = exec[x].list
        /\ q.cap = exec[x].cap /\ q.ran = exec[x].ran /\ q.twice = exec[x].twice
        /\ q.moved = exec[x].moved /\ q.start = exec[x].start /\ q.owner = own
        /\ q.at = "wait" /\ q.i = exec[x].i /\ q.host = exec[x].host
    BY <1>1 DEF Exec
  <2>3. exec'[x] = q /\ \A y \in Execs \ {x} : exec'[y] = exec[y]
    BY <1>4 DEF HooksInv, RunsTyped
  <2>4. RunsTyped'
    BY <1>4, <2>1 DEF HooksInv, RunsTyped
  <2> HIDE DEF q
  <2>5. List(x)' = List(x) /\ Running(x)' /\ Waiting(x)'
    BY <1>1, <2>1, <2>2, <2>3, Records DEF List, Running, Waiting
  <2>6. Passed(q) = Passed(exec[x])
    BY <1>1, <2>2 DEF Passed
  <2>7. Track(exec[x], List(x))'
    BY <1>2, <2>2, <2>3, <2>5, <2>6, TrackStays
  <2>8. Told(x)'
    BY <1>1, <1>2, <1>4, <2>2, <2>3, <2>5 DEF Told, Of
  <2>9. Unanswered' /\ AnswersTyped'
    BY <1>1, <1>3, <1>4, <2>2, <2>3, <2>5, AnswerIsDue DEF HooksInv
  <2>10. QED
    BY <1>1, <2>1, <2>2, <2>3, <2>4, <2>7, <2>8, <2>9, RunMoves
<1>5. CASE ShouldDispatchToPlugin(Of(exec[x].host)) /\ Dispatch(x, exec[x])
  <2>1. exec[x].owner \in {None, Of(exec[x].host)}
    BY <1>2, <1>5 DEF Told, ShouldDispatchToPlugin
  <2>2. [exec[x] EXCEPT !.owner = exec[x].owner, !.at = "wait"] = [exec[x] EXCEPT !.at = "wait"]
    BY <1>1 DEF Exec
  <2>3. QED
    BY <1>4, <1>5, <2>1, <2>2 DEF Dispatch
<1>6. CASE exec' = [exec EXCEPT ![x] = NextHandler(@)] /\ UNCHANGED inFlight
  <2>1. exec'[x] = NextHandler(exec[x]) /\ \A y \in Execs \ {x} : exec'[y] = exec[y]
    BY <1>6 DEF HooksInv, RunsTyped
  <2>2. /\ exec'[x] \in Exec /\ exec'[x].at = "next" /\ exec'[x].cap = exec[x].cap
        /\ exec'[x].event = exec[x].event /\ exec'[x].live = exec[x].live /\ exec'[x].list = exec[x].list
    <3>1. exec'[x] \in Exec
      BY <1>1, <2>1, NextIsARun
    <3>2. QED
      BY <1>1, <2>1, <3>1 DEF NextHandler, Exec
  <2>3. RunsTyped'
    BY <1>6, <2>1, <2>2 DEF HooksInv, RunsTyped
  <2>4. List(x)' = List(x)
    BY <1>1, <2>2 DEF List
  <2>5. Track(exec[x], List(x))' /\ Told(x)'
    BY <1>1, <1>2, <2>1, <2>4, LoopTurns
  <2>6. \A y \in Execs : /\ Waiting(y)' <=> Waiting(y)
                         /\ Waiting(y) => exec'[y] = exec[y]
    BY <1>1, <2>1, <2>2 DEF Waiting, Running
  <2>7. Unanswered' /\ AnswersTyped'
    BY <1>6, <2>6, AnswersKept DEF HooksInv
  <2>8. QED
    BY <1>1, <2>1, <2>2, <2>3, <2>5, <2>7, RunMoves
<1>7. CASE Dispatch(x, [exec[x] EXCEPT !.owner = None])
  <2>1. /\ [exec[x] EXCEPT !.owner = None].host = exec[x].host
        /\ [exec[x] EXCEPT !.owner = None].event = exec[x].event
    BY <1>1 DEF Exec
  <2>2. [[exec[x] EXCEPT !.owner = None] EXCEPT !.at = "wait"]
          = [exec[x] EXCEPT !.owner = None, !.at = "wait"]
    OBVIOUS
  <2>3. QED
    BY <1>4, <1>7, <2>1, <2>2 DEF Dispatch
<1>8. QED
  BY <1>5, <1>6, <1>7 DEF Gate

-----------------------------------------------------------------------------
\* Calls.

\* No event of before is for the owner alone.
Touched == [x \in Execs |-> IF Running(x) THEN [exec[x] EXCEPT !.owner = None] ELSE Idle]

\* A call that fires no event.
LEMMA CallMoves ==
  ASSUME HooksInv, NEW k \in Caps, UNCHANGED <<plugins, inFlight>>,
         (exec' = exec /\ Owner' = Owner) \/ exec' = Touched,
         \A j \in Caps \ {k} : cap'[j] = cap[j],
         cap[k] = Idle \/ cap[k].at # "hooks",
         cap'[k] # Idle =>
           /\ cap'[k].at # "hooks"
           /\ cap'[k].cause # None => cap'[k].cause \in Execs /\ Waiting(cap'[k].cause),
         RowsTyped', CountsTyped', Unended' /\ CallsTyped' /\ IsFiniteSet(Made')
  PROVE  HooksInv'
<1>1. UNCHANGED <<hooks, host, worker, active>>
  BY DEF plugins
<1>2. PluginsTyped' /\ Wired'
  BY <1>1, PluginsKept DEF HooksInv, PluginsTyped
<1>3. ASSUME NEW x \in Execs, Running(x)
      PROVE  /\ exec[x] \in Exec
             /\ exec'[x] = exec[x] \/ exec'[x] = [exec[x] EXCEPT !.owner = None]
             /\ exec'[x] \in Exec
             /\ Owner' = Owner \/ exec'[x].owner = None
             /\ exec'[x].live = exec[x].live /\ exec'[x].list = exec[x].list
             /\ exec'[x].event = exec[x].event /\ exec'[x].cap = exec[x].cap
             /\ exec'[x].at = exec[x].at /\ exec'[x].host = exec[x].host
  <2>1. exec[x] \in Exec
    BY <1>3, Records DEF HooksInv
  <2>2. CASE exec' = exec /\ Owner' = Owner
    BY <2>1, <2>2
  <2>3. CASE exec' = Touched
    <3>1. exec'[x] = [exec[x] EXCEPT !.owner = None]
      BY <1>3, <2>3 DEF Touched
    <3>2. exec'[x] \in Exec
      BY <2>1, <3>1 DEF Exec
    <3>3. QED
      BY <2>1, <3>1, <3>2 DEF Exec
  <2>4. QED
    BY <2>2, <2>3
<1>4. ASSUME NEW x \in Execs, ~Running(x) PROVE exec'[x] = Idle
  BY <1>4 DEF Touched, Running
<1>5. RunsTyped'
  <2>1. exec' = [x \in Execs |-> exec'[x]]
    BY DEF Touched, HooksInv, RunsTyped
  <2>2. QED
    BY <1>3, <1>4, <2>1 DEF RunsTyped
<1>6. \A x \in Execs : Running(x)' <=> Running(x)
  BY <1>3, <1>4, Records DEF Running
<1>7. \A x \in Execs : Waiting(x)' <=> Waiting(x)
  BY <1>3, <1>6 DEF Waiting
<1>8. Unanswered' /\ AnswersTyped'
  <2>1. \A x \in Execs : /\ Waiting(x)' <=> Waiting(x)
                         /\ Waiting(x) => exec'[x].host = exec[x].host /\ exec'[x].event = exec[x].event
    BY <1>3, <1>7 DEF Waiting
  <2>2. QED
    BY <2>1, AnswersKept DEF HooksInv
<1>9. Loops'
  <2>1. ASSUME NEW x \in Execs, Running(x) PROVE Track(exec[x], List(x))' /\ Told(x)'
    <3>1. Track(exec[x], List(x)) /\ Told(x)
      BY <2>1 DEF HooksInv, Loops
    <3>2. List(x)' = List(x)
      BY <1>1, <1>3, <2>1 DEF List
    <3>3. QED
      BY <1>1, <1>3, <2>1, <3>1, <3>2, LoopKept
  <2>2. QED
    BY <1>6, <2>1 DEF Loops
<1>10. Firing' /\ Causes'
  <2>1. ASSUME NEW x \in Execs, Running(x)', exec'[x].cap # None
        PROVE  /\ Running(x) /\ exec'[x].cap = exec[x].cap /\ exec'[x].event = exec[x].event
               /\ FiredBy(x)' /\ cap'[exec[x].cap] = cap[exec[x].cap]
    <3>1. Running(x) /\ exec'[x].cap = exec[x].cap /\ exec'[x].event = exec[x].event
      BY <1>3, <1>6, <2>1
    <3>2. FiredBy(x) /\ exec[x].cap \in Caps
      BY <1>3, <2>1, <3>1 DEF HooksInv, Firing, Exec
    <3>3. cap'[exec[x].cap] = cap[exec[x].cap]
      BY <2>1, <3>1, <3>2 DEF FiredBy
    <3>4. \A y \in Execs : Running(y)' => exec'[y].cap = exec[y].cap
      BY <1>3, <1>6
    <3>5. QED
      BY <1>6, <2>1, <3>1, <3>2, <3>3, <3>4 DEF FiredBy
  <2>2. Firing'
    BY <2>1 DEF Firing, FiredBy
  <2>3. ASSUME NEW j \in Caps, cap'[j] # Idle PROVE CausedBy(j)'
    <3>1. CASE j = k
      BY <1>7, <2>3, <3>1 DEF CausedBy
    <3>2. CASE j # k
      <4>1. cap'[j] = cap[j] /\ CausedBy(j) /\ cap[j].cause \in Execs \union {None}
        BY <2>3, <3>2, Records DEF HooksInv, Causes, Cap
      <4>2. QED
        BY <1>3, <1>7, <4>1 DEF CausedBy, Waiting
    <3>3. QED
      BY <3>1, <3>2
  <2>4. QED
    BY <2>2, <2>3 DEF Causes
<1>11. IsFiniteSet(Runs')
  <2>1. Runs' = Runs
    BY <1>6 DEF Runs
  <2>2. QED
    BY <2>1 DEF HooksInv, FinitelyMany
<1>12. QED
  BY <1>2, <1>5, <1>8, <1>9, <1>10, <1>11 DEF HooksInv, FinitelyMany

LEMMA Asking ==
  ASSUME HooksInv, NEW k \in Caps, NEW w \in Workers, Admitted(k, w), NEW c \in Cap,
         c.worker = w, cap' = [cap EXCEPT ![k] = c]
  PROVE  /\ Unended' /\ CallsTyped' /\ IsFiniteSet(Made') /\ CountsTyped' /\ RowsTyped' /\ Owner' = Owner
         /\ cap[k] = Idle /\ cap'[k] = c /\ \A j \in Caps \ {k} : cap'[j] = cap[j]
         /\ UNCHANGED <<plugins, inFlight>>
<1>1. /\ cap[k] = Idle /\ capsIn[w] < MaxCaps /\ capsIn' = [capsIn EXCEPT ![w] = @ + 1]
      /\ Of(w) \in active /\ UNCHANGED <<plugins, inFlight, rows, events, enables>>
  BY DEF Admitted
<1>2. Of(w) # None
  BY <1>1, HooksAssumption DEF HooksInv, PluginsTyped
<1>3. worker' = worker
  BY <1>1 DEF plugins
<1>4. Unended' /\ CallsTyped' /\ IsFiniteSet(Made')
  BY <1>1, <1>2, <1>3, CallComes DEF HooksInv
<1>5. RowsTyped' /\ Owner' = Owner
  BY <1>1, RowsKept DEF HooksInv
<1>6. CountsTyped'
  BY <1>1, HooksAssumption DEF HooksInv, CountsTyped, Admitted
<1>7. QED
  BY <1>1, <1>4, <1>5, <1>6 DEF HooksInv, CallsTyped

LEMMA StepAsk ==
  ASSUME HooksInv, NEW k \in Caps, NEW w \in Workers, MappingsUpsert(k, w) \/ HandoverSet(k, w)
  PROVE  HooksInv'
<1>1. PICK c \in Cap : /\ Admitted(k, w) /\ cap' = [cap EXCEPT ![k] = c] /\ exec' = exec
                       /\ c.worker = w /\ c.at # "hooks" /\ c.cause = None
  <2>1. CASE MappingsUpsert(k, w)
    <3> DEFINE c == [verb |-> "upsert", worker |-> w, cause |-> None,
                     at |-> IF state[Of(w)] = None THEN "insert" ELSE "update"]
    <3>1. c \in Cap /\ c.at # "hooks"
      BY DEF Cap
    <3>2. Admitted(k, w) /\ cap' = [cap EXCEPT ![k] = c] /\ exec' = exec
      BY <2>1 DEF MappingsUpsert, Call
    <3>3. QED
      BY <3>1, <3>2
  <2>2. CASE HandoverSet(k, w)
    <3> DEFINE c == [verb |-> "handover", worker |-> w, cause |-> None, at |-> "set"]
    <3>1. c \in Cap
      BY DEF Cap
    <3>2. Admitted(k, w) /\ cap' = [cap EXCEPT ![k] = c] /\ exec' = exec
      BY <2>2 DEF HandoverSet, Call
    <3>3. QED
      BY <3>1, <3>2
  <2>3. QED
    BY <2>1, <2>2
<1>2. /\ Unended' /\ CallsTyped' /\ IsFiniteSet(Made') /\ CountsTyped' /\ RowsTyped' /\ Owner' = Owner
      /\ cap[k] = Idle /\ cap'[k] = c /\ \A j \in Caps \ {k} : cap'[j] = cap[j]
      /\ UNCHANGED <<plugins, inFlight>>
  BY <1>1, Asking
<1>3. QED
  BY <1>1, <1>2, CallMoves

LEMMA StepCapSend ==
  ASSUME HooksInv, NEW k \in Caps, NEW w \in Workers, NEW x \in Execs \union {None}, CapSend(k, w, x)
  PROVE  HooksInv'
<1>1. x \in On(w) \union {None} /\ Admitted(k, w)
  BY DEF CapSend
<1>2. x # None => x \in Execs /\ Waiting(x) /\ exec[x].host = w
  BY <1>1 DEF On
<1>3. CASE Call(k, w, "send", x, "act") /\ exec' = exec
  <2> DEFINE c == [verb |-> "send", worker |-> w, cause |-> x, at |-> "act"]
  <2>1. c \in Cap /\ cap' = [cap EXCEPT ![k] = c]
    BY <1>3 DEF Cap, Call
  <2>2. c.worker = w /\ c.at # "hooks" /\ c.cause = x
    OBVIOUS
  <2> HIDE DEF c
  <2>3. /\ Unended' /\ CallsTyped' /\ IsFiniteSet(Made') /\ CountsTyped' /\ RowsTyped' /\ Owner' = Owner
        /\ cap[k] = Idle /\ cap'[k] = c /\ \A j \in Caps \ {k} : cap'[j] = cap[j]
        /\ UNCHANGED <<plugins, inFlight>>
    BY <1>1, <2>1, <2>2, Asking
  <2>4. QED
    BY <1>2, <1>3, <2>2, <2>3, CallMoves
<1>4. ASSUME NEW y \in Execs, ~Running(y), Start(y, "sending", k), Call(k, w, "send", x, "hooks"), ~Blocked(w)
      PROVE  HooksInv'
  <2> DEFINE c == [verb |-> "send", worker |-> w, cause |-> x, at |-> "hooks"]
  <2>1. c \in Cap /\ cap' = [cap EXCEPT ![k] = c]
    BY <1>4 DEF Cap, Call
  <2>2. c.worker = w /\ c.at = "hooks" /\ c.cause = x
    OBVIOUS
  <2> HIDE DEF c
  <2>3. /\ Unended' /\ CallsTyped' /\ IsFiniteSet(Made') /\ CountsTyped' /\ RowsTyped' /\ Owner' = Owner
        /\ cap[k] = Idle /\ cap'[k] = c /\ \A j \in Caps \ {k} : cap'[j] = cap[j]
        /\ UNCHANGED <<plugins, inFlight>>
    BY <1>1, <2>1, <2>2, Asking
  <2>4. UNCHANGED rows
    BY <1>1 DEF Admitted
  <2>5. /\ RunsTyped' /\ PluginsTyped' /\ Wired' /\ RowsTyped' /\ Loops' /\ IsFiniteSet(Runs')
        /\ exec'[y].event = "sending" /\ exec'[y].cap = k /\ ~Waiting(y)' /\ Running(y)'
        /\ \A z \in Execs \ {y} : exec'[z] = exec[z]
    BY <1>4, <2>3, <2>4, Fired DEF Event
  <2>6. \A z \in Execs : /\ Waiting(z)' <=> Waiting(z)
                         /\ Waiting(z) => exec'[z] = exec[z]
    BY <1>4, <2>5 DEF Waiting, Running
  <2>7. Unanswered' /\ AnswersTyped'
    BY <2>3, <2>6, AnswersKept DEF HooksInv
  <2>8. ASSUME x # None PROVE exec[x].event # "sending"
    <3>1. SUFFICES ASSUME exec[x].event = "sending" PROVE FALSE
      OBVIOUS
    <3>2. x \in Pending(w, "sending")
      BY <1>2, <2>8, <3>1 DEF Pending
    <3>3. IsFiniteSet(Pending(w, "sending")) /\ Cardinality(Pending(w, "sending")) \in Nat
      BY PendingIsFinite, FS_CardinalityType DEF HooksInv
    <3>4. Cardinality(Pending(w, "sending")) # 0
      BY <3>2, <3>3, FS_EmptySet
    <3>5. inFlight[w]["sending"] > 0
      BY <3>3, <3>4 DEF HooksInv, Unanswered, Event
    <3>6. QED
      BY <1>4, <3>5 DEF Blocked
  <2>9. ASSUME NEW z \in Execs, Running(z), exec[z].cap # None PROVE exec[z].cap # k /\ exec[z].cap \in Caps
    BY <2>3, <2>9, Records DEF HooksInv, Firing, FiredBy, Exec
  <2>10. ASSUME NEW z \in Execs, Running(z)', exec'[z].cap # None PROVE FiredBy(z)'
    <3>1. CASE z = y
      <4>1. \A v \in Execs : Running(v)' /\ exec'[v].cap = k => v = y
        BY <2>5, <2>9, HooksAssumption DEF Running
      <4>2. cap'[k] # Idle /\ cap'[k].at = "hooks"
        BY <2>1, <2>2, <2>3, Records
      <4>3. QED
        BY <2>5, <3>1, <4>1, <4>2 DEF FiredBy
    <3>2. CASE z # y
      <4>1. exec'[z] = exec[z] /\ Running(z) /\ FiredBy(z) /\ exec[z].cap # k /\ exec[z].cap \in Caps
        BY <2>5, <2>9, <2>10, <3>2 DEF Running, HooksInv, Firing
      <4>2. cap'[exec[z].cap] = cap[exec[z].cap]
        BY <2>3, <4>1
      <4>3. \A v \in Execs : Running(v)' /\ exec'[v].cap = exec[z].cap => v = z
        BY <2>5, <2>10, <4>1 DEF FiredBy, Running
      <4>4. QED
        BY <2>10, <4>1, <4>2, <4>3 DEF FiredBy
    <3>3. QED
      BY <3>1, <3>2
  <2>11. Firing'
    BY <2>10 DEF Firing, FiredBy
  <2>12. ASSUME NEW j \in Caps, cap'[j] # Idle PROVE CausedBy(j)'
    <3>1. CASE j = k
      BY <1>2, <2>2, <2>3, <2>6, <2>8, <3>1 DEF CausedBy
    <3>2. CASE j # k
      <4>1. cap'[j] = cap[j] /\ CausedBy(j) /\ cap[j].cause \in Execs \union {None}
        BY <2>3, <2>12, <3>2, Records DEF HooksInv, Causes, Cap
      <4>2. QED
        BY <2>6, <4>1 DEF CausedBy
    <3>3. QED
      BY <3>1, <3>2
  <2>13. QED
    BY <2>3, <2>5, <2>7, <2>11, <2>12 DEF HooksInv, FinitelyMany, Causes
<1>5. QED
  BY <1>3, <1>4 DEF CapSend

LEMMA StepCapDone ==
  ASSUME HooksInv, NEW k \in Caps, CapDone(k) PROVE HooksInv'
<1>1. /\ cap[k] # Idle /\ cap[k].at # "hooks" /\ Answer(k) /\ exec' = exec
      /\ UNCHANGED <<plugins, inFlight, rows, counts>>
  BY DEF CapDone
<1>2. Unended' /\ CallsTyped' /\ IsFiniteSet(Made')
  BY <1>1, CallEnds DEF HooksInv, plugins
<1>3. cap'[k] = Idle /\ \A j \in Caps \ {k} : cap'[j] = cap[j]
  BY <1>1 DEF Answer, HooksInv, CallsTyped
<1>4. RowsTyped' /\ Owner' = Owner /\ CountsTyped'
  BY <1>1, RowsKept DEF HooksInv, CountsTyped, counts
<1>5. QED
  BY <1>1, <1>2, <1>3, <1>4, CallMoves

\* A call that ends with a row written.
LEMMA RowWritten ==
  ASSUME HooksInv, NEW k \in Caps, cap[k] # Idle, cap[k].at # "hooks", Answer(k),
         Touch(Of(cap[k].worker)), state' \in [Plugins -> State \union {None}],
         UNCHANGED <<plugins, inFlight, counts>>
  PROVE  HooksInv'
<1>1. Unended' /\ CallsTyped' /\ IsFiniteSet(Made')
  BY CallEnds DEF HooksInv, plugins
<1>2. cap'[k] = Idle /\ \A j \in Caps \ {k} : cap'[j] = cap[j]
  BY DEF Answer, HooksInv, CallsTyped
<1>3. PICK w \in Workers : w = cap[k].worker
  BY Records DEF HooksInv, Cap
<1>4. Of(w) \in Plugins
  <2>1. k \in Asked(w)
    BY <1>3 DEF Asked
  <2>2. Of(w) \in Plugins \union {None}
    BY DEF HooksInv, PluginsTyped, Of
  <2>3. QED
    BY <2>1, <2>2 DEF HooksInv, Unended
<1>5. recent' \in Seq(Plugins) /\ IsInjective(recent')
  BY <1>3, <1>4, FirstRemoved DEF Touch, HooksInv, RowsTyped
<1>6. exec' = Touched
  BY DEF Touch, Touched
<1>7. RowsTyped' /\ CountsTyped'
  BY <1>5 DEF RowsTyped, HooksInv, CountsTyped, counts
<1>8. QED
  BY <1>1, <1>2, <1>6, <1>7, CallMoves

LEMMA StepWrite ==
  ASSUME HooksInv, NEW k \in Caps, UpsertInsert(k) \/ UpsertUpdate(k) \/ \E s \in State : SetHandover(k, s)
  PROVE  HooksInv'
<1> DEFINE p == Of(cap[k].worker)
<1>1. state \in [Plugins -> State \union {None}] /\ "bot" \in State
  BY DEF HooksInv, RowsTyped, State
<1>2. CASE UpsertInsert(k)
  <2>1. CASE state' = [state EXCEPT ![p] = "bot"] /\ Touch(p) /\ Answer(k)
    BY <1>1, <1>2, <2>1, RowWritten DEF UpsertInsert
  <2>2. CASE cap' = [cap EXCEPT ![k].at = "update"] /\ UNCHANGED <<exec, capsIn, rows>>
    <3>1. /\ cap[k] # Idle /\ cap[k].at = "insert" /\ cap[k] \in Cap
          /\ UNCHANGED <<plugins, inFlight, counts>>
      BY <1>2, Records DEF UpsertInsert, HooksInv
    <3> DEFINE c == [cap[k] EXCEPT !.at = "update"]
    <3>2. c \in Cap /\ c.at = "update" /\ c.worker = cap[k].worker /\ c.cause = cap[k].cause
      BY <3>1 DEF Cap
    <3>3. /\ cap' \in [Caps -> Cap \union {Idle}] /\ cap'[k] = c
          /\ \A j \in Caps \ {k} : cap'[j] = cap[j]
      BY <2>2, <3>2 DEF HooksInv, CallsTyped
    <3> HIDE DEF c
    <3>4. \A j \in Caps : /\ cap'[j] # Idle <=> cap[j] # Idle
                          /\ cap[j] # Idle => cap'[j].worker = cap[j].worker
      BY <3>1, <3>2, <3>3, Records
    <3>5. Unended' /\ CallsTyped'
      BY <2>2, <3>1, <3>3, <3>4, CallsKept DEF HooksInv, plugins
    <3>6. IsFiniteSet(Made')
      <4>1. Made' = Made
        BY <3>4 DEF Made
      <4>2. QED
        BY <4>1 DEF HooksInv, FinitelyMany
    <3>7. RowsTyped' /\ Owner' = Owner /\ CountsTyped'
      BY <2>2, <3>1, RowsKept DEF HooksInv, CountsTyped, counts
    <3>8. cap'[k].cause # None => cap'[k].cause \in Execs /\ Waiting(cap[k].cause)
      BY <3>1, <3>2, <3>3 DEF HooksInv, Causes, CausedBy, Cap
    <3>9. QED
      BY <2>2, <3>1, <3>2, <3>3, <3>5, <3>6, <3>7, <3>8, CallMoves
  <2>3. QED
    BY <1>2, <2>1, <2>2 DEF UpsertInsert
<1>3. CASE UpsertUpdate(k)
  BY <1>1, <1>3, RowWritten DEF UpsertUpdate
<1>4. ASSUME NEW s \in State, SetHandover(k, s) PROVE HooksInv'
  <2>1. state' \in [Plugins -> State \union {None}]
    BY <1>1, <1>4 DEF SetHandover
  <2>2. QED
    BY <1>4, <2>1, RowWritten DEF SetHandover
<1>5. QED
  BY <1>2, <1>3, <1>4

-----------------------------------------------------------------------------
\* Plugins come and go.

LEMMA StepSetPluginSessions ==
  ASSUME HooksInv, NEW p \in Plugins, SetPluginSessions(p) PROVE HooksInv'
<1>1. UNCHANGED <<hooks, host, worker, exec, inFlight, cap, capsIn, state, recent, events, enables>>
  BY DEF SetPluginSessions, calls, rows
<1>2. active' \subseteq Plugins
  BY DEF SetPluginSessions, HooksInv, PluginsTyped
<1>3. PluginsTyped' /\ Wired'
  BY <1>1, <1>2, PluginsKept DEF HooksInv
<1>4. RowsTyped' /\ Owner' = Owner
  BY <1>1, RowsKept DEF HooksInv, rows
<1>5. CountsTyped'
  BY <1>1, HooksAssumption DEF HooksInv, CountsTyped, SetPluginSessions
<1>6. \A x \in Execs : /\ Running(x)' <=> Running(x)
                       /\ Waiting(x)' <=> Waiting(x)
                       /\ List(x)' = List(x)
  BY <1>1 DEF Running, Waiting, List
<1>7. Loops'
  BY <1>1, <1>4, <1>6 DEF HooksInv, Loops, Track, Told, Of
<1>8. Firing' /\ Causes'
  BY <1>1, <1>6 DEF HooksInv, Firing, FiredBy, Causes, CausedBy, Waiting, Running
<1>9. Unanswered' /\ AnswersTyped'
  BY <1>1, <1>6, AnswersKept DEF HooksInv
<1>10. Unended' /\ CallsTyped' /\ IsFiniteSet(Made')
  BY <1>1, CallsStay DEF HooksInv
<1>11. RunsTyped' /\ IsFiniteSet(Runs')
  BY <1>1 DEF HooksInv, RunsTyped, FinitelyMany, Runs, Running
<1>12. QED
  BY <1>3, <1>4, <1>5, <1>7, <1>8, <1>9, <1>10, <1>11 DEF HooksInv, FinitelyMany

\* A step that changes neither calls nor who waits for whom.
LEMMA Aside ==
  ASSUME HooksInv, UNCHANGED <<inFlight, calls, rows, events, requests>>, enables' \in 0..Enables,
         PluginsTyped', Wired', RunsTyped',
         \A w \in Workers : worker'[w].plugin = None => worker[w].plugin = None,
         \A x \in Execs : /\ Running(x)' <=> Running(x)
                          /\ Running(x) => /\ Track(exec[x], List(x))' /\ Told(x)'
                                           /\ exec'[x].at = exec[x].at /\ exec'[x].host = exec[x].host
                                           /\ exec'[x].event = exec[x].event
                                           /\ exec'[x].cap = exec[x].cap
  PROVE  HooksInv'
<1>1. cap' = cap /\ capsIn' = capsIn
  BY DEF calls
<1>2. \A x \in Execs : Waiting(x)' <=> Waiting(x)
  BY DEF Waiting
<1>3. Unanswered' /\ AnswersTyped'
  <2>1. \A x \in Execs : /\ Waiting(x)' <=> Waiting(x)
                         /\ Waiting(x) => exec'[x].host = exec[x].host /\ exec'[x].event = exec[x].event
    BY <1>2 DEF Waiting
  <2>2. QED
    BY <2>1, AnswersKept DEF HooksInv
<1>4. Loops'
  BY DEF Loops
<1>5. Firing' /\ Causes'
  <2>1. ASSUME NEW x \in Execs, Running(x)', exec'[x].cap # None
        PROVE  /\ Running(x) /\ exec'[x].cap = exec[x].cap /\ exec'[x].event = exec[x].event
               /\ cap'[exec[x].cap] # Idle
    BY <1>1, <2>1 DEF HooksInv, Firing, FiredBy
  <2>2. ASSUME NEW k \in Caps, cap'[k] # Idle, cap'[k].cause # None
        PROVE  /\ cap[k] # Idle /\ cap[k].cause \in Execs
               /\ Waiting(cap[k].cause)' /\ exec'[cap[k].cause].event = exec[cap[k].cause].event
    <3>1. cap[k] # Idle /\ cap[k].cause \in Execs /\ Waiting(cap[k].cause)
      BY <1>1, <2>2, Records DEF HooksInv, Causes, CausedBy, Cap
    <3>2. QED
      BY <1>1, <1>2, <3>1 DEF Waiting
  <2>3. QED
    BY <1>1, <2>1, <2>2, LinksKept DEF HooksInv
<1>6. Unended' /\ CallsTyped' /\ IsFiniteSet(Made')
  <2>1. Unended' /\ CallsTyped'
    BY <1>1, CallsKept DEF HooksInv, CallsTyped
  <2>2. Made' = Made
    BY <1>1 DEF Made
  <2>3. QED
    BY <2>1, <2>2 DEF HooksInv, FinitelyMany
<1>7. IsFiniteSet(Runs')
  <2>1. Runs' = Runs
    BY DEF Runs
  <2>2. QED
    BY <2>1 DEF HooksInv, FinitelyMany
<1>8. RowsTyped' /\ CountsTyped'
  BY RowsKept DEF HooksInv, CountsTyped
<1>9. QED
  BY <1>3, <1>4, <1>5, <1>6, <1>7, <1>8 DEF HooksInv, FinitelyMany

LEMMA StepEnable ==
  ASSUME HooksInv, NEW p \in Plugins, Enable(p) PROVE HooksInv'
<1>1. PICK w \in Workers : /\ Free(w) /\ worker' = [worker EXCEPT ![w] = [plugin |-> p, alive |-> TRUE]]
                           /\ host' = [host EXCEPT ![p] = w]
  BY DEF Enable
<1>2. /\ host[p] = None /\ UNCHANGED <<hooks, active, exec, inFlight, calls, rows, events, requests>>
      /\ enables' = enables + 1 /\ enables < Enables
  BY DEF Enable
<1>3. /\ host \in [Plugins -> Workers \union {None}]
      /\ worker \in [Workers -> [plugin: Plugins \union {None}, alive: BOOLEAN]]
      /\ \A e \in Event : hooks[e] \in Seq(Workers) /\ \A i \in 1..Len(hooks[e]) : hooks[e][i] \in Workers
      /\ p # None
  BY HooksAssumption DEF HooksInv, PluginsTyped
<1>4. /\ ~worker[w].alive /\ \A q \in Plugins : host[q] # w
      /\ \A e \in Event : \A i \in 1..Len(hooks[e]) : hooks[e][i] # w
  BY <1>1 DEF Free
<1>5. /\ worker'[w].plugin = p /\ worker'[w].alive
      /\ \A v \in Workers \ {w} : worker'[v] = worker[v]
      /\ host'[p] = w /\ \A q \in Plugins \ {p} : host'[q] = host[q]
  BY <1>1, <1>3
<1>6. Sorted'
  <2>1. \A e \in Event : \A i \in 1..Len(hooks[e]) :
          worker'[hooks[e][i]].plugin = worker[hooks[e][i]].plugin
    BY <1>3, <1>4, <1>5
  <2>2. Sorted /\ hooks' = hooks
    BY <1>2 DEF HooksInv, PluginsTyped
  <2>3. QED
    BY <2>1, <2>2 DEF Sorted
<1>7. PluginsTyped'
  <2>1. worker' \in [Workers -> [plugin: Plugins \union {None}, alive: BOOLEAN]]
    BY <1>1, <1>3
  <2>2. host' \in [Plugins -> Workers \union {None}]
    BY <1>1, <1>3
  <2>3. QED
    BY <1>2, <1>6, <2>1, <2>2 DEF HooksInv, PluginsTyped
<1>8. Wired'
  <2>1. ASSUME NEW v \in Workers, worker'[v].alive PROVE worker'[v].plugin \in Plugins /\ host'[worker'[v].plugin] = v
    <3>1. CASE v = w
      BY <1>5, <3>1
    <3>2. CASE v # w
      <4>1. worker'[v] = worker[v] /\ Of(v) \in Plugins /\ host[Of(v)] = v
        BY <1>5, <2>1, <3>2 DEF HooksInv, Wired
      <4>2. Of(v) # p
        BY <1>2, <4>1, HooksAssumption
      <4>3. QED
        BY <1>5, <4>1, <4>2 DEF Of
    <3>3. QED
      BY <3>1, <3>2
  <2>2. ASSUME NEW q \in Plugins, host'[q] # None PROVE worker'[host'[q]].plugin = q
    <3>1. CASE q = p
      BY <1>5, <3>1
    <3>2. CASE q # p
      BY <1>3, <1>4, <1>5, <2>2, <3>2 DEF HooksInv, Wired, Of
    <3>3. QED
      BY <3>1, <3>2
  <2>3. ASSUME NEW e \in Event, NEW i \in 1..Len(hooks[e])
        PROVE  worker'[hooks[e][i]].plugin \in Plugins /\ host'[worker'[hooks[e][i]].plugin] = hooks[e][i]
    <3>1. /\ hooks[e][i] \in Workers \ {w} /\ Of(hooks[e][i]) \in Plugins
          /\ host[Of(hooks[e][i])] = hooks[e][i]
      BY <1>3, <1>4 DEF HooksInv, Wired
    <3>2. Of(hooks[e][i]) # p
      BY <1>2, <3>1, HooksAssumption
    <3>3. QED
      BY <1>5, <3>1, <3>2 DEF Of
  <2>4. QED
    BY <1>2, <2>1, <2>2, <2>3 DEF Wired, Of
<1>9. RunsTyped'
  BY <1>2 DEF HooksInv, RunsTyped
<1>10. Owner' = Owner
  BY <1>2, RowsKept DEF HooksInv
<1>11. ASSUME NEW x \in Execs, Running(x) PROVE Track(exec[x], List(x))' /\ Told(x)'
  <2>1. Track(exec[x], List(x)) /\ Told(x) /\ exec[x] \in Exec /\ exec'[x] = exec[x] /\ List(x)' = List(x)
    BY <1>2, <1>11, Records DEF HooksInv, Loops, List
  <2>2. exec[x].host # w /\ \A i \in 1..Len(exec[x].list) : exec[x].list[i] # w
    BY <1>1, <1>11 DEF Free
  <2>3. \A i \in 1..Len(List(x)) : List(x)[i] # w /\ List(x)[i] \in Workers
    BY <1>4, <2>1, <2>2 DEF List, Exec, Track
  <2>4. QED
    BY <1>5, <1>10, <1>11, <2>1, <2>2, <2>3, LoopKept
<1>12. \A x \in Execs : Running(x)' <=> Running(x)
  BY <1>2 DEF Running
<1>13. enables' \in 0..Enables
  BY <1>2, HooksAssumption DEF HooksInv, CountsTyped
<1>14. \A v \in Workers : worker'[v].plugin = None => worker[v].plugin = None
  BY <1>3, <1>5
<1>15. QED
  BY <1>2, <1>7, <1>8, <1>9, <1>11, <1>12, <1>13, <1>14, Aside

LEMMA LeftOut ==
  ASSUME PluginsTyped, Wired, NEW e \in Event, NEW p \in Plugins
  PROVE  /\ Without(e, p) \in Seq(Workers)
         /\ \A i \in 1..Len(Without(e, p)) :
              Of(Without(e, p)[i]) # p /\ \E j \in 1..Len(hooks[e]) : Without(e, p)[i] = hooks[e][j]
         /\ \A i, j \in 1..Len(Without(e, p)) : i < j =>
              \E k, l \in 1..Len(hooks[e]) :
                k < l /\ Without(e, p)[i] = hooks[e][k] /\ Without(e, p)[j] = hooks[e][l]
<1> DEFINE s == hooks[e]
           t == Without(e, p)
<1>1. s \in Seq(Workers) /\ Len(s) \in Nat
  BY DEF PluginsTyped
<1>2. CASE \A i \in 1..Len(s) : Of(s[i]) # p
  <2>1. t = s
    BY <1>2 DEF Without, RemoveFirstMatch
  <2>2. QED
    BY <1>1, <1>2, <2>1
<1>3. CASE \E i \in 1..Len(s) : Of(s[i]) = p
  <2> DEFINE I == {i \in 1..Len(s) : Of(s[i]) = p}
  <2>1. Min(I) \in I
    <3>1. I \subseteq Nat /\ I # {}
      BY <1>1, <1>3
    <3>2. QED
      BY <3>1, MinOf
  <2>2. t = RemoveAt(s, Min(I))
    BY <1>3 DEF Without, RemoveFirstMatch, SelectInSeq
  <2>3. PICK n \in 1..Len(s) : t = RemoveAt(s, n) /\ Of(s[n]) = p
    BY <2>1, <2>2
  <2> HIDE DEF t, I, s
  <2>4. /\ t \in Seq(Workers) /\ Len(t) = Len(s) - 1
        /\ \A i \in 1..Len(s) - 1 : t[i] = IF i < n THEN s[i] ELSE s[i + 1]
    BY <1>1, <2>3, TakenOut
  <2>5. \A i \in 1..Len(s) : i # n => Of(s[i]) # p
    <3>1. \A i, j \in 1..Len(s) : i < j => Of(s[i]) # Of(s[j])
      BY DEF PluginsTyped, Sorted, Of, s
    <3>2. QED
      BY <1>1, <2>3, <3>1
  <2>6. ASSUME NEW i \in 1..Len(t)
        PROVE  \E j \in 1..Len(s) : j # n /\ t[i] = s[j] /\ j = (IF i < n THEN i ELSE i + 1)
    <3>1. CASE i < n
      BY <1>1, <2>4, <3>1
    <3>2. CASE i >= n
      <4>1. i + 1 \in 1..Len(s) /\ i + 1 # n /\ t[i] = s[i + 1]
        BY <1>1, <2>4, <3>2
      <4>2. QED
        BY <1>1, <3>2, <4>1
    <3>3. QED
      BY <1>1, <2>4, <3>1, <3>2
  <2>7. \A i \in 1..Len(t) : Of(t[i]) # p /\ \E j \in 1..Len(s) : t[i] = s[j]
    BY <2>5, <2>6
  <2>8. ASSUME NEW i \in 1..Len(t), NEW j \in 1..Len(t), i < j
        PROVE  \E k, l \in 1..Len(s) : k < l /\ t[i] = s[k] /\ t[j] = s[l]
    <3>1. PICK k \in 1..Len(s) : t[i] = s[k] /\ k = (IF i < n THEN i ELSE i + 1)
      BY <2>6
    <3>2. PICK l \in 1..Len(s) : t[j] = s[l] /\ l = (IF j < n THEN j ELSE j + 1)
      BY <2>6
    <3>3. k < l
      BY <1>1, <2>4, <2>8, <3>1, <3>2
    <3>4. QED
      BY <3>1, <3>2, <3>3
  <2>9. QED
    BY <2>4, <2>7, <2>8 DEF t, s
<1>4. QED
  BY <1>2, <1>3

LEMMA StepDisable ==
  ASSUME HooksInv, NEW p \in Plugins, Disable(p) PROVE HooksInv'
<1>1. /\ host[p] # None /\ ~worker[host[p]].alive /\ host' = [host EXCEPT ![p] = None]
      /\ UNCHANGED <<worker, active, inFlight, calls, rows, counts>>
      /\ hooks' = [e \in Event |-> Without(e, p)]
      /\ exec' = [x \in Execs |-> IF ~Running(x) THEN Idle
                                  ELSE [exec[x] EXCEPT !.live = FALSE, !.list = List(x)]]
  BY DEF Disable, UnregisterPlugin
<1>2. PluginsTyped /\ Wired
  BY DEF HooksInv
<1>3. /\ host'[p] = None /\ host' \in [Plugins -> Workers \union {None}]
      /\ \A q \in Plugins \ {p} : host'[q] = host[q]
  BY <1>1, <1>2 DEF PluginsTyped
<1>4. ASSUME NEW e \in Event
      PROVE  /\ hooks'[e] \in Seq(Workers)
             /\ \A i \in 1..Len(hooks'[e]) :
                  Of(hooks'[e][i]) # p /\ \E j \in 1..Len(hooks[e]) : hooks'[e][i] = hooks[e][j]
             /\ \A i, j \in 1..Len(hooks'[e]) : i < j =>
                  \E k, l \in 1..Len(hooks[e]) :
                    k < l /\ hooks'[e][i] = hooks[e][k] /\ hooks'[e][j] = hooks[e][l]
  <2>1. hooks'[e] = Without(e, p)
    BY <1>1
  <2>2. PICK t : t = Without(e, p)
    OBVIOUS
  <2>3. hooks'[e] = t
    BY <2>1, <2>2
  <2>4. /\ t \in Seq(Workers)
        /\ \A i \in 1..Len(t) : Of(t[i]) # p /\ \E j \in 1..Len(hooks[e]) : t[i] = hooks[e][j]
        /\ \A i, j \in 1..Len(t) : i < j =>
             \E k, l \in 1..Len(hooks[e]) :
               k < l /\ t[i] = hooks[e][k] /\ t[j] = hooks[e][l]
    <3>1. PluginsTyped /\ Wired
      BY <1>2
    <3>2. QED
      BY <2>2, <3>1, LeftOut
  <2>5. hooks'[e] \in Seq(Workers)
    BY <2>3, <2>4
  <2>6. \A i \in 1..Len(hooks'[e]) :
          Of(hooks'[e][i]) # p /\ \E j \in 1..Len(hooks[e]) : hooks'[e][i] = hooks[e][j]
    BY <2>3, <2>4
  <2>7. \A i, j \in 1..Len(hooks'[e]) : i < j =>
          \E k, l \in 1..Len(hooks[e]) :
            k < l /\ hooks'[e][i] = hooks[e][k] /\ hooks'[e][j] = hooks[e][l]
    BY <2>3, <2>4
  <2>8. QED
    BY <2>5, <2>6, <2>7
<1>4a. worker' = worker
  BY <1>1
<1>5. PluginsTyped'
  <2>1. hooks' \in [Event -> Seq(Workers)]
    BY <1>1, <1>4
  <2>2. ASSUME NEW e \in Event, NEW i \in 1..Len(hooks'[e]), NEW j \in 1..Len(hooks'[e]), i < j
        PROVE  /\ worker[hooks'[e][i]].plugin # worker[hooks'[e][j]].plugin
               /\ Priority[worker[hooks'[e][i]].plugin] <= Priority[worker[hooks'[e][j]].plugin]
    <3>1. PICK k \in 1..Len(hooks[e]), l \in 1..Len(hooks[e]) :
            k < l /\ hooks'[e][i] = hooks[e][k] /\ hooks'[e][j] = hooks[e][l]
      BY <1>4, <2>2
    <3>2. QED
      BY <1>2, <3>1 DEF PluginsTyped, Sorted
  <2>3. Sorted'
    BY <1>4a, <2>2 DEF Sorted
  <2>4. QED
    BY <1>1, <1>2, <1>3, <2>1, <2>3 DEF PluginsTyped
<1>6. Wired'
  <2>1. ASSUME NEW w \in Workers, worker[w].alive PROVE Of(w) \in Plugins /\ host'[Of(w)] = w
    <3>1. Of(w) \in Plugins /\ host[Of(w)] = w
      BY <1>2, <2>1 DEF Wired
    <3>2. Of(w) # p
      BY <1>1, <2>1, <3>1
    <3>3. QED
      BY <1>3, <3>1, <3>2
  <2>2. ASSUME NEW q \in Plugins, host'[q] # None PROVE Of(host'[q]) = q
    BY <1>2, <1>3, <2>2 DEF Wired
  <2>3. ASSUME NEW e \in Event, NEW i \in 1..Len(hooks'[e])
        PROVE  Of(hooks'[e][i]) \in Plugins /\ host'[Of(hooks'[e][i])] = hooks'[e][i]
    <3>1. PICK j \in 1..Len(hooks[e]) : hooks'[e][i] = hooks[e][j]
      BY <1>4
    <3>2. Of(hooks'[e][i]) # p
      BY <1>4
    <3>3. QED
      BY <1>2, <1>3, <3>1, <3>2 DEF Wired
  <2>4. QED
    BY <1>4a, <2>1, <2>2, <2>3 DEF Wired, Of
<1>7. Owner' = Owner
  BY <1>1, RowsKept DEF HooksInv
<1>8. ASSUME NEW x \in Execs, Running(x)
      PROVE  /\ Track(exec[x], List(x))' /\ Told(x)' /\ exec'[x] \in Exec
             /\ exec'[x].at = exec[x].at /\ exec'[x].host = exec[x].host
             /\ exec'[x].event = exec[x].event /\ exec'[x].cap = exec[x].cap
  <2>1. Track(exec[x], List(x)) /\ Told(x) /\ exec[x] \in Exec
    BY <1>8, Records DEF HooksInv, Loops
  <2>2. exec'[x] = [exec[x] EXCEPT !.live = FALSE, !.list = List(x)] /\ List(x) \in Seq(Workers)
    BY <1>1, <1>8, <2>1 DEF Track
  <2>3. /\ exec'[x] \in Exec /\ exec'[x].live = FALSE /\ exec'[x].list = List(x)
        /\ exec'[x].at = exec[x].at /\ exec'[x].i = exec[x].i /\ exec'[x].host = exec[x].host
        /\ exec'[x].event = exec[x].event /\ exec'[x].cap = exec[x].cap
        /\ exec'[x].ran = exec[x].ran /\ exec'[x].twice = exec[x].twice
        /\ exec'[x].moved = exec[x].moved /\ exec'[x].start = exec[x].start
        /\ exec'[x].owner = exec[x].owner
    BY <2>1, <2>2 DEF Exec
  <2>4. List(x)' = List(x) /\ Passed(exec'[x]) = Passed(exec[x])
    BY <2>3 DEF List, Passed
  <2>5. Track(exec[x], List(x))'
    BY <2>1, <2>3, <2>4, TrackStays
  <2>6. Told(x)'
    BY <1>1, <1>7, <2>1, <2>3, <2>4 DEF Told, Of
  <2>7. QED
    BY <2>3, <2>5, <2>6
<1>9. \A x \in Execs : Running(x)' <=> Running(x)
  BY <1>1, <1>8, Records DEF Running
<1>10. RunsTyped'
  <2>1. \A x \in Execs : exec'[x] \in Exec \union {Idle}
    BY <1>1, <1>8
  <2>2. exec' = [x \in Execs |-> exec'[x]]
    BY <1>1
  <2>3. QED
    BY <2>1, <2>2 DEF RunsTyped
<1>11. enables' \in 0..Enables /\ UNCHANGED <<inFlight, calls, rows, events, requests>>
  BY <1>1 DEF HooksInv, CountsTyped, counts
<1>12. QED
  BY <1>1, <1>5, <1>6, <1>8, <1>9, <1>10, <1>11, Aside

LEMMA StepHookSubscribe ==
  ASSUME HooksInv, NEW w \in Workers, NEW e \in Event, HookSubscribe(w, e) PROVE HooksInv'
<1> DEFINE s == hooks[e]
           n == Position(w, e)
<1>1. /\ worker[w].alive /\ \A i \in 1..Len(s) : s[i] # w
      /\ hooks' = [hooks EXCEPT ![e] = InsertAt(@, n, w)]
      /\ exec' = [x \in Execs |->
                    IF ~Running(x) THEN Idle
                    ELSE IF exec[x].event = e /\ exec[x].live /\ n <= Passed(exec[x])
                         THEN [exec[x] EXCEPT !.moved = TRUE] ELSE exec[x]]
      /\ UNCHANGED <<host, worker, active, inFlight, calls, rows, counts>>
  BY DEF HookSubscribe, Register
<1>2. PluginsTyped /\ Wired /\ s \in Seq(Workers) /\ Len(s) \in Nat
  BY DEF HooksInv, PluginsTyped
<1>3. Of(w) \in Plugins /\ host[Of(w)] = w
  BY <1>1, <1>2 DEF Wired
<1>4. /\ n \in 1..Len(s) + 1
      /\ \A i \in 1..Len(s) : /\ i < n => Priority[Of(s[i])] <= Priority[Of(w)]
                              /\ i >= n => Priority[Of(w)] <= Priority[Of(s[i])]
  BY <1>2, <1>3, PositionDivides
<1>5. /\ InsertAt(s, n, w) \in Seq(Workers) /\ Len(InsertAt(s, n, w)) = Len(s) + 1
      /\ \A i \in 1..Len(s) + 1 :
           InsertAt(s, n, w)[i] = IF i < n THEN s[i] ELSE IF i = n THEN w ELSE s[i - 1]
  BY <1>2, <1>4, Inserted
<1> DEFINE t == InsertAt(s, n, w)
<1>6. hooks'[e] = t /\ \A f \in Event \ {e} : hooks'[f] = hooks[f]
  BY <1>1, <1>2 DEF PluginsTyped
<1>7. hooks' \in [Event -> Seq(Workers)]
  BY <1>1, <1>2, <1>5 DEF PluginsTyped
<1>8. \A i \in 1..Len(s) : Of(s[i]) \in Plugins /\ host[Of(s[i])] = s[i] /\ Of(s[i]) # Of(w)
  BY <1>1, <1>2, <1>3 DEF Wired
<1>9. \A i, j \in 1..Len(s) : i < j => Of(s[i]) # Of(s[j]) /\ Priority[Of(s[i])] <= Priority[Of(s[j])]
  BY <1>2 DEF PluginsTyped, Sorted, Of
<1> HIDE DEF n, t
<1>10. ASSUME NEW i \in 1..Len(s) + 1
       PROVE  \/ i < n /\ t[i] = s[i] /\ i \in 1..Len(s)
              \/ i = n /\ t[i] = w
              \/ i > n /\ t[i] = s[i - 1] /\ i - 1 \in 1..Len(s)
  <2>1. CASE i < n
    BY <1>2, <1>4, <1>5, <2>1 DEF t
  <2>2. CASE i = n
    BY <1>5, <2>2 DEF t
  <2>3. CASE i > n
    BY <1>2, <1>4, <1>5, <2>3 DEF t
  <2>4. QED
    BY <1>2, <1>4, <2>1, <2>2, <2>3
<1>11. ASSUME NEW i \in 1..Len(s) + 1, NEW j \in 1..Len(s) + 1, i < j
       PROVE  Of(t[i]) # Of(t[j]) /\ Priority[Of(t[i])] <= Priority[Of(t[j])]
  <2>1. CASE i < n /\ t[i] = s[i] /\ i \in 1..Len(s)
    <3>1. CASE j < n /\ t[j] = s[j] /\ j \in 1..Len(s)
      BY <1>9, <1>11, <2>1, <3>1
    <3>2. CASE j = n /\ t[j] = w
      BY <1>4, <1>8, <2>1, <3>2
    <3>3. CASE j > n /\ t[j] = s[j - 1] /\ j - 1 \in 1..Len(s)
      <4>1. i < j - 1
        BY <1>4, <2>1, <3>3
      <4>2. QED
        BY <1>9, <2>1, <3>3, <4>1
    <3>4. QED
      BY <1>10, <3>1, <3>2, <3>3
  <2>2. CASE i = n /\ t[i] = w
    <3>1. j > n /\ t[j] = s[j - 1] /\ j - 1 \in 1..Len(s)
      BY <1>4, <1>10, <1>11, <2>2
    <3>2. j - 1 >= n
      BY <1>4, <1>11, <2>2
    <3>3. QED
      BY <1>4, <1>8, <2>2, <3>1, <3>2
  <2>3. CASE i > n /\ t[i] = s[i - 1] /\ i - 1 \in 1..Len(s)
    <3>1. j > n /\ t[j] = s[j - 1] /\ j - 1 \in 1..Len(s)
      BY <1>4, <1>10, <1>11, <2>3
    <3>2. i - 1 < j - 1
      BY <1>11
    <3>3. QED
      BY <1>9, <2>3, <3>1, <3>2
  <2>4. QED
    BY <1>10, <2>1, <2>2, <2>3
<1>12. Len(t) = Len(s) + 1
  BY <1>5 DEF t
<1>13. PluginsTyped'
  <2>1. ASSUME NEW f \in Event, NEW i \in 1..Len(hooks'[f]), NEW j \in 1..Len(hooks'[f]), i < j
        PROVE  /\ worker[hooks'[f][i]].plugin # worker[hooks'[f][j]].plugin
               /\ Priority[worker[hooks'[f][i]].plugin] <= Priority[worker[hooks'[f][j]].plugin]
    <3>1. CASE f = e
      BY <1>6, <1>11, <1>12, <2>1, <3>1 DEF Of
    <3>2. CASE f # e
      BY <1>2, <1>6, <2>1, <3>2 DEF PluginsTyped, Sorted
    <3>3. QED
      BY <3>1, <3>2
  <2>2. Sorted'
    BY <1>1, <2>1 DEF Sorted
  <2>3. QED
    BY <1>1, <1>2, <1>7, <2>2 DEF PluginsTyped
<1>14. ASSUME NEW i \in 1..Len(t) PROVE Of(t[i]) \in Plugins /\ host[Of(t[i])] = t[i]
  BY <1>3, <1>8, <1>10, <1>12
<1>15. Wired'
  <2>1. ASSUME NEW f \in Event, NEW i \in 1..Len(hooks'[f])
        PROVE  Of(hooks'[f][i]) \in Plugins /\ host[Of(hooks'[f][i])] = hooks'[f][i]
    <3>1. CASE f = e
      BY <1>6, <1>14, <3>1
    <3>2. CASE f # e
      BY <1>2, <1>6, <3>2 DEF Wired
    <3>3. QED
      BY <3>1, <3>2
  <2>2. QED
    BY <1>1, <1>2, <2>1 DEF Wired, Of
<1>16. Owner' = Owner
  BY <1>1, RowsKept DEF HooksInv
<1>17. ASSUME NEW x \in Execs, Running(x)
       PROVE  /\ Track(exec[x], List(x))' /\ Told(x)' /\ exec'[x] \in Exec
              /\ exec'[x].at = exec[x].at /\ exec'[x].host = exec[x].host
              /\ exec'[x].event = exec[x].event /\ exec'[x].cap = exec[x].cap
  <2>1. Track(exec[x], List(x)) /\ Told(x) /\ exec[x] \in Exec
    BY <1>17, Records DEF HooksInv, Loops
  <2>2. Passed(exec[x]) \in Nat
    BY <2>1, Records
  <2>3. CASE exec[x].event = e /\ exec[x].live
    <3>1. /\ exec'[x] \in Exec /\ exec'[x].moved = (exec[x].moved \/ n <= Passed(exec[x]))
          /\ exec'[x].live = exec[x].live /\ exec'[x].list = exec[x].list
          /\ exec'[x].at = exec[x].at /\ exec'[x].i = exec[x].i /\ exec'[x].host = exec[x].host
          /\ exec'[x].event = exec[x].event /\ exec'[x].cap = exec[x].cap
          /\ exec'[x].ran = exec[x].ran /\ exec'[x].twice = exec[x].twice
          /\ exec'[x].start = exec[x].start /\ exec'[x].owner = exec[x].owner
      <4>1. CASE n <= Passed(exec[x])
        <5>1. exec'[x] = [exec[x] EXCEPT !.moved = TRUE]
          BY <1>1, <1>17, <2>3, <4>1 DEF n
        <5>2. QED
          BY <2>1, <4>1, <5>1 DEF Exec
      <4>2. CASE ~(n <= Passed(exec[x]))
        <5>1. exec'[x] = exec[x]
          BY <1>1, <1>17, <2>3, <4>2 DEF n
        <5>2. QED
          BY <2>1, <4>2, <5>1 DEF Exec
      <4>3. QED
        BY <4>1, <4>2
    <3>2. List(x) = s /\ List(x)' = t
      BY <1>6, <2>3, <3>1 DEF List
    <3>3. Passed(exec'[x]) = Passed(exec[x])
      BY <3>1 DEF Passed
    <3>4. Track(exec[x], s)
      BY <2>1, <3>2
    <3>5. Track(exec'[x], t)
      BY <1>1, <1>4, <2>2, <3>1, <3>3, <3>4, TrackInserted DEF t
    <3>6. Told(x)'
      BY <1>1, <1>12, <1>14, <1>16, <2>1, <3>1, <3>2 DEF Told, Of
    <3>7. QED
      BY <3>1, <3>2, <3>5, <3>6
  <2>4. CASE ~(exec[x].event = e /\ exec[x].live)
    <3>1. exec'[x] = exec[x]
      BY <1>1, <1>17, <2>4
    <3>2. List(x)' = List(x)
      BY <1>6, <2>1, <2>4, <3>1 DEF List, Exec
    <3>3. Track(exec[x], List(x))' /\ Told(x)'
      BY <1>1, <1>16, <1>17, <2>1, <3>1, <3>2, LoopKept
    <3>4. QED
      BY <2>1, <3>1, <3>3
  <2>5. QED
    BY <2>3, <2>4
<1>18. \A x \in Execs : Running(x)' <=> Running(x)
  BY <1>1, <1>17, Records DEF Running
<1>19. RunsTyped'
  <2>1. \A x \in Execs : exec'[x] \in Exec \union {Idle}
    BY <1>1, <1>17
  <2>2. exec' = [x \in Execs |-> exec'[x]]
    BY <1>1
  <2>3. QED
    BY <2>1, <2>2 DEF RunsTyped
<1>20. enables' \in 0..Enables /\ UNCHANGED <<inFlight, calls, rows, events, requests>>
  BY <1>1 DEF HooksInv, CountsTyped, counts
<1>21. QED
  BY <1>1, <1>13, <1>15, <1>17, <1>18, <1>19, <1>20, Aside

-----------------------------------------------------------------------------

LEMMA TheHooksStep == HooksInv /\ [HooksNext]_hookVars => HooksInv'
<1>1. SUFFICES ASSUME HooksInv, [HooksNext]_hookVars PROVE HooksInv'
  OBVIOUS
<1>2. CASE UNCHANGED hookVars
  <2>1. /\ UNCHANGED <<hooks, host, worker, active, exec, inFlight, cap, capsIn, state, recent>>
        /\ UNCHANGED <<plugins, inFlight, calls, rows, events, requests, enables, counts>>
    BY <1>2 DEF hookVars, plugins, calls, rows, counts
  <2>2. Owner' = Owner
    <3>1. UNCHANGED rows
      BY <2>1
    <3>2. HooksInv
      BY <1>1
    <3>3. QED
      BY <3>1, <3>2, RowsKept DEF HooksInv
  <2>3. \A x \in Execs : Running(x)' <=> Running(x)
    BY <2>1 DEF Running
  <2>4. \A x \in Execs : List(x)' = List(x)
    BY <2>1 DEF List
  <2>5. \A x \in Execs : Running(x) => Track(exec[x], List(x))' /\ Told(x)'
    BY <1>1, <2>1, <2>2, <2>4 DEF HooksInv, Loops, Told, Of
  <2>6. PluginsTyped' /\ Wired' /\ RunsTyped' /\ enables' \in 0..Enables
    BY <1>1, <2>1, PluginsKept DEF HooksInv, RunsTyped, PluginsTyped, CountsTyped
  <2>7. QED
    BY <1>1, <2>1, <2>3, <2>5, <2>6, Aside
<1>3. CASE \E p \in Plugins : Enable(p) \/ Disable(p) \/ SetPluginSessions(p)
  BY <1>1, <1>3, StepEnable, StepDisable, StepSetPluginSessions
<1>4. ASSUME NEW w \in Workers,
             \/ HandleExit(w)
             \/ \E e \in Event : HookSubscribe(w, e)
             \/ \E k \in Caps : \/ MappingsUpsert(k, w) \/ HandoverSet(k, w)
                                \/ \E x \in Execs \union {None} : CapSend(k, w, x)
      PROVE  HooksInv'
  BY <1>1, <1>4, StepHandleExit, StepHookSubscribe, StepAsk, StepCapSend
<1>5. ASSUME NEW x \in Execs,
             \/ \E e \in Event : Execute(x, e)
             \/ Invoke(x) \/ Gate(x) \/ HookResult(x) \/ HookTimeout(x) \/ Finish(x)
      PROVE  HooksInv'
  BY <1>1, <1>5, StepExecute, StepInvoke, StepGate, StepHookResult, StepHookTimeout, StepFinish
<1>6. ASSUME NEW k \in Caps,
             \/ UpsertInsert(k) \/ UpsertUpdate(k) \/ CapDone(k)
             \/ \E s \in State : SetHandover(k, s)
      PROVE  HooksInv'
  BY <1>1, <1>6, StepWrite, StepCapDone
<1>7. QED
  BY <1>1, <1>2, <1>3, <1>4, <1>5, <1>6 DEF HooksNext

LEMMA TheHooksKeep == HooksSpec => []HooksInv
<1>1. QED
  BY TheHooksStart, TheHooksStep, PTL DEF HooksSpec

\* Through registrations, removals, exits and time limits, an event runs through every handler
\* it was fired for, and through none twice unless one was sorted in ahead of it; and the
\* counters of unanswered requests and unended calls count exactly these.
THEOREM EveryHandlerOnce == HooksSpec => []EachOnce
<1>1. HooksInv => EachOnce
  <2>1. SUFFICES ASSUME HooksInv PROVE EachOnce
    OBVIOUS
  <2>2. HooksTypeOK
    BY <2>1 DEF HooksInv, HooksTypeOK, PluginsTyped, RunsTyped, AnswersTyped, CallsTyped, RowsTyped,
                CountsTyped, Sorted
  <2>3. CountersExact
    BY <2>1 DEF HooksInv, CountersExact, Unanswered, Unended, Pending, Asked
  <2>4. OncePerEvent
    BY <2>1 DEF HooksInv, OncePerEvent, Loops, Track
  <2>5. NobodySkipped
    <3>1. SUFFICES ASSUME NEW x \in Execs, Running(x), exec[x].at = "next", exec[x].i > Len(List(x)),
                          NEW v \in exec[x].start
                   PROVE  v \in exec[x].ran
      BY DEF NobodySkipped
    <3>2. Track(exec[x], List(x)) /\ exec[x] \in Exec
      BY <2>1, <3>1, Records DEF HooksInv, Loops
    <3>3. ASSUME NEW j \in 1..Len(List(x)) PROVE ~(Passed(exec[x]) < j)
      BY <3>1, <3>2 DEF Passed, Exec, Track
    <3>4. QED
      BY <3>1, <3>2, <3>3 DEF Track
  <2>6. QED
    BY <2>2, <2>3, <2>4, <2>5 DEF EachOnce
<1>2. QED
  BY <1>1, TheHooksKeep, PTL

\* An event reaches no plugin it is not for: not the one whose own send fired it while it was
\* being asked, nor another than the one that had taken the chat over.
THEOREM OnlyWhoItIsFor == HooksSpec => []RightPlugins
<1>1. HooksInv => RightPlugins
  <2>1. SUFFICES ASSUME HooksInv PROVE RightPlugins
    OBVIOUS
  <2>2. NoEcho
    <3>1. SUFFICES ASSUME NEW x \in Execs, NEW y \in Execs, Running(x), Waiting(y), exec[x].cap # None,
                          cap[exec[x].cap].cause = y, exec[x].event = exec[y].event
                   PROVE  FALSE
      BY DEF NoEcho
    <3>2. FiredBy(x) /\ exec[x].cap \in Caps
      BY <2>1, <3>1, Records DEF HooksInv, Firing, Exec
    <3>3. CausedBy(exec[x].cap) /\ y # None
      BY <2>1, <3>1, <3>2, HooksAssumption DEF HooksInv, Causes, FiredBy
    <3>4. QED
      BY <3>1, <3>2, <3>3 DEF FiredBy, CausedBy
  <2>3. HandoverSilences
    BY <2>1 DEF HooksInv, HandoverSilences, Loops, Told, Waiting
  <2>4. QED
    BY <2>2, <2>3 DEF RightPlugins
<1>2. QED
  BY <1>1, TheHooksKeep, PTL

\* Whatever the order of lookups and writes, the state of a conversation's row changes only by
\* a handover of its own plugin.
THEOREM OnlyHandoversHandOver == HooksSpec => UpsertKeepsHandover
<1> DEFINE A == \A p \in Plugins : (state[p] # None /\ state'[p] # state[p]) =>
                  \E k \in Caps : cap[k] # Idle /\ cap[k].at = "set" /\ Of(cap[k].worker) = p
<1>1. ASSUME HooksInv, [HooksNext]_hookVars PROVE A
  <2>1. state \in [Plugins -> State \union {None}]
    BY <1>1 DEF HooksInv, RowsTyped
  <2>2. CASE \E k \in Caps : UpsertInsert(k)
    <3>1. PICK k \in Caps : UpsertInsert(k)
      BY <2>2
    <3>2. CASE state' = state
      BY <3>2
    <3>3. CASE state[Of(cap[k].worker)] = None /\ state' = [state EXCEPT ![Of(cap[k].worker)] = "bot"]
      BY <2>1, <3>3
    <3>4. QED
      BY <3>1, <3>2, <3>3 DEF UpsertInsert, rows
  <2>3. CASE \E k \in Caps : \E s \in State : SetHandover(k, s)
    <3>1. PICK k \in Caps, s \in State : SetHandover(k, s)
      BY <2>3
    <3>2. /\ cap[k] # Idle /\ cap[k].at = "set"
          /\ \A p \in Plugins : p # Of(cap[k].worker) => state'[p] = state[p]
      BY <2>1, <3>1 DEF SetHandover
    <3>3. QED
      BY <3>2
  <2>4. CASE UNCHANGED state
    BY <2>4
  <2>5. QED
    BY <1>1, <2>2, <2>3, <2>4
       DEF HooksNext, hookVars, rows, Enable, Disable, SetPluginSessions, HandleExit, HookSubscribe,
           MappingsUpsert, HandoverSet, CapSend, Admitted, Execute, Invoke, Gate, HookResult,
           HookTimeout, Finish, UpsertUpdate, CapDone
<1>2. QED
  BY <1>1, TheHooksKeep, PTL DEF UpsertKeepsHandover, HooksSpec

=============================================================================
