---------------------------- MODULE HookDispatch ----------------------------
(***************************************************************************)
(* Events on their way through the plugins: HookManager                    *)
(* (hook-manager.service.ts), the shim the loader registers for a worker's *)
(* subscription (plugin-loader.service.ts) with its activation and         *)
(* handover gates, PluginWorkerHost (plugin-worker-host.ts) with the       *)
(* requests it waits for, the capability calls of the workers, and the     *)
(* rows of ConversationMappingService (conversation-mapping.service.ts)    *)
(* for one chat of one session.  How plugins are enabled and disabled is   *)
(* PluginLifecycle's; here they come and go.                               *)
(***************************************************************************)
EXTENDS Integers, Sequences, SequencesExt, FiniteSets

CONSTANTS
  Plugins, Workers,
  Priority,   \* the priority a plugin subscribes with
  Execs,      \* executions of an event
  Caps,       \* capability calls
  MaxCaps,    \* SANDBOX_MAX_INFLIGHT_CAPS
  Known,      \* plugins that have their row of the chat when the process starts, last updated first
  None,
  Events,     \* bound: events fired from outside
  Enables,    \* bound: workers started
  Requests    \* bound: capability calls, and changes of an activation

ASSUME HooksAssumption ==
  /\ Priority \in [Plugins -> Nat] /\ Known \in Seq(Plugins) /\ IsInjective(Known)
  /\ MaxCaps \in Nat \ {0} /\ Events \in Nat /\ Enables \in Nat /\ Requests \in Nat
  /\ None \notin Plugins \union Workers \union Execs \union Caps

VARIABLES
  hooks,     \* the registrations of each event, by the worker that subscribed
  host,      \* sandboxHosts
  worker,    \* the plugin of a worker, and whether it runs
  active,    \* plugins the operator has activated for the session
  exec,      \* executions
  inFlight,  \* inFlightHookEvents of each worker's host
  cap,       \* capability calls
  capsIn,    \* inFlightCaps
  state,     \* handoverState of the chat's row for a plugin
  recent,    \* the plugins with a row, last updated first
  events, enables, requests

plugins == <<hooks, host, worker, active>>
calls == <<cap, capsIn>>
rows == <<state, recent>>
counts == <<events, enables, requests>>
hookVars == <<plugins, exec, inFlight, calls, rows, counts>>

Event == {"received", "sending"}
\* list: the array the loop runs over, once it is no longer the manager's; i: the handler it is
\* at.  History: ran, twice, moved, start: the registrations that ran, whether one ran again,
\* whether one was inserted among them, those there were at first; cap: the call that fired
\* the event; owner: who alone may see it, by a handover older than the event.
Exec == [event: Event, live: BOOLEAN, list: Seq(Workers), i: Nat \ {0},
         at: {"next", "gate", "wait"}, host: Workers \union {None}, cap: Caps \union {None},
         ran: SUBSET Workers, twice: BOOLEAN, moved: BOOLEAN, start: SUBSET Workers,
         owner: Plugins \union {None}]
\* A closed conversation is to the gate what a human's is.
\* cause: the execution whose handler makes the call, as long as its answer is awaited.
Cap == [verb: {"send", "upsert", "handover"}, worker: Workers, cause: Execs \union {None},
        at: {"hooks", "act", "insert", "update", "set"}]
Idle == [at |-> "idle"]
State == {"bot", "human"}

HooksTypeOK ==
  /\ hooks \in [Event -> Seq(Workers)]
  /\ host \in [Plugins -> Workers \union {None}]
  /\ worker \in [Workers -> [plugin: Plugins \union {None}, alive: BOOLEAN]]
  /\ active \subseteq Plugins
  /\ exec \in [Execs -> Exec \union {Idle}]
  /\ inFlight \in [Workers -> [Event -> Nat]]
  /\ cap \in [Caps -> Cap \union {Idle}]
  /\ capsIn \in [Workers -> 0..MaxCaps]
  /\ state \in [Plugins -> State \union {None}]
  /\ recent \in Seq(Plugins) /\ IsInjective(recent)
  /\ events \in 0..Events /\ enables \in 0..Enables /\ requests \in 0..Requests
  /\ \A e \in Event : \A i, j \in 1..Len(hooks[e]) : i < j =>
       LET p == worker[hooks[e][i]].plugin
           q == worker[hooks[e][j]].plugin
       IN  p # q /\ Priority[p] <= Priority[q]

HooksInit ==
  /\ hooks = [e \in Event |-> <<>>]
  /\ host = [p \in Plugins |-> None]
  /\ worker = [w \in Workers |-> [plugin |-> None, alive |-> FALSE]]
  /\ active = Plugins
  /\ exec = [x \in Execs |-> Idle]
  /\ inFlight = [w \in Workers |-> [e \in Event |-> 0]]
  /\ cap = [k \in Caps |-> Idle]
  /\ capsIn = [w \in Workers |-> 0]
  /\ recent = Known
  /\ state = [p \in Plugins |-> IF \E i \in 1..Len(Known) : Known[i] = p THEN "bot" ELSE None]
  /\ events = 0 /\ enables = 0 /\ requests = 0

-----------------------------------------------------------------------------

Running(x) == exec[x] # Idle
Waiting(x) == Running(x) /\ exec[x].at = "wait"
List(x) == IF exec[x].live THEN hooks[exec[x].event] ELSE exec[x].list
\* The handlers of the list the loop has got to.
Passed(r) == IF r.at = "next" THEN r.i - 1 ELSE r.i
Of(w) == worker[w].plugin

\* findHandoverForChat: the last updated row that is not the bot's.
NotBot(p) == state[p] = "human"
Owner == LET i == SelectInSeq(recent, NotBot) IN IF i = 0 THEN None ELSE recent[i]

ShouldDispatchToPlugin(p) == Owner \in {None, p}

\* settle: the counter goes down; variant: only an answer lowers it.
SettledByAnswerOnly(set, answered) ==
  inFlight' = [w \in Workers |-> [e \in Event |-> inFlight[w][e] -
    (IF answered THEN Cardinality({x \in set : exec[x].host = w /\ exec[x].event = e}) ELSE 0)]]
Settled(set, answered) ==
  inFlight' = [w \in Workers |-> [e \in Event |-> inFlight[w][e] -
    Cardinality({x \in set : exec[x].host = w /\ exec[x].event = e})]]

\* No call is on behalf of these executions' handlers any more.
Uncaused(set) ==
  [k \in Caps |-> IF cap[k] = Idle THEN Idle
                  ELSE IF cap[k].cause \in set THEN [cap[k] EXCEPT !.cause = None] ELSE cap[k]]

NextHandler(r) == [r EXCEPT !.at = "next", !.i = @ + 1, !.host = None]

-----------------------------------------------------------------------------
\* Registrations

\* register: pushed, and sorted by priority, in the array that running loops hold: it goes
\* before the first registration that is to come later.
Position(w, e) ==
  LET later == SelectInSeq(hooks[e], LAMBDA v : Priority[Of(v)] > Priority[Of(w)])
  IN  IF later = 0 THEN Len(hooks[e]) + 1 ELSE later
Register(w, e) ==
  /\ hooks' = [hooks EXCEPT ![e] = InsertAt(@, Position(w, e), w)]
  /\ exec' = [x \in Execs |->
                IF ~Running(x) THEN Idle
                ELSE IF exec[x].event = e /\ exec[x].live /\ Position(w, e) <= Passed(exec[x])
                     THEN [exec[x] EXCEPT !.moved = TRUE] ELSE exec[x]]

\* A worker subscribes to an event, once.
HookSubscribe(w, e) ==
  /\ worker[w].alive /\ \A i \in 1..Len(hooks[e]) : hooks[e][i] # w
  /\ Register(w, e)
  /\ UNCHANGED <<host, worker, active, inFlight, calls, rows, counts>>

\* unregisterPlugin: every event gets a new array, without the plugin's handler, of which there
\* is one at most; running loops keep the old array.  Variant: the array is spliced in place.
Without(e, p) == RemoveFirstMatch(hooks[e], LAMBDA v : Of(v) = p)
UnregisterInPlace(p) ==
  /\ hooks' = [e \in Event |-> Without(e, p)]
  /\ UNCHANGED exec
UnregisterPlugin(p) ==
  /\ hooks' = [e \in Event |-> Without(e, p)]
  /\ exec' = [x \in Execs |-> IF ~Running(x) THEN Idle
                              ELSE [exec[x] EXCEPT !.live = FALSE, !.list = List(x)]]

Free(w) ==
  /\ ~worker[w].alive /\ \A p \in Plugins : host[p] # w
  /\ \A e \in Event : \A i \in 1..Len(hooks[e]) : hooks[e][i] # w
  /\ \A x \in Execs : Running(x) =>
       /\ exec[x].host # w /\ w \notin exec[x].start \union exec[x].ran
       /\ \A i \in 1..Len(exec[x].list) : exec[x].list[i] # w
  /\ \A k \in Caps : cap[k] # Idle => cap[k].worker # w

\* A plugin's worker is there; the plugin's hooks follow.
Enable(p) ==
  LET w == CHOOSE v \in Workers : Free(v)
  IN  /\ enables < Enables /\ enables' = enables + 1
      /\ host[p] = None /\ \E v \in Workers : Free(v)
      /\ worker' = [worker EXCEPT ![w] = [plugin |-> p, alive |-> TRUE]]
      /\ host' = [host EXCEPT ![p] = w]
      /\ UNCHANGED <<hooks, active, exec, inFlight, calls, rows, events, requests>>

\* handleExit: every request the worker had not answered is settled.
On(w) == {x \in Execs : Waiting(x) /\ exec[x].host = w}
Drained(w, r) == [x \in Execs |-> IF x \in On(w) THEN NextHandler(r[x]) ELSE r[x]]

HandleExit(w) ==
  /\ worker[w].alive
  /\ worker' = [worker EXCEPT ![w].alive = FALSE]
  /\ exec' = Drained(w, exec)
  /\ Settled(On(w), FALSE)
  /\ cap' = Uncaused(On(w))
  /\ UNCHANGED <<hooks, host, active, capsIn, rows, counts>>

\* disablePlugin, from the end of the termination; the worker may have exited before.
Disable(p) ==
  /\ host[p] # None /\ ~worker[host[p]].alive
  /\ host' = [host EXCEPT ![p] = None]
  /\ UnregisterPlugin(p)
  /\ UNCHANGED <<worker, active, inFlight, calls, rows, counts>>

\* setPluginSessions
SetPluginSessions(p) ==
  /\ requests < Requests /\ requests' = requests + 1
  /\ active' = (active \ {p}) \union ({p} \ active)
  /\ UNCHANGED <<hooks, host, worker, exec, inFlight, calls, rows, events, enables>>

-----------------------------------------------------------------------------
\* runHandlers and the shim

Start(x, e, k) ==
  exec' = [exec EXCEPT ![x] =
    [event |-> e, live |-> TRUE, list |-> <<>>, i |-> 1, at |-> "next", host |-> None, cap |-> k,
     ran |-> {}, twice |-> FALSE, moved |-> FALSE, start |-> {hooks[e][i] : i \in 1..Len(hooks[e])},
     owner |-> IF e = "received" THEN Owner ELSE None]]

\* An event is fired from outside; one nobody subscribed to is over at once.
Execute(x, e) ==
  /\ ~Running(x) /\ events < Events /\ hooks[e] # <<>>
  /\ Start(x, e, None)
  /\ events' = events + 1
  /\ UNCHANGED <<plugins, inFlight, calls, rows, enables, requests>>

\* dispatchHook: whatever became of the worker, the request is sent, and waited for.
Dispatch(x, r) ==
  /\ exec' = [exec EXCEPT ![x] = [r EXCEPT !.at = "wait"]]
  /\ inFlight' = [inFlight EXCEPT ![r.host][r.event] = @ + 1]

\* The next handler: it passes without a host or an activation; a received message goes
\* through the handover gate.
Invoke(x) ==
  LET w == List(x)[exec[x].i]
      r == [exec[x] EXCEPT !.ran = @ \union {w}, !.twice = @ \/ w \in exec[x].ran]
      h == host[Of(w)]
  IN  /\ Running(x) /\ exec[x].at = "next" /\ exec[x].i <= Len(List(x))
      /\ \/ /\ h = None \/ Of(w) \notin active
            /\ exec' = [exec EXCEPT ![x] = NextHandler(r)]
            /\ UNCHANGED inFlight
         \/ /\ h # None /\ Of(w) \in active /\ r.event = "received"
            /\ exec' = [exec EXCEPT ![x] = [r EXCEPT !.at = "gate", !.host = h]]
            /\ UNCHANGED inFlight
         \/ /\ h # None /\ Of(w) \in active /\ r.event # "received"
            /\ Dispatch(x, [r EXCEPT !.host = h])
      /\ UNCHANGED <<plugins, calls, rows, counts>>

\* The handover lookup comes back, or fails and lets the message through.
Gate(x) ==
  /\ Running(x) /\ exec[x].at = "gate"
  /\ \/ /\ ShouldDispatchToPlugin(Of(exec[x].host))
        /\ Dispatch(x, exec[x])
     \/ /\ ~ShouldDispatchToPlugin(Of(exec[x].host))
        /\ exec' = [exec EXCEPT ![x] = NextHandler(@)]
        /\ UNCHANGED inFlight
     \/ Dispatch(x, [exec[x] EXCEPT !.owner = None])
  /\ UNCHANGED <<plugins, calls, rows, counts>>

\* The loop is over; a call that fired the event goes on.
RunOver(x, caps) ==
  cap' = IF exec[x].cap = None THEN caps ELSE [caps EXCEPT ![exec[x].cap].at = "act"]

\* The worker answers.
HookResult(x) ==
  /\ Waiting(x) /\ worker[exec[x].host].alive
  /\ Settled({x}, TRUE)
  /\ \/ exec' = [exec EXCEPT ![x] = NextHandler(@)] /\ cap' = Uncaused({x})
     \/ exec' = [exec EXCEPT ![x] = Idle] /\ RunOver(x, Uncaused({x}))
  /\ UNCHANGED <<plugins, capsIn, rows, counts>>

\* It does not, in time.
HookTimeout(x) ==
  /\ Waiting(x)
  /\ Settled({x}, FALSE)
  /\ exec' = [exec EXCEPT ![x] = NextHandler(@)]
  /\ cap' = Uncaused({x})
  /\ UNCHANGED <<plugins, capsIn, rows, counts>>

Finish(x) ==
  /\ Running(x) /\ exec[x].at = "next" /\ exec[x].i > Len(List(x))
  /\ exec' = [exec EXCEPT ![x] = Idle]
  /\ RunOver(x, Uncaused({x}))
  /\ UNCHANGED <<plugins, inFlight, capsIn, rows, counts>>

-----------------------------------------------------------------------------
\* Capability calls

\* A worker asks; the host refuses at the limit, and what the plugin is not activated for.
Admitted(k, w) ==
  /\ cap[k] = Idle /\ requests < Requests /\ requests' = requests + 1
  /\ worker[w].alive /\ capsIn[w] < MaxCaps /\ Of(w) \in active
  /\ capsIn' = [capsIn EXCEPT ![w] = @ + 1]
  /\ UNCHANGED <<plugins, inFlight, rows, events, enables>>
Call(k, w, verb, x, at) ==
  cap' = [cap EXCEPT ![k] = [verb |-> verb, worker |-> w, cause |-> x, at |-> at]]

\* The call ends, in success or not; its answer goes to whatever is left of the worker.
Answer(k) ==
  /\ cap' = [cap EXCEPT ![k] = Idle]
  /\ capsIn' = [capsIn EXCEPT ![cap[k].worker] = @ - 1]

\* A send fires message:sending, unless it is blocked as a re-entry: the worker owes an answer
\* to that event.  Variant: nothing is blocked.
BlockedNever(w) == FALSE
Blocked(w) == inFlight[w]["sending"] > 0

CapSend(k, w, x) ==
  /\ x \in On(w) \union {None}
  /\ Admitted(k, w)
  /\ \/ /\ Blocked(w) \/ hooks["sending"] = <<>>
        /\ Call(k, w, "send", x, "act")
        /\ UNCHANGED exec
     \/ /\ ~Blocked(w) /\ hooks["sending"] # <<>>
        /\ \E y \in Execs : ~Running(y) /\ Start(y, "sending", k)
        /\ Call(k, w, "send", x, "hooks")

\* The engine has sent, or a write rejects.
CapDone(k) ==
  /\ cap[k] # Idle /\ cap[k].at # "hooks"
  /\ Answer(k)
  /\ UNCHANGED <<plugins, exec, inFlight, rows, counts>>

\* A row was written: whoever owned the chat before, no event of before is its alone.
Touch(p) ==
  /\ recent' = <<p>> \o RemoveFirst(recent, p)
  /\ exec' = [x \in Execs |-> IF Running(x) THEN [exec[x] EXCEPT !.owner = None] ELSE Idle]

\* upsert finds its row, or not.
MappingsUpsert(k, w) ==
  /\ Admitted(k, w)
  /\ Call(k, w, "upsert", None, IF state[Of(w)] = None THEN "insert" ELSE "update")
  /\ UNCHANGED exec

\* It inserts, and updates a row that came in between; or another chat has the provider's id,
\* and the call throws.
UpsertInsert(k) ==
  LET p == Of(cap[k].worker)
  IN  /\ cap[k] # Idle /\ cap[k].at = "insert"
      /\ \/ /\ state[p] = None
            /\ state' = [state EXCEPT ![p] = "bot"] /\ Touch(p)
            /\ Answer(k)
         \/ /\ state[p] # None
            /\ cap' = [cap EXCEPT ![k].at = "update"]
            /\ UNCHANGED <<exec, capsIn, rows>>
      /\ UNCHANGED <<plugins, inFlight, counts>>

\* It updates the provider's id of its row, which changes nothing here but the row's age.
\* Variant: the defaults of an insert are written with it.
UpsertUpdateDefaults(k) ==
  LET p == Of(cap[k].worker)
  IN  /\ cap[k] # Idle /\ cap[k].at = "update"
      /\ state' = [state EXCEPT ![p] = "bot"] /\ Touch(p)
      /\ Answer(k)
      /\ UNCHANGED <<plugins, inFlight, counts>>
UpsertUpdate(k) ==
  /\ cap[k] # Idle /\ cap[k].at = "update"
  /\ Touch(Of(cap[k].worker))
  /\ Answer(k)
  /\ UNCHANGED <<plugins, state, inFlight, counts>>

\* handover.set finds the plugin's row, and updates it.
HandoverSet(k, w) ==
  /\ Admitted(k, w)
  /\ state[Of(w)] # None
  /\ Call(k, w, "handover", None, "set")
  /\ UNCHANGED exec

SetHandover(k, s) ==
  LET p == Of(cap[k].worker)
  IN  /\ cap[k] # Idle /\ cap[k].at = "set"
      /\ state' = [state EXCEPT ![p] = s] /\ Touch(p)
      /\ Answer(k)
      /\ UNCHANGED <<plugins, inFlight, counts>>

-----------------------------------------------------------------------------

HooksNext ==
  \/ \E p \in Plugins : Enable(p) \/ Disable(p) \/ SetPluginSessions(p)
  \/ \E w \in Workers : \/ HandleExit(w)
                        \/ \E e \in Event : HookSubscribe(w, e)
                        \/ \E k \in Caps : \/ MappingsUpsert(k, w) \/ HandoverSet(k, w)
                                           \/ \E x \in Execs \union {None} : CapSend(k, w, x)
  \/ \E x \in Execs : \/ \E e \in Event : Execute(x, e)
                      \/ Invoke(x) \/ Gate(x) \/ HookResult(x) \/ HookTimeout(x) \/ Finish(x)
  \/ \E k \in Caps : \/ UpsertInsert(k) \/ UpsertUpdate(k) \/ CapDone(k)
                     \/ \E s \in State : SetHandover(k, s)

HooksSpec == HooksInit /\ [][HooksNext]_hookVars

-----------------------------------------------------------------------------

\* An event reaches a handler a second time only if, while the event was on its way, a handler
\* was registered ahead of one that had run already: the loop runs over the live array.
OncePerEvent == \A x \in Execs : (Running(x) /\ exec[x].twice) => exec[x].moved

\* An event that runs to its end has been through every handler registered when it was fired,
\* whoever was disabled or enabled meanwhile.
NobodySkipped ==
  \A x \in Execs :
    (Running(x) /\ exec[x].at = "next" /\ exec[x].i > Len(List(x))) =>
      exec[x].start \subseteq exec[x].ran

\* The counters by which re-entry is recognised and calls are limited count what they say,
\* through answers, time limits and exits: they return to zero.
CountersExact ==
  \A w \in Workers :
    /\ \A e \in Event : inFlight[w][e] =
         Cardinality({x \in Execs : Waiting(x) /\ exec[x].host = w /\ exec[x].event = e})
    /\ capsIn[w] = Cardinality({k \in Caps : cap[k] # Idle /\ cap[k].worker = w})

\* No plugin answers itself: while an event waits for a worker, that worker's own calls on
\* behalf of it do not set the same event going.
NoEcho ==
  \A x, y \in Execs :
    (Running(x) /\ Waiting(y) /\ exec[x].cap # None) =>
      ~ (cap[exec[x].cap].cause = y /\ exec[x].event = exec[y].event)

\* Once a plugin has taken the chat over, a message received from then on goes to no other
\* plugin, unless the lookup failed or a row of the chat was written in between.
HandoverSilences ==
  \A x \in Execs : Waiting(x) => exec[x].owner \in {None, Of(exec[x].host)}

\* An upsert never hands a conversation back to the bot: only a handover changes the state of a
\* row that is there.
UpsertKeepsHandover ==
  [][\A p \in Plugins : (state[p] # None /\ state'[p] # state[p]) =>
       \E k \in Caps : cap[k] # Idle /\ cap[k].at = "set" /\ Of(cap[k].worker) = p]_hookVars

\* The state is of its type; every handler of an event runs, runs once, and is counted while it
\* does.
EachOnce == HooksTypeOK /\ CountersExact /\ OncePerEvent /\ NobodySkipped

\* An event reaches no plugin it is not for: not the one that caused it, nor one whose chat
\* another has taken over.
RightPlugins == NoEcho /\ HandoverSilences

=============================================================================
