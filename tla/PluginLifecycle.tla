--------------------------- MODULE PluginLifecycle ---------------------------
(***************************************************************************)
(* Installed plugins: PluginsService (plugins.service.ts), which runs the  *)
(* operations on one id one after another, PluginLoaderService             *)
(* (plugin-loader.service.ts), which does not, the registry, the plugin    *)
(* directories and the workers.  A stretch of code without an await is one *)
(* step; a process that dies may die inside it.  A worker that cannot be   *)
(* built is one whose load fails.  Built-in engines are left out.          *)
(***************************************************************************)
EXTENDS Integers, FiniteSets

CONSTANTS
  Plugins,     \* plugin ids
  Versions,    \* packages that can be installed
  Calls,       \* activations of enable, disable, uninstall, update, and of the shutdown
  Workers,     \* worker threads; one that is dead and named nowhere is used again
  None,        \* no directory, registry entry, instance or worker
  Partial,     \* a directory whose files were not all written, or not all removed
  MaxConfig,   \* bound: changes of a plugin's configuration
  Requests,    \* bound: operations that are started
  Crashes      \* bound: restarts

ASSUME PluginsAssumption ==
  /\ None \notin Versions \union Workers /\ Partial \notin Versions \union {None}
  /\ MaxConfig \in Nat /\ Requests \in Nat /\ Crashes \in Nat

VARIABLES
  plugin,      \* what disk and memory hold of a plugin
  worker,      \* the worker threads
  call,        \* the activations
  closing,     \* the plugins onModuleDestroy has still to disable, once it runs
  current,     \* the version last installed or updated to (history)
  chosen,      \* the configuration last chosen (history)
  interrupted, \* plugins with an update that stopped between its steps (history)
  patched,     \* plugins updated while their files were partial (history)
  missed,      \* plugins configured while they were being enabled (history)
  requests, crashes

history == <<current, chosen, interrupted, patched, missed>>
counts == <<requests, crashes>>
vars == <<plugin, worker, call, closing, history, counts>>

Status == {"installed", "enabled", "disabled", "error"}
Config == 0..MaxConfig
Files == Versions \union {Partial, None}
Entry == [status: Status, config: Config]
Instance == [status: Status, version: Versions \union {Partial}, config: Config]
\* dir and bak: the directory <id> and its backup .<id>.bak; entry: registry.json; run, enabling,
\* host, hooks: the loader's plugins, enabling and sandboxHosts, and the workers whose
\* registrations the hook manager holds.
Plugin == [dir: Files, bak: Files, entry: Entry \union {None}, run: Instance \union {None},
           enabling: BOOLEAN, host: Workers \union {None}, hooks: SUBSET Workers]
Worker == [alive: BOOLEAN, config: Config, subscribed: BOOLEAN]
Ops == {"enable", "disable", "uninstall", "update", "restore", "shutdown"}
At == {"load", "onLoad", "onEnable", "failing", "stopping"}
Call == [op: Ops, id: Plugins, at: At, worker: Workers \union {None},
         was: BOOLEAN, new: Versions \union {None}]
Idle == [op |-> "idle", id |-> None]

ASSUME NoneIsNothing ==
  None \notin Plugins \union Entry \union Instance /\ \A S \in SUBSET Plugins : S # None

TypeOK ==
  /\ plugin \in [Plugins -> Plugin]
  /\ worker \in [Workers -> Worker]
  /\ call \in [Calls -> Call \union {Idle}]
  /\ closing \in (SUBSET Plugins) \union {None}
  /\ current \in [Plugins -> Versions \union {None}]
  /\ chosen \in [Plugins -> Config]
  /\ interrupted \subseteq Plugins /\ patched \subseteq Plugins /\ missed \subseteq Plugins
  /\ requests \in 0..Requests /\ crashes \in 0..Crashes

Init ==
  /\ plugin = [p \in Plugins |-> [dir |-> None, bak |-> None, entry |-> None, run |-> None,
                                  enabling |-> FALSE, host |-> None, hooks |-> {}]]
  /\ worker = [w \in Workers |-> [alive |-> FALSE, config |-> 0, subscribed |-> FALSE]]
  /\ call = [c \in Calls |-> Idle]
  /\ closing = None
  /\ current = [p \in Plugins |-> None] /\ chosen = [p \in Plugins |-> 0]
  /\ interrupted = {} /\ patched = {} /\ missed = {}
  /\ requests = 0 /\ crashes = 0

-----------------------------------------------------------------------------
\* What the loader does to a plugin P between two awaits.

IsEnabled(P) == IF P.run = None THEN FALSE ELSE P.run.status = "enabled"

\* setPluginStatus writes an entry that exists; the instance may be gone.
WithStatus(P, s) ==
  [P EXCEPT !.run = IF @ = None THEN None ELSE [@ EXCEPT !.status = s],
            !.entry = IF @ = None THEN None ELSE [@ EXCEPT !.status = s]]

\* ensureRegistryEntry keeps the configuration of an entry.
StoredConfig(P) == IF P.entry = None THEN 0 ELSE P.entry.config

LoadPlugin(P) ==
  [P EXCEPT !.run = [status |-> "installed", version |-> P.dir, config |-> StoredConfig(P)],
            !.entry = [status |-> "installed", config |-> StoredConfig(P)]]

Enabled(P) == WithStatus([P EXCEPT !.enabling = FALSE], "enabled")

\* The catch of enablePlugin drops what the failed attempt subscribed.
Failed(P) == WithStatus([P EXCEPT !.enabling = FALSE, !.hooks = {}], "error")

\* The end of disablePlugin.
Disabled(P) == WithStatus([P EXCEPT !.host = None, !.hooks = {}], "disabled")

Unload(P) == [P EXCEPT !.run = None]
Removed(P) == [P EXCEPT !.entry = None, !.dir = None]
SetAside(P) == [P EXCEPT !.bak = P.dir, !.dir = None]
\* The new version is written and loaded; variant: the backup goes with that.
InstalledForGood(P, v) == LoadPlugin([P EXCEPT !.dir = v, !.bak = None])
Installed(P, v) == LoadPlugin([P EXCEPT !.dir = v])
Committed(P) == [P EXCEPT !.bak = None]

\* The rollback of an update.
Restore(P) == LoadPlugin([Unload(P) EXCEPT !.dir = P.bak, !.bak = None])

-----------------------------------------------------------------------------

Idling(c) == call[c] = Idle
On(p) == {c \in Calls : call[c].id = p}

\* Operations on one id run one after another; the shutdown does not queue.
Serialized(p, op) == \A c \in On(p) : call[c].op = "shutdown"

Request(c, p, op) ==
  /\ Idling(c) /\ requests < Requests
  /\ Serialized(p, op)
  /\ plugin[p].run # None
  /\ requests' = requests + 1
  /\ UNCHANGED crashes

Return(c) == call' = [call EXCEPT ![c] = Idle]
Finish(c, p, P) == plugin' = [plugin EXCEPT ![p] = P] /\ Return(c)

Named(w) == \/ \E p \in Plugins : plugin[p].host = w \/ w \in plugin[p].hooks
            \/ \E c \in Calls : call[c] # Idle /\ call[c].worker = w
Free(w) == ~worker[w].alive /\ ~Named(w)
Kill(w) == [worker EXCEPT ![w].alive = FALSE]

\* enablePlugin up to host.load: the lock is claimed, and a worker started with the
\* configuration of the moment.  workers is the function of threads the step leaves.
Launch(c, P, act, workers) ==
  LET w == CHOOSE x \in Workers : Free(x)
  IN  /\ \E x \in Workers : Free(x)
      /\ plugin' = [plugin EXCEPT ![act.id] = [P EXCEPT !.enabling = TRUE, !.host = w]]
      /\ worker' = [workers EXCEPT ![w] =
                      [alive |-> TRUE, config |-> P.run.config, subscribed |-> FALSE]]
      /\ call' = [call EXCEPT ![c] = [act EXCEPT !.at = "load", !.worker = w]]
      /\ missed' = missed \ {act.id}

Act(op, p) == [op |-> op, id |-> p, at |-> "stopping", worker |-> None, was |-> FALSE, new |-> None]

\* enable; what is refused (no such plugin, already enabled, being enabled) changes nothing.
Enable(c, p) ==
  /\ Request(c, p, "enable")
  /\ ~IsEnabled(plugin[p]) /\ ~plugin[p].enabling
  /\ Launch(c, plugin[p], Act("enable", p), worker)
  /\ UNCHANGED <<closing, current, chosen, interrupted, patched>>

\* The worker answers load, then onLoad.
Advance(c) ==
  /\ ~Idling(c) /\ call[c].at \in {"load", "onLoad"} /\ worker[call[c].worker].alive
  /\ call' = [call EXCEPT ![c].at = IF @ = "load" THEN "onLoad" ELSE "onEnable"]
  /\ UNCHANGED <<plugin, worker, closing, history, counts>>

EnableSucceeds(c) ==
  LET p == call[c].id
  IN  /\ ~Idling(c) /\ call[c].at = "onEnable" /\ worker[call[c].worker].alive
      /\ \/ /\ call[c].op # "update"
            /\ Finish(c, p, Enabled(plugin[p]))
            /\ UNCHANGED current
         \/ /\ call[c].op = "update"
            /\ Finish(c, p, Committed(Enabled(plugin[p])))
            /\ current' = [current EXCEPT ![p] = call[c].new]
      /\ UNCHANGED <<worker, closing, chosen, interrupted, patched, missed, counts>>

\* load or a lifecycle method throws, times out, or the worker exits: the host is dropped, and
\* its termination awaited.  Variant: no time limit.
EnableFailsOnExit(c) ==
  /\ ~Idling(c) /\ call[c].at \in {"load", "onLoad", "onEnable"}
  /\ ~worker[call[c].worker].alive
  /\ plugin' = [plugin EXCEPT ![call[c].id].host = None]
  /\ call' = [call EXCEPT ![c].at = "failing"]
  /\ UNCHANGED <<worker, closing, history, counts>>
EnableFails(c) ==
  LET p == call[c].id
  IN  /\ ~Idling(c) /\ call[c].at \in {"load", "onLoad", "onEnable"}
      /\ plugin' = [plugin EXCEPT ![p].host = None]
      /\ call' = [call EXCEPT ![c].at = "failing"]
      /\ UNCHANGED <<worker, closing, history, counts>>

\* The rollback loads the old version, and enables it if it was.
Recover(c, P, workers) ==
  LET Q == Restore(P)
  IN  \/ call[c].was /\ Launch(c, Q, [call[c] EXCEPT !.op = "restore"], workers)
      \/ /\ ~call[c].was
         /\ Finish(c, call[c].id, Q) /\ worker' = workers
         /\ UNCHANGED missed

\* The failed worker is terminated, and enablePlugin throws; an update rolls back.
\* Variant: the worker of a failed attempt is forgotten, not terminated.
EnableThrowsLeaking(c) ==
  LET p == call[c].id
      P == Failed(plugin[p])
  IN  /\ ~Idling(c) /\ call[c].at = "failing"
      /\ \/ call[c].op = "update" /\ Recover(c, P, worker)
         \/ /\ call[c].op # "update"
            /\ Finish(c, p, P) /\ UNCHANGED <<worker, missed>>
      /\ UNCHANGED <<closing, current, chosen, interrupted, patched, counts>>
EnableThrows(c) ==
  LET p == call[c].id
      P == Failed(plugin[p])
      workers == Kill(call[c].worker)
  IN  /\ ~Idling(c) /\ call[c].at = "failing"
      /\ \/ call[c].op = "update" /\ Recover(c, P, workers)
         \/ /\ call[c].op # "update"
            /\ Finish(c, p, P) /\ worker' = workers
            /\ UNCHANGED missed
      /\ UNCHANGED <<closing, current, chosen, interrupted, patched, counts>>

-----------------------------------------------------------------------------
\* disable, uninstall, update

\* The directory is set aside and the new version written, loaded and, if the old one was
\* enabled, enabled; or a step throws, and the old version comes back.  A rename that throws
\* is outside the try: the plugin stays unloaded.
Swap(c, P, act, workers) ==
  LET p == act.id
      Q == Installed(SetAside(P), act.new)
      R == Restore(SetAside(P))
  IN  /\ patched' = IF P.dir = Partial THEN patched \union {p} ELSE patched
      /\ \/ /\ Finish(c, p, [P EXCEPT !.bak = None])
            /\ interrupted' = interrupted \union {p}
            /\ worker' = workers /\ UNCHANGED <<current, missed>>
         \/ /\ act.was
            /\ Launch(c, Q, act, workers)
            /\ UNCHANGED <<current, interrupted>>
         \/ /\ ~act.was
            /\ Finish(c, p, Committed(Q)) /\ current' = [current EXCEPT ![p] = act.new]
            /\ worker' = workers /\ UNCHANGED <<interrupted, missed>>
         \/ /\ act.was
            /\ Launch(c, R, [act EXCEPT !.op = "restore"], workers)
            /\ UNCHANGED <<current, interrupted>>
         \/ /\ ~act.was
            /\ Finish(c, p, R)
            /\ worker' = workers /\ UNCHANGED <<current, interrupted, missed>>

\* unloadPlugin has nothing left to await.
Unloaded(c, P, act, workers) ==
  \/ /\ act.op \in {"disable", "shutdown"}
     /\ Finish(c, act.id, P) /\ worker' = workers
     /\ UNCHANGED history
  \/ /\ act.op = "uninstall"
     /\ Finish(c, act.id, Removed(Unload(P))) /\ worker' = workers
     /\ current' = [current EXCEPT ![act.id] = None]
     /\ chosen' = [chosen EXCEPT ![act.id] = 0]
     /\ UNCHANGED <<interrupted, patched, missed>>
  \/ /\ act.op = "update"
     /\ Swap(c, Unload(P), act, workers)
     /\ UNCHANGED chosen

\* disablePlugin of an enabled plugin: the worker runs onDisable, for a bounded time.
Stop(c, act) ==
  /\ call' = [call EXCEPT ![c] = [act EXCEPT !.worker = plugin[act.id].host]]
  /\ UNCHANGED <<plugin, worker, history>>

Operate(c, p, act) ==
  /\ Request(c, p, act.op)
  /\ \/ IsEnabled(plugin[p]) /\ Stop(c, act)
     \/ ~IsEnabled(plugin[p]) /\ Unloaded(c, plugin[p], act, worker)
  /\ UNCHANGED closing

Disable(c, p) == Operate(c, p, Act("disable", p))
Uninstall(c, p) == Operate(c, p, Act("uninstall", p))
UpdatePackage(c, p, v) ==
  Operate(c, p, [Act("update", p) EXCEPT !.was = IsEnabled(plugin[p]), !.new = v])

\* Whatever onDisable came to, the worker is terminated, and the plugin disabled.
Stopped(c) ==
  LET act == call[c]
      workers == IF act.worker = None THEN worker ELSE Kill(act.worker)
  IN  /\ ~Idling(c) /\ act.at = "stopping"
      /\ Unloaded(c, Disabled(plugin[act.id]), act, workers)
      /\ UNCHANGED <<closing, counts>>

\* install writes and loads a package, or removes what it wrote; it does not queue.
Install(p, v) ==
  /\ requests < Requests /\ requests' = requests + 1
  /\ plugin[p].run = None /\ plugin[p].dir = None
  /\ plugin' = [plugin EXCEPT ![p] = Installed(@, v)]
  /\ current' = [current EXCEPT ![p] = v]
  /\ UNCHANGED <<worker, call, closing, chosen, interrupted, patched, missed, crashes>>

\* The worker of an enabled plugin is told of a new configuration; variant: the
\* test is inverted.
ToldUnlessEnabled(P) == ~IsEnabled(P) /\ P.host # None
Told(P) == IsEnabled(P) /\ P.host # None

\* updatePluginConfig: memory, the registry, and the worker.
UpdateConfig(p) ==
  LET P == plugin[p]
      new == chosen[p] + 1
      told == Told(P)
  IN  /\ P.run # None /\ chosen[p] < MaxConfig
      /\ plugin' = [plugin EXCEPT ![p].run.config = new,
                                  ![p].entry = IF @ = None THEN None
                                               ELSE [@ EXCEPT !.config = new]]
      /\ worker' = IF told /\ worker[P.host].alive
                   THEN [worker EXCEPT ![P.host].config = new] ELSE worker
      /\ missed' = IF told THEN missed \ {p}
                   ELSE IF P.enabling THEN missed \union {p} ELSE missed
      /\ chosen' = [chosen EXCEPT ![p] = new]
      /\ UNCHANGED <<call, closing, current, interrupted, patched, counts>>

-----------------------------------------------------------------------------
\* Workers

\* onHookSubscribe, for one event: an enable registers it once.
HookSubscribe(w) ==
  /\ worker[w].alive /\ ~worker[w].subscribed
  /\ \E p \in Plugins :
       /\ plugin[p].host = w \/ \E c \in On(p) : call[c].worker = w
       /\ plugin' = [plugin EXCEPT ![p].hooks = @ \union {w}]
  /\ worker' = [worker EXCEPT ![w].subscribed = TRUE]
  /\ UNCHANGED <<call, closing, history, counts>>

\* A worker exits by itself: nothing but the calls it had not answered learns of it.
HandleExit(w) ==
  /\ worker[w].alive
  /\ worker' = Kill(w)
  /\ UNCHANGED <<plugin, call, closing, history, counts>>

-----------------------------------------------------------------------------
\* The process

\* onModuleDestroy: the plugins that are enabled now are disabled one after another, past the
\* queue.
OnModuleDestroy ==
  /\ closing = None
  /\ closing' = {p \in Plugins : IsEnabled(plugin[p])}
  /\ UNCHANGED <<plugin, worker, call, history, counts>>

DisableAtShutdown(c, p) ==
  /\ closing # None /\ p \in closing
  /\ Idling(c) /\ \A d \in Calls : call[d].op # "shutdown"
  /\ closing' = closing \ {p}
  /\ \/ IsEnabled(plugin[p]) /\ Stop(c, Act("shutdown", p))
     \/ /\ ~IsEnabled(plugin[p])
        /\ UNCHANGED <<plugin, worker, call, history>>
  /\ UNCHANGED counts

\* What is on disk when the process dies inside a step of an update or its rollback.
Enabling(p) == \E c \in On(p) : call[c].op = "update" /\ plugin[p].enabling
TornUpdate(p) ==
  LET P == plugin[p]
  IN  IF P.run = None \/ P.enabling THEN {}
      ELSE {[P EXCEPT !.bak = None], SetAside(P)}
           \union {[SetAside(P) EXCEPT !.dir = f] : f \in Versions \union {Partial}}
TornRollback(p) == IF Enabling(p) THEN {[plugin[p] EXCEPT !.dir = None]} ELSE {}

\* The same of an uninstall or an install.
TornUninstall(p) ==
  IF plugin[p].run = None \/ plugin[p].enabling THEN {}
  ELSE {[plugin[p] EXCEPT !.entry = None, !.dir = f] : f \in {plugin[p].dir, Partial}}
TornInstall(p) ==
  IF plugin[p].run # None \/ plugin[p].dir # None THEN {} ELSE {[plugin[p] EXCEPT !.dir = Partial]}

\* onModuleInit loads every directory with a manifest; memory starts empty.
Boot(P) ==
  LET Q == [P EXCEPT !.run = None, !.enabling = FALSE, !.host = None, !.hooks = {}]
  IN  CASE P.dir = None    -> {Q}
        [] P.dir = Partial -> {Q, LoadPlugin(Q)}
        [] OTHER           -> {LoadPlugin(Q)}

\* The process ends, after a shutdown or by dying anywhere, and starts again.
Crash ==
  \E p \in Plugins :
    \E P \in {plugin[p]} \union TornUpdate(p) \union TornRollback(p)
            \union TornUninstall(p) \union TornInstall(p) :
      LET gone == P \in TornUninstall(p) \union TornInstall(p)
      IN  /\ crashes < Crashes /\ crashes' = crashes + 1
          /\ call' = [c \in Calls |-> Idle]
          /\ worker' = [w \in Workers |-> [worker[w] EXCEPT !.alive = FALSE]]
          /\ closing' = None /\ missed' = {}
          /\ plugin' \in {f \in [Plugins -> (UNION {Boot(plugin[q]) : q \in Plugins}) \union Boot(P)] :
                           \A q \in Plugins : f[q] \in IF q = p THEN Boot(P) ELSE Boot(plugin[q])}
          /\ interrupted' = interrupted \union {q \in Plugins : Enabling(q)}
                                       \union (IF P = plugin[p] THEN {} ELSE {p})
          /\ patched' = IF P \in TornUpdate(p) /\ plugin[p].dir = Partial
                        THEN patched \union {p} ELSE patched
          /\ current' = IF gone THEN [current EXCEPT ![p] = None] ELSE current
          /\ chosen' = IF gone /\ P.entry = None THEN [chosen EXCEPT ![p] = 0] ELSE chosen
          /\ UNCHANGED requests

-----------------------------------------------------------------------------

Next ==
  \/ \E c \in Calls, p \in Plugins : \/ Enable(c, p) \/ Disable(c, p) \/ Uninstall(c, p)
                                     \/ \E v \in Versions : UpdatePackage(c, p, v)
                                     \/ DisableAtShutdown(c, p)
  \/ \E c \in Calls : Advance(c) \/ EnableSucceeds(c) \/ EnableFails(c) \/ EnableThrows(c) \/ Stopped(c)
  \/ \E p \in Plugins : UpdateConfig(p) \/ \E v \in Versions : Install(p, v)
  \/ \E w \in Workers : HookSubscribe(w) \/ HandleExit(w)
  \/ OnModuleDestroy \/ Crash

Spec == Init /\ [][Next]_vars

\* The host's own steps are fair: its time limits and the end of a termination.  What a worker
\* answers is not.
FairSpec == Spec /\ \A c \in Calls : WF_vars(EnableFails(c) \/ EnableThrows(c) \/ Stopped(c))

-----------------------------------------------------------------------------

\* No worker is left behind: one that runs is the host of a plugin, or a call still waits for
\* it, until the shutdown disables past the queue.
NoStrayWorker ==
  (closing = None) =>
    \A w \in Workers : worker[w].alive =>
      \/ \E p \in Plugins : plugin[p].host = w
      \/ \E c \in Calls : call[c] # Idle /\ call[c].worker = w

\* Between the operations on a plugin, it has a host exactly when it is enabled, and events
\* reach it only then.
StatusMeans ==
  \A p \in Plugins : (closing = None /\ On(p) = {}) =>
    /\ (plugin[p].host # None) <=> IsEnabled(plugin[p])
    /\ plugin[p].host = None => plugin[p].hooks = {}

\* However many enables failed before, an event reaches a plugin once.
OneRegistration == \A p \in Plugins : Cardinality(plugin[p].hooks) <= 1

\* What is loaded is in the registry, with the same status.
RegistryHonest ==
  \A p \in Plugins : plugin[p].run # None =>
    plugin[p].entry # None /\ plugin[p].entry.status = plugin[p].run.status

\* The configuration the operator chose survives failed enables, updates, rollbacks and
\* restarts, in memory and on disk.
ConfigKept ==
  \A p \in Plugins : /\ plugin[p].entry # None => plugin[p].entry.config = chosen[p]
                     /\ plugin[p].run # None => plugin[p].run.config = chosen[p]

\* The worker of an enabled plugin has its configuration, unless that changed while the plugin
\* was being enabled.
ConfigReaches ==
  \A p \in Plugins \ missed :
    LET P == plugin[p]
    IN  (IsEnabled(P) /\ P.host # None) =>
          ~worker[P.host].alive \/ worker[P.host].config = P.run.config

\* Between operations, disk and memory hold the version of the last install or update that
\* succeeded, and no backup, unless an update stopped between its steps.
UpdateAllOrNothing ==
  \A p \in Plugins \ interrupted : On(p) = {} =>
    /\ plugin[p].dir = current[p] /\ plugin[p].bak = None
    /\ IF current[p] = None THEN plugin[p].run = None
                            ELSE plugin[p].run # None /\ plugin[p].run.version = current[p]

\* Whatever stops, and wherever, a complete copy of a plugin nobody removed is on disk, until
\* one whose files were partial is updated.
FilesSurvive ==
  \A p \in Plugins \ patched :
    current[p] # None => (plugin[p].dir \in Versions \/ plugin[p].bak \in Versions)

\* Every operation returns, whatever the worker does.
CallsReturn == \A c \in Calls : call[c] # Idle ~> call[c] = Idle

\* The state is of its type, and every worker, host and registration is accounted for.
WorkersExact == TypeOK /\ NoStrayWorker /\ StatusMeans /\ OneRegistration

\* Registry, memory and worker agree, and have what the operator chose.
ConfigHonest == RegistryHonest /\ ConfigKept /\ ConfigReaches

\* Files are what the operations made them, or can be put back.
FilesSafe == UpdateAllOrNothing /\ FilesSurvive

=============================================================================
