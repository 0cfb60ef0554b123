----------------------- MODULE PluginLifecycleProofs -----------------------
(***************************************************************************)
(* Theorems about PluginLifecycle, for any number of plugins, versions,    *)
(* workers and activations.                                                *)
(***************************************************************************)
EXTENDS PluginLifecycle, FiniteSetTheorems, TLAPS

-----------------------------------------------------------------------------
\* The inductive invariant, in parts.

UserOps == Ops \ {"shutdown"}
User(c, p) == call[c].id = p /\ call[c].op \in UserOps
Halt(c, p) == call[c].id = p /\ call[c].op = "shutdown"
Trying(c) == call[c].at # "stopping"

\* What an operation may be at, and what it holds then.
Shaped == \A c \in Calls : call[c] # Idle =>
  /\ call[c].op \in {"disable", "uninstall", "shutdown"} => ~Trying(c)
  /\ call[c].op \in {"enable", "restore"} => Trying(c)
  /\ Trying(c) => call[c].worker \in Workers
  /\ call[c].op = "update" => call[c].new \in Versions

\* One operation at a time on a plugin, beside the shutdown's, of which there is one too.
Alone ==
  /\ \A c, d \in Calls, p \in Plugins : User(c, p) /\ User(d, p) => c = d
  /\ \A c, d \in Calls : call[c].op = "shutdown" /\ call[d].op = "shutdown" => c = d
  /\ closing = None => \A c \in Calls : call[c].op # "shutdown"

\* No two plugins share a worker.
Apart == \A p, q \in Plugins : plugin[p].host # None /\ plugin[p].host = plugin[q].host => p = q

\* A plugin that is being enabled: its lock is held, it is not enabled, and only the call's
\* worker is its host or has hooks; a shutdown may have dropped the host meanwhile.
Tried(c, p) ==
  /\ plugin[p].enabling /\ ~IsEnabled(plugin[p])
  /\ plugin[p].hooks \subseteq {call[c].worker}
  /\ plugin[p].host \in {call[c].worker, None}
  /\ closing = None /\ call[c].at # "failing" => plugin[p].host = call[c].worker
  /\ call[c].at = "failing" => plugin[p].host = None

\* One that is being disabled: the call waits for its host, unless the shutdown came first.
Halting(c, p) ==
  /\ ~plugin[p].enabling
  /\ \/ IsEnabled(plugin[p]) /\ plugin[p].host = call[c].worker
     \/ /\ ~IsEnabled(plugin[p]) /\ closing # None
        /\ plugin[p].host = None /\ plugin[p].hooks \subseteq {call[c].worker}

Quiet(P) == ~P.enabling /\ ~IsEnabled(P) /\ P.host = None /\ P.hooks = {}

Hosted(p) ==
  /\ \A c \in Calls : User(c, p) => /\ plugin[p].run # None
                                    /\ ~Trying(c) => Halting(c, p)
                                    /\ Trying(c) => Tried(c, p)
  /\ (\A c \in Calls : ~User(c, p)) => /\ ~plugin[p].enabling
                                       /\ ~IsEnabled(plugin[p]) => Quiet(plugin[p])
  /\ \A c \in Calls : Halt(c, p) /\ call[c].worker # None /\ worker[call[c].worker].alive =>
       IsEnabled(plugin[p]) /\ plugin[p].host = call[c].worker
  /\ plugin[p].host # None => plugin[p].hooks \subseteq {plugin[p].host}
  /\ closing = None /\ IsEnabled(plugin[p]) => plugin[p].host # None
  /\ plugin[p].hooks = {} \/ \E w \in Workers : plugin[p].hooks = {w}

\* Registry and memory agree, and have the configuration k.
Honest(P, k) ==
  /\ P.run # None => P.entry # None /\ P.entry.status = P.run.status /\ P.run.config = k
  /\ StoredConfig(P) = k
Reached(p) ==
  p \notin missed /\ plugin[p].host # None =>
    ~worker[plugin[p].host].alive \/ worker[plugin[p].host].config = plugin[p].run.config
Conf(p) == Honest(plugin[p], chosen[p]) /\ Reached(p)

\* What is loaded is what the directory holds; an update that runs has the old version in the
\* backup; otherwise there is no backup, and the last version is loaded.
Loaded(P) == P.run # None => P.dir # None /\ P.run.version = P.dir
Updating(c, p) == call[c].id = p /\ call[c].op = "update" /\ Trying(c)
Filed(p) ==
  /\ Loaded(plugin[p])
  /\ \A c \in Calls : Updating(c, p) =>
       /\ plugin[p].dir = call[c].new /\ plugin[p].bak # None
       /\ p \notin patched => plugin[p].bak \in Versions
       /\ p \notin interrupted => plugin[p].bak = current[p]
  /\ p \notin interrupted /\ (\A c \in Calls : ~Updating(c, p)) =>
       /\ plugin[p].dir = current[p] /\ plugin[p].bak = None
       /\ plugin[p].dir # None => plugin[p].run # None
  /\ p \notin patched /\ current[p] # None =>
       plugin[p].dir \in Versions \/ plugin[p].bak \in Versions

Base == TypeOK /\ Shaped /\ Alone
Fine(p) == Hosted(p) /\ Conf(p) /\ Filed(p)
IInv == Base /\ Apart /\ NoStrayWorker /\ \A p \in Plugins : Fine(p)

-----------------------------------------------------------------------------
\* What the loader's operators return.

LEMMA WithStatusIs ==
  ASSUME NEW P \in Plugin, NEW s \in Status
  PROVE  /\ WithStatus(P, s) \in Plugin
         /\ (WithStatus(P, s).run = None) <=> (P.run = None)
         /\ P.run # None => /\ WithStatus(P, s).run.status = s
                            /\ WithStatus(P, s).run.version = P.run.version
                            /\ WithStatus(P, s).run.config = P.run.config
         /\ \A k : Honest(P, k) => Honest(WithStatus(P, s), k)
         /\ WithStatus(P, s).dir = P.dir /\ WithStatus(P, s).bak = P.bak
         /\ WithStatus(P, s).enabling = P.enabling /\ WithStatus(P, s).host = P.host
         /\ WithStatus(P, s).hooks = P.hooks
<1> DEFINE W == WithStatus(P, s)
           R == IF P.run = None THEN None ELSE [P.run EXCEPT !.status = s]
           E == IF P.entry = None THEN None ELSE [P.entry EXCEPT !.status = s]
<1>1. W = [P EXCEPT !.run = R, !.entry = E]
  BY DEF WithStatus
<1>2. R \in Instance \union {None} /\ E \in Entry \union {None}
  BY DEF Plugin, Instance, Entry
<1>3. /\ (R = None) <=> (P.run = None)
      /\ (E = None) <=> (P.entry = None)
      /\ P.run # None => R.status = s /\ R.version = P.run.version /\ R.config = P.run.config
      /\ P.entry # None => E.status = s /\ E.config = P.entry.config
  BY NoneIsNothing DEF Plugin, Instance, Entry
<1> HIDE DEF R, E
<1>4. /\ W \in Plugin /\ W.run = R /\ W.entry = E /\ W.dir = P.dir /\ W.bak = P.bak
      /\ W.enabling = P.enabling /\ W.host = P.host /\ W.hooks = P.hooks
  BY <1>1, <1>2 DEF Plugin
<1> HIDE DEF W
<1>5. ASSUME NEW k, Honest(P, k) PROVE Honest(W, k)
  BY <1>3, <1>4, <1>5 DEF Honest, StoredConfig
<1>6. QED
  BY <1>3, <1>4, <1>5 DEF W

LEMMA LoadPluginIs ==
  ASSUME NEW P \in Plugin, P.dir # None, NEW k, StoredConfig(P) = k
  PROVE  /\ LoadPlugin(P) \in Plugin
         /\ LoadPlugin(P).run # None /\ ~IsEnabled(LoadPlugin(P)) /\ Loaded(LoadPlugin(P))
         /\ Honest(LoadPlugin(P), k)
         /\ LoadPlugin(P).dir = P.dir /\ LoadPlugin(P).bak = P.bak
         /\ LoadPlugin(P).enabling = P.enabling /\ LoadPlugin(P).host = P.host
         /\ LoadPlugin(P).hooks = P.hooks
<1> DEFINE L == LoadPlugin(P)
           R == [status |-> "installed", version |-> P.dir, config |-> k]
           E == [status |-> "installed", config |-> k]
<1>1. L = [P EXCEPT !.run = R, !.entry = E]
  BY DEF LoadPlugin
<1>2. k \in Config
  BY PluginsAssumption DEF StoredConfig, Plugin, Entry, Config
<1>3. R \in Instance /\ E \in Entry /\ R # None /\ E # None
  BY <1>2, NoneIsNothing DEF Plugin, Instance, Entry, Files, Status
<1>4. R.status = "installed" /\ R.version = P.dir /\ R.config = k /\ E.status = "installed" /\ E.config = k
  OBVIOUS
<1> HIDE DEF R, E
<1>5. /\ L \in Plugin /\ L.run = R /\ L.entry = E /\ L.dir = P.dir /\ L.bak = P.bak
      /\ L.enabling = P.enabling /\ L.host = P.host /\ L.hooks = P.hooks
  BY <1>1, <1>3 DEF Plugin
<1> HIDE DEF L
<1>6. QED
  <2>1. Honest(L, k)
    BY <1>3, <1>4, <1>5 DEF Honest, StoredConfig
  <2>2. L.run # None /\ ~IsEnabled(L) /\ Loaded(L)
    BY <1>3, <1>4, <1>5 DEF IsEnabled, Loaded
  <2>3. QED
    BY <1>5, <2>1, <2>2 DEF L

\* Q has the lock, the host and the hooks that P has.
Like(Q, P) == Q.enabling = P.enabling /\ Q.host = P.host /\ Q.hooks = P.hooks

LEMMA DisabledIs ==
  ASSUME NEW P \in Plugin, NEW k, Honest(P, k), Loaded(P)
  PROVE  /\ Disabled(P) \in Plugin /\ Honest(Disabled(P), k) /\ Loaded(Disabled(P))
         /\ Disabled(P).enabling = P.enabling /\ Disabled(P).host = None /\ Disabled(P).hooks = {}
         /\ ~IsEnabled(Disabled(P)) /\ (Disabled(P).run = None <=> P.run = None)
         /\ Disabled(P).dir = P.dir /\ Disabled(P).bak = P.bak
<1> DEFINE X == [P EXCEPT !.host = None, !.hooks = {}]
<1>1. /\ X \in Plugin /\ X.run = P.run /\ X.entry = P.entry /\ X.dir = P.dir /\ X.bak = P.bak
      /\ X.enabling = P.enabling /\ X.host = None /\ X.hooks = {}
  BY DEF Plugin
<1>2. Honest(X, k)
  BY <1>1 DEF Honest, StoredConfig
<1>3. Disabled(P) = WithStatus(X, "disabled") /\ "disabled" \in Status
  BY DEF Disabled, Status
<1> HIDE DEF X
<1>4. QED
  BY <1>1, <1>2, <1>3, WithStatusIs DEF Loaded, IsEnabled

LEMMA FailedIs ==
  ASSUME NEW P \in Plugin, NEW k, Honest(P, k), Loaded(P)
  PROVE  /\ Failed(P) \in Plugin /\ Honest(Failed(P), k) /\ Loaded(Failed(P))
         /\ ~Failed(P).enabling /\ Failed(P).host = P.host /\ Failed(P).hooks = {}
         /\ ~IsEnabled(Failed(P)) /\ (Failed(P).run = None <=> P.run = None)
         /\ Failed(P).dir = P.dir /\ Failed(P).bak = P.bak
<1> DEFINE X == [P EXCEPT !.enabling = FALSE, !.hooks = {}]
<1>1. /\ X \in Plugin /\ X.run = P.run /\ X.entry = P.entry /\ X.dir = P.dir /\ X.bak = P.bak
      /\ ~X.enabling /\ X.host = P.host /\ X.hooks = {}
  BY DEF Plugin
<1>2. Honest(X, k)
  BY <1>1 DEF Honest, StoredConfig
<1>3. Failed(P) = WithStatus(X, "error") /\ "error" \in Status
  BY DEF Failed, Status
<1> HIDE DEF X
<1>4. QED
  BY <1>1, <1>2, <1>3, WithStatusIs DEF Loaded, IsEnabled

LEMMA EnabledIs ==
  ASSUME NEW P \in Plugin, NEW k, Honest(P, k), Loaded(P)
  PROVE  /\ Enabled(P) \in Plugin /\ Honest(Enabled(P), k) /\ Loaded(Enabled(P))
         /\ ~Enabled(P).enabling /\ Enabled(P).host = P.host /\ Enabled(P).hooks = P.hooks
         /\ P.run # None => /\ IsEnabled(Enabled(P)) /\ Enabled(P).run # None
                            /\ Enabled(P).run.config = P.run.config
         /\ Enabled(P).dir = P.dir /\ Enabled(P).bak = P.bak
<1> DEFINE X == [P EXCEPT !.enabling = FALSE]
<1>1. /\ X \in Plugin /\ X.run = P.run /\ X.entry = P.entry /\ X.dir = P.dir /\ X.bak = P.bak
      /\ ~X.enabling /\ X.host = P.host /\ X.hooks = P.hooks
  BY DEF Plugin
<1>2. Honest(X, k)
  BY <1>1 DEF Honest, StoredConfig
<1>3. Enabled(P) = WithStatus(X, "enabled") /\ "enabled" \in Status
  BY DEF Enabled, Status
<1> HIDE DEF X
<1>4. QED
  BY <1>1, <1>2, <1>3, WithStatusIs DEF Loaded, IsEnabled

LEMMA UnloadIs ==
  ASSUME NEW P \in Plugin, NEW k, Honest(P, k)
  PROVE  /\ Unload(P) \in Plugin /\ Honest(Unload(P), k) /\ Loaded(Unload(P))
         /\ Unload(P).run = None /\ ~IsEnabled(Unload(P)) /\ Like(Unload(P), P)
         /\ Unload(P).dir = P.dir /\ Unload(P).bak = P.bak
<1>1. /\ Unload(P) \in Plugin /\ Unload(P).run = None /\ Unload(P).entry = P.entry
      /\ Unload(P).dir = P.dir /\ Unload(P).bak = P.bak /\ Like(Unload(P), P)
  BY DEF Plugin, Unload, Like
<1>2. QED
  BY <1>1 DEF Honest, StoredConfig, Loaded, IsEnabled

LEMMA RemovedIs ==
  ASSUME NEW P \in Plugin, P.run = None
  PROVE  /\ Removed(P) \in Plugin /\ Honest(Removed(P), 0) /\ Loaded(Removed(P))
         /\ Removed(P).run = None /\ ~IsEnabled(Removed(P)) /\ Like(Removed(P), P)
         /\ Removed(P).dir = None /\ Removed(P).bak = P.bak
<1>1. /\ Removed(P) \in Plugin /\ Removed(P).run = None /\ Removed(P).entry = None
      /\ Removed(P).dir = None /\ Removed(P).bak = P.bak /\ Like(Removed(P), P)
  BY DEF Plugin, Removed, Like, Files
<1>2. QED
  BY <1>1 DEF Honest, StoredConfig, Loaded, IsEnabled

LEMMA InstalledIs ==
  ASSUME NEW P \in Plugin, NEW v \in Versions, NEW k, Honest(P, k)
  PROVE  /\ Installed(P, v) \in Plugin /\ Honest(Installed(P, v), k) /\ Loaded(Installed(P, v))
         /\ Installed(P, v).run # None /\ ~IsEnabled(Installed(P, v)) /\ Like(Installed(P, v), P)
         /\ Installed(P, v).dir = v /\ Installed(P, v).bak = P.bak
<1> DEFINE X == [P EXCEPT !.dir = v]
<1>1. /\ X \in Plugin /\ X.dir = v /\ X.bak = P.bak /\ X.entry = P.entry /\ Like(X, P)
  BY DEF Plugin, Files, Like
<1>2. StoredConfig(X) = k /\ X.dir # None
  BY <1>1, PluginsAssumption DEF Honest, StoredConfig
<1>3. Installed(P, v) = LoadPlugin(X)
  BY DEF Installed
<1> HIDE DEF X
<1>4. QED
  BY <1>1, <1>2, <1>3, LoadPluginIs DEF Like

LEMMA SetAsideIs ==
  ASSUME NEW P \in Plugin, NEW k, Honest(P, k), P.run = None
  PROVE  /\ SetAside(P) \in Plugin /\ Honest(SetAside(P), k) /\ Loaded(SetAside(P))
         /\ SetAside(P).run = None /\ ~IsEnabled(SetAside(P)) /\ Like(SetAside(P), P)
         /\ SetAside(P).dir = None /\ SetAside(P).bak = P.dir
<1>1. /\ SetAside(P) \in Plugin /\ SetAside(P).run = None /\ SetAside(P).entry = P.entry
      /\ SetAside(P).dir = None /\ SetAside(P).bak = P.dir /\ Like(SetAside(P), P)
  BY DEF Plugin, SetAside, Like, Files
<1>2. QED
  BY <1>1 DEF Honest, StoredConfig, Loaded, IsEnabled

LEMMA CommittedIs ==
  ASSUME NEW P \in Plugin, NEW k, Honest(P, k), Loaded(P)
  PROVE  /\ Committed(P) \in Plugin /\ Honest(Committed(P), k) /\ Loaded(Committed(P))
         /\ Committed(P).run = P.run /\ (IsEnabled(Committed(P)) <=> IsEnabled(P))
         /\ Like(Committed(P), P) /\ Committed(P).dir = P.dir /\ Committed(P).bak = None
<1>1. /\ Committed(P) \in Plugin /\ Committed(P).run = P.run /\ Committed(P).entry = P.entry
      /\ Committed(P).dir = P.dir /\ Committed(P).bak = None /\ Like(Committed(P), P)
  BY DEF Plugin, Committed, Like, Files
<1>2. QED
  BY <1>1 DEF Honest, StoredConfig, Loaded, IsEnabled

LEMMA RestoreIs ==
  ASSUME NEW P \in Plugin, NEW k, Honest(P, k), P.bak # None
  PROVE  /\ Restore(P) \in Plugin /\ Honest(Restore(P), k) /\ Loaded(Restore(P))
         /\ Restore(P).run # None /\ ~IsEnabled(Restore(P)) /\ Like(Restore(P), P)
         /\ Restore(P).dir = P.bak /\ Restore(P).bak = None
<1> DEFINE X == [Unload(P) EXCEPT !.dir = P.bak, !.bak = None]
<1>1. /\ X \in Plugin /\ X.dir = P.bak /\ X.bak = None /\ X.entry = P.entry /\ Like(X, P)
  BY DEF Plugin, Files, Like, Unload
<1>2. StoredConfig(X) = k /\ X.dir # None
  BY <1>1 DEF Honest, StoredConfig
<1>3. Restore(P) = LoadPlugin(X)
  BY DEF Restore
<1> HIDE DEF X
<1>4. QED
  BY <1>1, <1>2, <1>3, LoadPluginIs DEF Like

-----------------------------------------------------------------------------
\* Steps of one plugin leave the others alone.

SamePast(p) == \A q \in Plugins \ {p} :
  /\ chosen'[q] = chosen[q] /\ current'[q] = current[q]
  /\ (q \in interrupted') <=> (q \in interrupted)
  /\ (q \in patched') <=> (q \in patched)
  /\ (q \in missed') <=> (q \in missed)

\* Nobody hosts or waits for a worker that starts, and only p's host is told anything.
Calmer(p, workers) ==
  /\ \A c \in Calls :
       call[c] # Idle /\ call[c].worker # None /\ workers[call[c].worker].alive => worker[call[c].worker].alive
  /\ \A q \in Plugins \ {p} : plugin[q].host # None =>
       /\ workers[plugin[q].host].alive => worker[plugin[q].host].alive
       /\ workers[plugin[q].host].config = worker[plugin[q].host].config

Still(p) ==
  /\ \A q \in Plugins \ {p} : plugin'[q] = plugin[q]
  /\ \A q \in Plugins \ {p} : \A c \in Calls : call[c].id = q \/ call'[c].id = q => call'[c] = call[c]
  /\ Calmer(p, worker')
  /\ (closing' = None) <=> (closing = None)

LEMMA ElsewhereFine ==
  ASSUME TypeOK, NEW p \in Plugins, Still(p), SamePast(p), NEW q \in Plugins, q # p, Fine(q)
  PROVE  Fine(q)'
<1>1. plugin'[q] = plugin[q] /\ ((closing' = None) <=> (closing = None))
  BY DEF Still
<1>2. \A c \in Calls : call[c].id = q \/ call'[c].id = q => call'[c] = call[c]
  BY DEF Still
<1>3. \A c \in Calls : call[c].id = q => call[c] # Idle
  BY NoneIsNothing DEF Idle
<1>4. \A c \in Calls :
        call[c].id = q /\ call[c].worker # None /\ worker'[call[c].worker].alive => worker[call[c].worker].alive
  BY <1>3 DEF Still, Calmer
<1>5. plugin[q].host # None =>
        /\ worker'[plugin[q].host].alive => worker[plugin[q].host].alive
        /\ worker'[plugin[q].host].config = worker[plugin[q].host].config
  BY DEF Still, Calmer
<1>6. /\ chosen'[q] = chosen[q] /\ current'[q] = current[q]
      /\ (q \in interrupted') <=> (q \in interrupted)
      /\ (q \in patched') <=> (q \in patched)
      /\ (q \in missed') <=> (q \in missed)
  BY DEF SamePast
<1>7. \/ plugin[q].host \in Workers /\ worker[plugin[q].host].alive \in BOOLEAN
      \/ plugin[q].host = None
  BY DEF TypeOK, Plugin, Worker
<1>8. Hosted(q)'
  <2>1. \A c \in Calls : /\ User(c, q)' <=> User(c, q)
                         /\ Halt(c, q)' <=> Halt(c, q)
    BY <1>2 DEF User, Halt
  <2>2. ASSUME NEW c \in Calls, User(c, q)'
        PROVE  /\ plugin'[q].run # None
               /\ ~Trying(c)' => Halting(c, q)'
               /\ Trying(c)' => Tried(c, q)'
    <3>1. User(c, q) /\ call'[c] = call[c]
      BY <1>2, <2>1, <2>2 DEF User
    <3>2. QED
      BY <3>1, <1>1 DEF Fine, Hosted, Trying, Halting, Tried, IsEnabled
  <2>3. (\A c \in Calls : ~User(c, q)') => /\ ~plugin'[q].enabling
                                           /\ ~IsEnabled(plugin'[q]) => Quiet(plugin'[q])
    BY <2>1, <1>1 DEF Fine, Hosted
  <2>4. ASSUME NEW c \in Calls, Halt(c, q)', call'[c].worker # None, worker'[call'[c].worker].alive
        PROVE  IsEnabled(plugin'[q]) /\ plugin'[q].host = call'[c].worker
    <3>1. Halt(c, q) /\ call'[c] = call[c] /\ call[c].id = q
      BY <1>2, <2>1, <2>4 DEF Halt
    <3>2. worker[call[c].worker].alive
      BY <3>1, <1>4, <2>4
    <3>3. QED
      BY <3>1, <3>2, <1>1, <2>4 DEF Fine, Hosted
  <2>5. /\ plugin'[q].host # None => plugin'[q].hooks \subseteq {plugin'[q].host}
        /\ closing' = None /\ IsEnabled(plugin'[q]) => plugin'[q].host # None
        /\ plugin'[q].hooks = {} \/ \E w \in Workers : plugin'[q].hooks = {w}
    BY <1>1 DEF Fine, Hosted
  <2>6. QED
    BY <2>2, <2>3, <2>4, <2>5 DEF Hosted
<1>9. Conf(q)'
  BY <1>1, <1>5, <1>6 DEF Fine, Conf, Reached
<1>10. Filed(q)'
  <2>1. \A c \in Calls : /\ Updating(c, q)' <=> Updating(c, q)
                         /\ Updating(c, q) => call'[c] = call[c]
    BY <1>2 DEF Updating, Trying
  <2>2. QED
    BY <1>1, <1>6, <2>1 DEF Fine, Filed
<1>11. QED
  BY <1>8, <1>9, <1>10 DEF Fine

LEMMA StepFine ==
  ASSUME IInv, NEW p \in Plugins, Still(p), SamePast(p), Base', Apart', NoStrayWorker', Fine(p)'
  PROVE  IInv'
<1>1. \A q \in Plugins : Fine(q)'
  BY ElsewhereFine DEF IInv, Base
<1>2. QED
  BY <1>1 DEF IInv

\* A call that returns leaves its plugin quiet: what it held has ended.
LEMMA QuietReturn ==
  ASSUME IInv, NEW c \in Calls, NEW p \in Plugins, call[c] = Idle \/ call[c].id = p,
         NEW Q \in Plugin, Quiet(Q), Finish(c, p, Q),
         \A d \in Calls \ {c} : ~User(d, p),
         worker' \in [Workers -> Worker], Calmer(p, worker'),
         \A w \in Workers : worker'[w].alive => /\ worker[w].alive /\ w # plugin[p].host
                                                /\ call[c] # Idle => w # call[c].worker,
         \A d \in Calls \ {c} : Halt(d, p) /\ call[d].worker # None => ~worker'[call[d].worker].alive,
         closing' = closing
  PROVE  /\ plugin' \in [Plugins -> Plugin] /\ call' \in [Calls -> Call \union {Idle}]
         /\ Shaped' /\ Alone' /\ Apart' /\ NoStrayWorker' /\ Still(p)
         /\ Hosted(p)' /\ Reached(p)' /\ plugin'[p] = Q
         /\ \A d \in Calls : ~Updating(d, p)'
<1> USE DEF IInv, Base
<1>1. /\ plugin' \in [Plugins -> Plugin] /\ plugin'[p] = Q
      /\ \A q \in Plugins \ {p} : plugin'[q] = plugin[q]
  BY DEF Finish, TypeOK
<1>2. /\ call' \in [Calls -> Call \union {Idle}] /\ call'[c] = Idle
      /\ \A d \in Calls \ {c} : call'[d] = call[d]
  BY DEF Finish, Return, TypeOK
<1>3. Idle.op = "idle" /\ Idle.id = None /\ None \notin Plugins
  BY NoneIsNothing DEF Idle
<1>4. Shaped'
  BY <1>2 DEF Shaped, Trying
<1>5. Alone'
  <2>1. \A d \in Calls, q \in Plugins : User(d, q)' => d # c /\ User(d, q)
    BY <1>2, <1>3 DEF User
  <2>2. \A d \in Calls : call'[d].op = "shutdown" => call[d].op = "shutdown"
    BY <1>2, <1>3
  <2>3. QED
    BY <2>1, <2>2 DEF Alone
<1>6. Apart'
  BY <1>1 DEF Apart, Quiet
<1>7. NoStrayWorker'
  <2>1. SUFFICES ASSUME closing' = None, NEW w \in Workers, worker'[w].alive
                 PROVE  \/ \E q \in Plugins : plugin'[q].host = w
                        \/ \E d \in Calls : call'[d] # Idle /\ call'[d].worker = w
    BY DEF NoStrayWorker
  <2>2. \/ \E q \in Plugins : plugin[q].host = w
        \/ \E d \in Calls : call[d] # Idle /\ call[d].worker = w
    BY <2>1 DEF NoStrayWorker
  <2>3. w # plugin[p].host /\ (call[c] # Idle => w # call[c].worker)
    BY <2>1
  <2>4. QED
    BY <2>2, <2>3, <1>1, <1>2
<1>8. Still(p)
  BY <1>1, <1>2, <1>3 DEF Still
<1>9. Hosted(p)'
  <2>1. \A d \in Calls : ~User(d, p)'
    BY <1>2, <1>3 DEF User
  <2>2. ASSUME NEW d \in Calls, Halt(d, p)', call'[d].worker # None, worker'[call'[d].worker].alive
        PROVE  FALSE
    BY <2>2, <1>2, <1>3 DEF Halt
  <2>3. QED
    BY <1>1, <2>1, <2>2 DEF Hosted, Quiet
<1>10. Reached(p)'
  BY <1>1 DEF Reached, Quiet
<1>11. \A d \in Calls : ~Updating(d, p)'
  BY <1>2, <1>3 DEF User, Updating, Ops, UserOps
<1>12. QED
  BY <1>1, <1>2, <1>4, <1>5, <1>6, <1>7, <1>8, <1>9, <1>10, <1>11

\* A worker that is started is nobody's, and the call that starts it is its plugin's only one.
LEMMA Launched ==
  ASSUME IInv, NEW c \in Calls, NEW act \in Call, NEW p \in Plugins, act.id = p,
         call[c] = Idle \/ call[c].id = p,
         act.op \in {"enable", "update", "restore"}, act.op = "update" => act.new \in Versions,
         NEW P \in Plugin, Quiet(P), P.run # None,
         NEW workers, Launch(c, P, act, workers),
         \A d \in Calls \ {c} : ~User(d, p),
         workers \in [Workers -> Worker], Calmer(p, workers),
         \A w \in Workers : workers[w].alive => /\ worker[w].alive /\ w # plugin[p].host
                                                /\ call[c] # Idle => w # call[c].worker,
         \A d \in Calls \ {c} : Halt(d, p) /\ call[d].worker # None => ~workers[call[d].worker].alive,
         closing' = closing
  PROVE  /\ plugin' \in [Plugins -> Plugin] /\ call' \in [Calls -> Call \union {Idle}]
         /\ worker' \in [Workers -> Worker] /\ missed' \subseteq Plugins
         /\ \A q \in Plugins \ {p} : (q \in missed') <=> (q \in missed)
         /\ Shaped' /\ Alone' /\ Apart' /\ NoStrayWorker' /\ Still(p)
         /\ Hosted(p)' /\ Reached(p)'
         /\ plugin'[p].run = P.run /\ plugin'[p].entry = P.entry
         /\ plugin'[p].dir = P.dir /\ plugin'[p].bak = P.bak
         /\ \A d \in Calls : Updating(d, p)' <=> d = c /\ act.op = "update"
         /\ call'[c].new = act.new
<1> USE DEF IInv, Base
<1> DEFINE w == CHOOSE x \in Workers : Free(x)
           a == [act EXCEPT !.at = "load", !.worker = w]
           X == [P EXCEPT !.enabling = TRUE, !.host = w]
<1>1. w \in Workers /\ Free(w)
  BY DEF Launch
<1>2. /\ plugin' = [plugin EXCEPT ![p] = X] /\ call' = [call EXCEPT ![c] = a]
      /\ worker' = [workers EXCEPT ![w] = [alive |-> TRUE, config |-> P.run.config, subscribed |-> FALSE]]
      /\ missed' = missed \ {p}
  BY DEF Launch
<1> HIDE DEF w
<1>3. /\ X \in Plugin /\ X.enabling /\ X.host = w /\ X.run = P.run /\ X.entry = P.entry
      /\ X.dir = P.dir /\ X.bak = P.bak /\ X.hooks = {}
  BY <1>1 DEF Plugin, Quiet
<1>4. /\ a \in Call /\ a.op = act.op /\ a.id = p /\ a.at = "load" /\ a.worker = w /\ a.new = act.new
  BY <1>1 DEF Call, At
<1> HIDE DEF a, X
<1>5. P.run.config \in Config
  BY DEF Plugin, Instance
<1>6. /\ worker' \in [Workers -> Worker] /\ worker'[w].alive /\ worker'[w].config = P.run.config
      /\ \A x \in Workers \ {w} : worker'[x] = workers[x]
  BY <1>1, <1>2, <1>5 DEF Worker
<1>7. /\ plugin' \in [Plugins -> Plugin] /\ plugin'[p] = X
      /\ \A q \in Plugins \ {p} : plugin'[q] = plugin[q]
  BY <1>2, <1>3 DEF TypeOK
<1>8. /\ call' \in [Calls -> Call \union {Idle}] /\ call'[c] = a
      /\ \A d \in Calls \ {c} : call'[d] = call[d]
  BY <1>2, <1>4 DEF TypeOK
<1>9. Idle.op = "idle" /\ Idle.id = None /\ None \notin Plugins /\ w # None
  BY <1>1, NoneIsNothing, PluginsAssumption DEF Idle
<1>10. /\ \A q \in Plugins : plugin[q].host # w
       /\ \A d \in Calls : call[d] # Idle => call[d].worker # w
  BY <1>1 DEF Free, Named
<1>11. Shaped'
  BY <1>1, <1>4, <1>8 DEF Shaped, Trying
<1>12. Alone'
  <2>1. \A d \in Calls, q \in Plugins : User(d, q)' => User(d, q) \/ (d = c /\ q = p)
    BY <1>8, <1>4 DEF User
  <2>2. \A d \in Calls : call'[d].op = "shutdown" => call[d].op = "shutdown"
    BY <1>8, <1>4
  <2>3. \A d \in Calls : User(d, p) => d = c
    OBVIOUS
  <2>4. \A q \in Plugins \ {p} : ~User(c, q)'
    BY <1>8, <1>4 DEF User
  <2>5. QED
    BY <2>1, <2>2, <2>3, <2>4 DEF Alone
<1>13. Apart'
  BY <1>7, <1>3, <1>10 DEF Apart
<1>14. NoStrayWorker'
  <2>1. SUFFICES ASSUME closing' = None, NEW x \in Workers, worker'[x].alive, x # w
                 PROVE  \/ \E q \in Plugins : plugin'[q].host = x
                        \/ \E d \in Calls : call'[d] # Idle /\ call'[d].worker = x
    BY <1>3, <1>7 DEF NoStrayWorker
  <2>2. workers[x].alive
    BY <2>1, <1>6
  <2>3. \/ \E q \in Plugins : plugin[q].host = x
        \/ \E d \in Calls : call[d] # Idle /\ call[d].worker = x
    BY <2>1, <2>2 DEF NoStrayWorker
  <2>4. x # plugin[p].host /\ (call[c] # Idle => x # call[c].worker)
    BY <2>2
  <2>5. QED
    BY <2>3, <2>4, <1>7, <1>8
<1>15. Still(p)
  <2>1. \A d \in Calls : call[d] # Idle /\ call[d].worker # None /\ worker'[call[d].worker].alive =>
          worker[call[d].worker].alive
    <3>1. SUFFICES ASSUME NEW d \in Calls, call[d] # Idle, call[d].worker # None
                   PROVE  worker'[call[d].worker] = workers[call[d].worker]
      BY DEF Calmer
    <3>2. call[d].worker \in Workers \ {w}
      BY <3>1, <1>10 DEF TypeOK, Call
    <3>3. QED
      BY <3>2, <1>6
  <2>2. ASSUME NEW q \in Plugins \ {p}, plugin[q].host # None
        PROVE  worker'[plugin[q].host] = workers[plugin[q].host]
    <3>1. plugin[q].host \in Workers \ {w}
      BY <2>2, <1>10 DEF TypeOK, Plugin
    <3>2. QED
      BY <3>1, <1>6
  <2>3. Calmer(p, worker')
    BY <2>1, <2>2 DEF Calmer
  <2>4. \A q \in Plugins \ {p} : \A d \in Calls : call[d].id = q \/ call'[d].id = q => call'[d] = call[d]
    BY <1>4, <1>8, <1>9
  <2>5. QED
    BY <2>3, <2>4, <1>7 DEF Still
<1>16. Hosted(p)'
  <2>1. ~IsEnabled(X)
    BY <1>3 DEF IsEnabled, Quiet
  <2>2. User(c, p)' /\ (\A d \in Calls : User(d, p)' => d = c)
    BY <1>8, <1>4 DEF User, UserOps, Ops
  <2>3. Trying(c)' /\ Tried(c, p)'
    BY <2>1, <1>3, <1>4, <1>7, <1>8 DEF Trying, Tried
  <2>4. ASSUME NEW d \in Calls, Halt(d, p)', call'[d].worker # None, worker'[call'[d].worker].alive
        PROVE  FALSE
    <3>1. d # c /\ Halt(d, p) /\ call'[d] = call[d] /\ call[d] # Idle
      BY <2>4, <1>4, <1>8, <1>9 DEF Halt
    <3>2. call[d].worker \in Workers \ {w}
      BY <3>1, <2>4, <1>10 DEF TypeOK, Call
    <3>3. QED
      BY <3>1, <3>2, <2>4, <1>6
  <2>5. QED
    BY <1>3, <1>7, <2>1, <2>2, <2>3, <2>4 DEF Hosted
<1>17. Reached(p)'
  BY <1>3, <1>6, <1>7 DEF Reached
<1>18. \A d \in Calls : Updating(d, p)' <=> d = c /\ act.op = "update"
  BY <1>4, <1>8 DEF Updating, Trying, User, UserOps, Ops
<1>19. missed' \subseteq Plugins /\ \A q \in Plugins \ {p} : (q \in missed') <=> (q \in missed)
  BY <1>2 DEF TypeOK
<1>20. QED
  BY <1>3, <1>4, <1>6, <1>7, <1>8, <1>11, <1>12, <1>13, <1>14, <1>15, <1>16, <1>17, <1>18, <1>19

Counted == requests' \in 0..Requests /\ crashes' \in 0..Crashes

\* The end of a disable, an uninstall or an update that has no worker to stop any more.
LEMMA UnloadedFine ==
  ASSUME IInv, NEW c \in Calls, NEW act \in Call, NEW p \in Plugins, act.id = p,
         call[c] = Idle \/ call[c].id = p, ~Updating(c, p),
         act.op \in {"disable", "uninstall", "update"}, act.op = "update" => act.new \in Versions,
         NEW P \in Plugin, Quiet(P), P.run # None, Honest(P, chosen[p]), Loaded(P),
         P.dir = plugin[p].dir, P.bak = plugin[p].bak, plugin[p].run # None,
         NEW workers, Unloaded(c, P, act, workers),
         \A d \in Calls \ {c} : ~User(d, p),
         workers \in [Workers -> Worker], Calmer(p, workers),
         \A w \in Workers : workers[w].alive => /\ worker[w].alive /\ w # plugin[p].host
                                                /\ call[c] # Idle => w # call[c].worker,
         \A d \in Calls \ {c} : Halt(d, p) /\ call[d].worker # None => ~workers[call[d].worker].alive,
         closing' = closing, Counted
  PROVE  IInv'
<1> USE DEF IInv, Base
<1>1. Filed(p) /\ P.dir \in Versions \union {Partial}
  BY DEF Fine, Loaded, Plugin, Files
<1>2. \A d \in Calls : ~Updating(d, p)
  BY DEF User, UserOps, Ops, Updating
<1>3. /\ p \notin interrupted => P.dir = current[p] /\ P.bak = None
      /\ p \notin patched /\ current[p] # None => P.dir \in Versions \/ P.bak \in Versions
  BY <1>1, <1>2 DEF Filed
<1> DEFINE U == Unload(P)
<1>4. /\ U \in Plugin /\ Honest(U, chosen[p]) /\ U.run = None /\ ~IsEnabled(U)
      /\ Like(U, P) /\ U.dir = P.dir /\ U.bak = P.bak
  BY UnloadIs
<1>5. Quiet(U)
  BY <1>4 DEF Like, Quiet
<1> HIDE DEF U
<1> DEFINE Returns(Q) == Q \in Plugin /\ Quiet(Q) /\ Finish(c, p, Q) /\ worker' = workers
<1>6. ASSUME NEW Q, Returns(Q)
      PROVE  /\ plugin' \in [Plugins -> Plugin] /\ call' \in [Calls -> Call \union {Idle}]
             /\ worker' \in [Workers -> Worker]
             /\ Shaped' /\ Alone' /\ Apart' /\ NoStrayWorker' /\ Still(p)
             /\ Hosted(p)' /\ Reached(p)' /\ plugin'[p] = Q
             /\ \A d \in Calls : ~Updating(d, p)'
  BY <1>6, QuietReturn
<1> HIDE DEF Returns
<1>7. ASSUME act.op = "disable", Finish(c, p, P), worker' = workers, UNCHANGED history PROVE IInv'
  <2>1. Returns(P)
    BY <1>7 DEF Returns
  <2>2. SamePast(p)
    BY <1>7 DEF SamePast, history
  <2>3. Conf(p)' /\ Filed(p)'
    BY <2>1, <1>6, <1>7, <1>3 DEF Conf, Filed, history
  <2>4. TypeOK'
    BY <2>1, <1>6, <1>7 DEF TypeOK, history, Counted
  <2>5. QED
    BY <2>1, <2>2, <2>3, <2>4, <1>6, StepFine DEF Fine
<1>8. ASSUME act.op = "uninstall", Finish(c, p, Removed(U)), worker' = workers,
             current' = [current EXCEPT ![p] = None], chosen' = [chosen EXCEPT ![p] = 0],
             UNCHANGED <<interrupted, patched, missed>>
      PROVE  IInv'
  <2> DEFINE Q == Removed(U)
  <2>1. Q \in Plugin /\ Honest(Q, 0) /\ Loaded(Q) /\ Q.run = None /\ ~IsEnabled(Q) /\ Like(Q, U)
        /\ Q.dir = None /\ Q.bak = P.bak
    BY <1>4, RemovedIs
  <2>2. Returns(Q)
    BY <1>5, <1>8, <2>1 DEF Returns, Quiet, Like
  <2> HIDE DEF Q
  <2>3. SamePast(p)
    BY <1>8 DEF SamePast
  <2>4. chosen'[p] = 0 /\ current'[p] = None
    BY <1>8 DEF TypeOK
  <2>5. Conf(p)' /\ Filed(p)'
    BY <2>1, <2>2, <2>4, <1>6, <1>8, <1>3 DEF Conf, Filed
  <2>6. TypeOK'
    BY <2>2, <1>6, <1>8, PluginsAssumption DEF TypeOK, Counted, Config
  <2>7. QED
    BY <2>2, <2>3, <2>5, <2>6, <1>6, StepFine DEF Fine
<1>9. ASSUME act.op = "update", Swap(c, U, act, workers), UNCHANGED chosen PROVE IInv'
  <2> DEFINE S == SetAside(U)
             Q == Installed(S, act.new)
             R == Restore(S)
             C == Committed(Q)
             D == [U EXCEPT !.bak = None]
             v == act.new
  <2>1. /\ S \in Plugin /\ Honest(S, chosen[p]) /\ ~IsEnabled(S) /\ S.run = None /\ Like(S, P)
        /\ S.dir = None /\ S.bak = P.dir
    BY <1>4, SetAsideIs DEF Like
  <2> HIDE DEF S
  <2>2. /\ Q \in Plugin /\ Honest(Q, chosen[p]) /\ Loaded(Q) /\ Q.run # None /\ ~IsEnabled(Q)
        /\ Like(Q, P) /\ Q.dir = v /\ Q.bak = P.dir
    BY <1>9, <2>1, InstalledIs DEF Like
  <2>3. /\ R \in Plugin /\ Honest(R, chosen[p]) /\ Loaded(R) /\ R.run # None /\ ~IsEnabled(R)
        /\ Like(R, P) /\ R.dir = P.dir /\ R.bak = None
    BY <2>1, <1>1, PluginsAssumption, RestoreIs DEF Like
  <2> HIDE DEF Q, R
  <2>4. /\ C \in Plugin /\ Honest(C, chosen[p]) /\ Loaded(C) /\ C.run # None /\ ~IsEnabled(C)
        /\ Like(C, P) /\ C.dir = v /\ C.bak = None
    BY <2>2, CommittedIs DEF Like
  <2>5. /\ D \in Plugin /\ Honest(D, chosen[p]) /\ Loaded(D) /\ D.run = None /\ ~IsEnabled(D)
        /\ Like(D, P) /\ D.dir = P.dir /\ D.bak = None
    <3>1. D = Committed(U) /\ Loaded(U)
      BY <1>4 DEF Committed, Loaded
    <3> HIDE DEF D
    <3>2. QED
      BY <3>1, <1>4, CommittedIs DEF Like
  <2>6. Quiet(Q) /\ Quiet(R) /\ Quiet(C) /\ Quiet(D)
    BY <2>2, <2>3, <2>4, <2>5 DEF Quiet, Like
  <2> HIDE DEF C, D
  <2>7. /\ patched' = IF P.dir = Partial THEN patched \union {p} ELSE patched
        /\ patched' \subseteq Plugins
        /\ \A q \in Plugins \ {p} : (q \in patched') <=> (q \in patched)
        /\ p \notin patched' => p \notin patched /\ P.dir \in Versions
        /\ chosen' = chosen
    BY <1>1, <1>4, <1>9 DEF Swap, TypeOK
  <2>8. v \in Versions /\ v # None
    BY <1>9, PluginsAssumption
  <2>9. ASSUME Finish(c, p, D), interrupted' = interrupted \union {p}, worker' = workers,
               UNCHANGED <<current, missed>>
        PROVE  IInv'
    <3>1. Returns(D)
      BY <2>9, <2>5, <2>6 DEF Returns
    <3>2. SamePast(p)
      BY <2>7, <2>9 DEF SamePast
    <3>3. Conf(p)' /\ Filed(p)'
      BY <3>1, <1>6, <2>5, <2>7, <2>9, <1>1 DEF Conf, Filed
    <3>4. TypeOK'
      BY <3>1, <1>6, <2>7, <2>9 DEF TypeOK, Counted
    <3>5. QED
      BY <3>1, <3>2, <3>3, <3>4, <1>6, StepFine DEF Fine
  <2>10. ASSUME Launch(c, Q, act, workers), UNCHANGED <<current, interrupted>>
         PROVE  IInv'
    <3>1. /\ plugin' \in [Plugins -> Plugin] /\ call' \in [Calls -> Call \union {Idle}]
          /\ worker' \in [Workers -> Worker] /\ missed' \subseteq Plugins
          /\ \A q \in Plugins \ {p} : (q \in missed') <=> (q \in missed)
          /\ Shaped' /\ Alone' /\ Apart' /\ NoStrayWorker' /\ Still(p)
          /\ Hosted(p)' /\ Reached(p)'
          /\ plugin'[p].run = Q.run /\ plugin'[p].entry = Q.entry
          /\ plugin'[p].dir = v /\ plugin'[p].bak = P.dir
          /\ \A d \in Calls : Updating(d, p)' <=> d = c
          /\ call'[c].new = v
      BY <1>9, <2>2, <2>6, <2>10, Launched
    <3>2. SamePast(p)
      BY <2>7, <2>10, <3>1 DEF SamePast
    <3>3. Conf(p)'
      BY <2>2, <2>7, <3>1 DEF Conf, Honest, StoredConfig
    <3>4. Filed(p)'
      <4>1. Loaded(plugin'[p])
        BY <2>2, <3>1 DEF Loaded
      <4>2. QED
        BY <4>1, <1>1, <1>3, <2>7, <2>8, <2>10, <3>1, PluginsAssumption DEF Filed
    <3>5. TypeOK'
      BY <2>7, <2>10, <3>1 DEF TypeOK, Counted
    <3>6. QED
      BY <3>1, <3>2, <3>3, <3>4, <3>5, StepFine DEF Fine
  <2>11. ASSUME Finish(c, p, C), current' = [current EXCEPT ![p] = v], worker' = workers,
                UNCHANGED <<interrupted, missed>>
         PROVE  IInv'
    <3>1. Returns(C)
      BY <2>11, <2>4, <2>6 DEF Returns
    <3>2. SamePast(p) /\ current'[p] = v
      BY <2>7, <2>11 DEF SamePast, TypeOK
    <3>3. Conf(p)' /\ Filed(p)'
      BY <3>1, <3>2, <1>6, <2>4, <2>7, <2>8, <2>11 DEF Conf, Filed
    <3>4. TypeOK'
      BY <3>1, <1>6, <2>7, <2>8, <2>11 DEF TypeOK, Counted
    <3>5. QED
      BY <3>1, <3>2, <3>3, <3>4, <1>6, StepFine DEF Fine
  <2>12. ASSUME Launch(c, R, [act EXCEPT !.op = "restore"], workers), UNCHANGED <<current, interrupted>>
         PROVE  IInv'
    <3> DEFINE b == [act EXCEPT !.op = "restore"]
    <3>0. b \in Call /\ b.id = p /\ b.op = "restore"
      BY DEF Call, Ops
    <3> HIDE DEF b
    <3>1. /\ plugin' \in [Plugins -> Plugin] /\ call' \in [Calls -> Call \union {Idle}]
          /\ worker' \in [Workers -> Worker] /\ missed' \subseteq Plugins
          /\ \A q \in Plugins \ {p} : (q \in missed') <=> (q \in missed)
          /\ Shaped' /\ Alone' /\ Apart' /\ NoStrayWorker' /\ Still(p)
          /\ Hosted(p)' /\ Reached(p)'
          /\ plugin'[p].run = R.run /\ plugin'[p].entry = R.entry
          /\ plugin'[p].dir = P.dir /\ plugin'[p].bak = None
          /\ \A d \in Calls : ~Updating(d, p)'
      <4>1. Launch(c, R, b, workers)
        BY <2>12 DEF b
      <4>2. QED
        BY <3>0, <4>1, <2>3, <2>6, Launched
    <3>2. SamePast(p)
      BY <2>7, <2>12, <3>1 DEF SamePast
    <3>3. Conf(p)'
      BY <2>3, <2>7, <3>1 DEF Conf, Honest, StoredConfig
    <3>4. Filed(p)'
      <4>1. Loaded(plugin'[p])
        BY <2>3, <3>1 DEF Loaded
      <4>2. QED
        BY <4>1, <1>1, <1>3, <2>3, <2>7, <2>12, <3>1 DEF Filed
    <3>5. TypeOK'
      BY <2>7, <2>12, <3>1 DEF TypeOK, Counted
    <3>6. QED
      BY <3>1, <3>2, <3>3, <3>4, <3>5, StepFine DEF Fine
  <2>13. ASSUME Finish(c, p, R), worker' = workers, UNCHANGED <<current, interrupted, missed>>
         PROVE  IInv'
    <3>1. Returns(R)
      BY <2>13, <2>3, <2>6 DEF Returns
    <3>2. SamePast(p)
      BY <2>7, <2>13 DEF SamePast
    <3>3. Conf(p)' /\ Filed(p)'
      BY <3>1, <1>6, <1>3, <2>3, <2>7, <2>13 DEF Conf, Filed
    <3>4. TypeOK'
      BY <3>1, <1>6, <2>7, <2>13 DEF TypeOK, Counted
    <3>5. QED
      BY <3>1, <3>2, <3>3, <3>4, <1>6, StepFine DEF Fine
  <2>14. QED
    BY <1>9, <2>9, <2>10, <2>11, <2>12, <2>13 DEF Swap, S, Q, R, C, D
<1>10. QED
  BY <1>7, <1>8, <1>9 DEF Unloaded, U

-----------------------------------------------------------------------------
\* Each step keeps the invariant.

\* The shutdown waits for no worker of a plugin that is not enabled, but for one that is dead.
LEMMA HaltsDead ==
  ASSUME IInv, NEW p \in Plugins, ~IsEnabled(plugin[p]), NEW d \in Calls, Halt(d, p), call[d].worker # None
  PROVE  ~worker[call[d].worker].alive
  BY DEF IInv, Fine, Hosted

LEMMA CalmHere == ASSUME NEW p \in Plugins PROVE Calmer(p, worker)
  BY DEF Calmer

LEMMA Requested ==
  ASSUME IInv, NEW c \in Calls, NEW p \in Plugins, NEW op, Request(c, p, op)
  PROVE  /\ call[c] = Idle /\ plugin[p].run # None /\ Counted
         /\ \A d \in Calls : ~User(d, p)
         /\ ~plugin[p].enabling /\ (~IsEnabled(plugin[p]) => Quiet(plugin[p]))
<1>1. \A d \in Calls : ~User(d, p)
  BY DEF Request, Serialized, On, User, UserOps
<1>2. Counted
  BY PluginsAssumption DEF Request, IInv, Base, TypeOK, Counted
<1>3. QED
  BY <1>1, <1>2 DEF Request, Idling, IInv, Fine, Hosted

LEMMA EnableFine ==
  ASSUME IInv, NEW c \in Calls, NEW p \in Plugins, Enable(c, p) PROVE IInv'
<1> USE DEF IInv, Base
<1> DEFINE act == Act("enable", p)
           P == plugin[p]
<1>1. /\ call[c] = Idle /\ P.run # None /\ Counted /\ Quiet(P)
      /\ \A d \in Calls : ~User(d, p)
  BY Requested DEF Enable
<1>2. act \in Call /\ act.id = p /\ act.op = "enable"
  BY DEF Act, Call, Ops, At
<1>3. P \in Plugin /\ worker \in [Workers -> Worker]
  BY DEF TypeOK
<1>4. /\ Launch(c, P, act, worker) /\ closing' = closing
      /\ UNCHANGED <<current, chosen, interrupted, patched>>
  BY DEF Enable
<1> HIDE DEF act
<1>5. \A d \in Calls \ {c} : Halt(d, p) /\ call[d].worker # None => ~worker[call[d].worker].alive
  BY <1>1, HaltsDead DEF Quiet
<1>6. \A w \in Workers : worker[w].alive => /\ worker[w].alive /\ w # plugin[p].host
                                            /\ call[c] # Idle => w # call[c].worker
  BY <1>1, PluginsAssumption DEF Quiet
<1>7. Calmer(p, worker)
  BY CalmHere
<1>8. /\ plugin' \in [Plugins -> Plugin] /\ call' \in [Calls -> Call \union {Idle}]
      /\ worker' \in [Workers -> Worker] /\ missed' \subseteq Plugins
      /\ \A q \in Plugins \ {p} : (q \in missed') <=> (q \in missed)
      /\ Shaped' /\ Alone' /\ Apart' /\ NoStrayWorker' /\ Still(p)
      /\ Hosted(p)' /\ Reached(p)'
      /\ plugin'[p].run = P.run /\ plugin'[p].entry = P.entry
      /\ plugin'[p].dir = P.dir /\ plugin'[p].bak = P.bak
      /\ \A d \in Calls : ~Updating(d, p)'
  BY <1>1, <1>2, <1>3, <1>4, <1>5, <1>6, <1>7, Launched
<1>9. \A d \in Calls : ~Updating(d, p)
  BY <1>1 DEF User, Updating, UserOps, Ops
<1>10. Conf(p)' /\ Filed(p)'
  BY <1>4, <1>8, <1>9 DEF Fine, Conf, Filed, Honest, StoredConfig, Loaded
<1>11. SamePast(p)
  BY <1>4, <1>8 DEF SamePast
<1>12. TypeOK'
  BY <1>1, <1>4, <1>8 DEF TypeOK, Counted
<1>13. QED
  BY <1>8, <1>10, <1>11, <1>12, StepFine DEF Fine

\* An activation that waits for onDisable holds the host.
LEMMA StopFine ==
  ASSUME IInv, NEW c \in Calls, NEW act \in Call, NEW p \in Plugins, act.id = p, call[c] = Idle,
         act.at = "stopping", act.op \in {"disable", "uninstall", "update", "shutdown"},
         act.op = "update" => act.new \in Versions, IsEnabled(plugin[p]), Stop(c, act),
         act.op # "shutdown" => \A d \in Calls : ~User(d, p),
         act.op = "shutdown" => closing # None /\ \A d \in Calls : call[d].op # "shutdown",
         closing' \in (SUBSET Plugins) \union {None}, (closing' = None) <=> (closing = None), Counted
  PROVE  IInv'
<1> USE DEF IInv, Base
<1> DEFINE a == [act EXCEPT !.worker = plugin[p].host]
<1>1. /\ call' = [call EXCEPT ![c] = a] /\ plugin' = plugin /\ worker' = worker /\ UNCHANGED history
  BY DEF Stop
<1>2. a \in Call /\ a.op = act.op /\ a.id = p /\ a.at = "stopping" /\ a.new = act.new
      /\ a.worker = plugin[p].host
  BY DEF Call, TypeOK, Plugin
<1> HIDE DEF a
<1>3. /\ call' \in [Calls -> Call \union {Idle}] /\ call'[c] = a
      /\ \A d \in Calls \ {c} : call'[d] = call[d]
  BY <1>1, <1>2 DEF TypeOK
<1>4. Idle.op = "idle" /\ Idle.id = None /\ None \notin Plugins
  BY NoneIsNothing DEF Idle
<1>5. Shaped'
  BY <1>2, <1>3 DEF Shaped, Trying
<1>6. Alone'
  <2>1. \A d \in Calls, q \in Plugins : User(d, q)' => User(d, q) \/ (d = c /\ q = p /\ act.op # "shutdown")
    BY <1>2, <1>3 DEF User, UserOps
  <2>2. \A d \in Calls : call'[d].op = "shutdown" => call[d].op = "shutdown" \/ (d = c /\ act.op = "shutdown")
    BY <1>2, <1>3
  <2>3. \A q \in Plugins : ~User(c, q)
    BY <1>4 DEF User
  <2>4. QED
    BY <2>1, <2>2, <2>3 DEF Alone
<1>7. Apart'
  BY <1>1 DEF Apart
<1>8. NoStrayWorker'
  BY <1>1, <1>3 DEF NoStrayWorker
<1>9. Still(p)
  BY <1>1, <1>2, <1>3, <1>4, CalmHere DEF Still
<1>10. Hosted(p)'
  <2>1. ~plugin[p].enabling
    BY <1>4 DEF Fine, Hosted, Tried, Halting
  <2>2. \A d \in Calls :
          User(d, p)' => (User(d, p) /\ call'[d] = call[d]) \/ (d = c /\ act.op # "shutdown")
    BY <1>2, <1>3 DEF User, UserOps
  <2>3. ASSUME NEW d \in Calls, User(d, p)'
        PROVE  plugin[p].run # None /\ ~Trying(d)' /\ Halting(d, p)'
    <3>1. CASE User(d, p) /\ call'[d] = call[d]
      BY <1>1, <2>1, <3>1 DEF Fine, Hosted, Tried, Halting, Trying
    <3>2. CASE d = c /\ act.op # "shutdown"
      BY <1>1, <1>2, <1>3, <2>1, <3>2 DEF Halting, Trying, IsEnabled
    <3>3. QED
      BY <2>2, <2>3, <3>1, <3>2
  <2>4. ASSUME NEW d \in Calls, Halt(d, p)', call'[d].worker # None, worker'[call'[d].worker].alive
        PROVE  IsEnabled(plugin[p]) /\ plugin[p].host = call'[d].worker
    BY <1>1, <1>2, <1>3, <2>4 DEF Fine, Hosted, Halt
  <2>5. QED
    BY <1>1, <2>1, <2>3, <2>4 DEF Fine, Hosted
<1>11. Conf(p)'
  BY <1>1 DEF Fine, Conf, Reached, history
<1>12. Filed(p)'
  <2>1. \A d \in Calls : /\ Updating(d, p)' <=> Updating(d, p)
                         /\ Updating(d, p)' => call'[d] = call[d]
    BY <1>2, <1>3, <1>4 DEF Updating, Trying
  <2>2. QED
    BY <1>1, <2>1 DEF Fine, Filed, history
<1>13. TypeOK' /\ SamePast(p)
  BY <1>1, <1>3 DEF TypeOK, SamePast, history, Counted
<1>14. QED
  BY <1>5, <1>6, <1>7, <1>8, <1>9, <1>10, <1>11, <1>12, <1>13, StepFine DEF Fine

LEMMA OperateFine ==
  ASSUME IInv, NEW c \in Calls, NEW act \in Call, NEW p \in Plugins, act.id = p, act.at = "stopping",
         act.op \in {"disable", "uninstall", "update"}, act.op = "update" => act.new \in Versions,
         Operate(c, p, act)
  PROVE  IInv'
<1> USE DEF IInv, Base
<1>1. /\ call[c] = Idle /\ plugin[p].run # None /\ Counted
      /\ \A d \in Calls : ~User(d, p)
      /\ ~IsEnabled(plugin[p]) => Quiet(plugin[p])
  BY Requested DEF Operate
<1>2. closing' = closing
  BY DEF Operate
<1>3. ASSUME IsEnabled(plugin[p]), Stop(c, act) PROVE IInv'
  <2>1. closing' \in (SUBSET Plugins) \union {None}
    BY <1>2 DEF TypeOK
  <2>2. QED
    BY <1>1, <1>2, <1>3, <2>1, StopFine
<1>4. ASSUME ~IsEnabled(plugin[p]), Unloaded(c, plugin[p], act, worker) PROVE IInv'
  <2>1. /\ plugin[p] \in Plugin /\ Honest(plugin[p], chosen[p]) /\ Loaded(plugin[p])
        /\ worker \in [Workers -> Worker]
    BY DEF TypeOK, Fine, Conf, Filed
  <2>2. Quiet(plugin[p])
    BY <1>1, <1>4
  <2>3. \A d \in Calls \ {c} : Halt(d, p) /\ call[d].worker # None => ~worker[call[d].worker].alive
    BY <1>4, HaltsDead
  <2>4. \A w \in Workers : worker[w].alive => /\ worker[w].alive /\ w # plugin[p].host
                                              /\ call[c] # Idle => w # call[c].worker
    BY <1>1, <2>2, PluginsAssumption DEF Quiet
  <2>5. Calmer(p, worker) /\ ~Updating(c, p)
    BY <1>1, CalmHere, NoneIsNothing DEF Updating, Idle
  <2>6. QED
    BY <1>1, <1>2, <1>4, <2>1, <2>2, <2>3, <2>4, <2>5, UnloadedFine
<1>5. QED
  BY <1>3, <1>4 DEF Operate

LEMMA RequestsFine ==
  ASSUME IInv, NEW c \in Calls, NEW p \in Plugins,
         Disable(c, p) \/ Uninstall(c, p) \/ \E v \in Versions : UpdatePackage(c, p, v)
  PROVE  IInv'
<1>1. ASSUME NEW op \in {"disable", "uninstall"}, Operate(c, p, Act(op, p)) PROVE IInv'
  <2>1. Act(op, p) \in Call /\ Act(op, p).id = p /\ Act(op, p).at = "stopping" /\ Act(op, p).op = op
    BY DEF Act, Call, Ops, At
  <2>2. QED
    BY <1>1, <2>1, OperateFine
<1>2. ASSUME NEW v \in Versions, UpdatePackage(c, p, v) PROVE IInv'
  <2> DEFINE a == [Act("update", p) EXCEPT !.was = IsEnabled(plugin[p]), !.new = v]
  <2>1. IsEnabled(plugin[p]) \in BOOLEAN
    BY DEF IsEnabled
  <2>2. a \in Call /\ a.id = p /\ a.at = "stopping" /\ a.op = "update" /\ a.new = v
    BY <2>1 DEF Act, Call, Ops, At
  <2>3. Operate(c, p, a)
    BY <1>2 DEF UpdatePackage
  <2> HIDE DEF a
  <2>4. QED
    BY <2>2, <2>3, OperateFine
<1>3. QED
  BY <1>1, <1>2 DEF Disable, Uninstall

LEMMA DisableAtShutdownFine ==
  ASSUME IInv, NEW c \in Calls, NEW p \in Plugins, DisableAtShutdown(c, p) PROVE IInv'
<1> USE DEF IInv, Base
<1>1. /\ closing # None /\ closing' = closing \ {p} /\ call[c] = Idle
      /\ \A d \in Calls : call[d].op # "shutdown"
      /\ UNCHANGED <<requests, crashes>>
  BY DEF DisableAtShutdown, Idling, counts
<1>2. closing' \in (SUBSET Plugins) \union {None} /\ closing' # None
  BY <1>1, NoneIsNothing DEF TypeOK
<1>3. Counted
  BY <1>1 DEF TypeOK, Counted
<1>4. ASSUME IsEnabled(plugin[p]), Stop(c, Act("shutdown", p)) PROVE IInv'
  <2>1. Act("shutdown", p) \in Call /\ Act("shutdown", p).id = p /\ Act("shutdown", p).at = "stopping"
        /\ Act("shutdown", p).op = "shutdown"
    BY DEF Act, Call, Ops, At
  <2>2. QED
    BY <1>1, <1>2, <1>3, <1>4, <2>1, StopFine
<1>5. ASSUME UNCHANGED <<plugin, worker, call, history>> PROVE IInv'
  <2>1. plugin' = plugin /\ worker' = worker /\ call' = call /\ SamePast(p) /\ UNCHANGED history
    BY <1>5 DEF SamePast, history
  <2>2. Still(p)
    BY <1>1, <1>2, <2>1, CalmHere DEF Still
  <2>3. TypeOK' /\ Shaped' /\ Alone' /\ Apart' /\ NoStrayWorker'
    BY <1>1, <1>2, <1>3, <2>1 DEF TypeOK, Counted, history, Shaped, Trying, Alone, User, Apart, NoStrayWorker
  <2>4. Fine(p)'
    BY <1>1, <1>2, <2>1
       DEF Fine, Hosted, Conf, Filed, User, Halt, Trying, Halting, Tried, Reached, Updating, history
  <2>5. QED
    BY <2>1, <2>2, <2>3, <2>4, StepFine
<1>6. QED
  BY <1>4, <1>5 DEF DisableAtShutdown

\* What a call that is being tried, or waits for onDisable, says of its plugin.
LEMMA TheUser ==
  ASSUME IInv, NEW c \in Calls, call[c] # Idle, call[c].op # "shutdown"
  PROVE  LET p == call[c].id
         IN  /\ p \in Plugins /\ User(c, p) /\ call[c] \in Call
             /\ \A d \in Calls \ {c} : ~User(d, p)
             /\ plugin[p].run # None
             /\ ~Trying(c) => Halting(c, p)
             /\ Trying(c) => Tried(c, p) /\ call[c].worker \in Workers /\ call[c].worker # None
<1> USE DEF IInv, Base
<1> DEFINE p == call[c].id
<1>1. call[c] \in Call /\ p \in Plugins /\ User(c, p)
  BY DEF TypeOK, Call, User, UserOps
<1>2. \A d \in Calls \ {c} : ~User(d, p)
  BY <1>1 DEF Alone
<1>3. Hosted(p)
  BY <1>1 DEF Fine
<1>4. Trying(c) => call[c].worker \in Workers /\ call[c].worker # None
  BY PluginsAssumption DEF Shaped
<1>5. QED
  BY <1>1, <1>2, <1>3, <1>4 DEF Hosted

\* Killing a worker calms everybody.
LEMMA Killed ==
  ASSUME TypeOK, NEW w \in Workers, NEW p \in Plugins
  PROVE  /\ Kill(w) \in [Workers -> Worker] /\ Calmer(p, Kill(w))
         /\ \A x \in Workers : Kill(w)[x].alive => worker[x].alive /\ x # w
         /\ \A x \in Workers : Kill(w)[x].config = worker[x].config
<1>1. Kill(w) \in [Workers -> Worker] /\ ~Kill(w)[w].alive /\ Kill(w)[w].config = worker[w].config
  BY DEF Kill, TypeOK, Worker
<1>2. \A x \in Workers \ {w} : Kill(w)[x] = worker[x]
  BY DEF Kill, TypeOK
<1>3. \A x \in Workers : (Kill(w)[x].alive => worker[x].alive /\ x # w) /\ Kill(w)[x].config = worker[x].config
  BY <1>1, <1>2
<1> HIDE DEF Kill
<1>4. \A c \in Calls : call[c] # Idle /\ call[c].worker # None => call[c].worker \in Workers
  BY DEF TypeOK, Call
<1>5. \A q \in Plugins : plugin[q].host # None => plugin[q].host \in Workers
  BY DEF TypeOK, Plugin
<1>6. Calmer(p, Kill(w))
  BY <1>3, <1>4, <1>5 DEF Calmer
<1>7. QED
  BY <1>1, <1>3, <1>6

LEMMA AdvanceFine ==
  ASSUME IInv, NEW c \in Calls, Advance(c) PROVE IInv'
<1> USE DEF IInv, Base
<1>0. PICK p \in Plugins : p = call[c].id
  BY DEF Advance, Idling, TypeOK, Call
<1> DEFINE at == IF call[c].at = "load" THEN "onLoad" ELSE "onEnable"
           a == [call[c] EXCEPT !.at = at]
<1>1. /\ call[c] # Idle /\ call[c].at \in {"load", "onLoad"}
      /\ call' = [call EXCEPT ![c] = a]
      /\ plugin' = plugin /\ worker' = worker /\ closing' = closing /\ UNCHANGED history
      /\ requests' = requests /\ crashes' = crashes
  BY DEF Advance, Idling, counts
<1>2. call[c] \in Call /\ Trying(c) /\ call[c].op # "shutdown"
  BY <1>1 DEF TypeOK, Trying, Shaped
<1>3. User(c, p) /\ Tried(c, p) /\ call[c].worker \in Workers
  BY <1>0, <1>1, <1>2, TheUser
<1>4. /\ a \in Call /\ a.op = call[c].op /\ a.id = p /\ a.at \in {"onLoad", "onEnable"}
      /\ a.worker = call[c].worker /\ a.new = call[c].new
  BY <1>0, <1>2 DEF Call, At
<1> HIDE DEF a
<1>5. /\ call' \in [Calls -> Call \union {Idle}] /\ call'[c] = a
      /\ \A d \in Calls \ {c} : call'[d] = call[d]
  BY <1>1, <1>4 DEF TypeOK
<1>6. TypeOK' /\ Shaped' /\ Alone' /\ Apart'
  <2>1. TypeOK'
    BY <1>1, <1>5 DEF TypeOK, history
  <2>2. Shaped'
    BY <1>2, <1>4, <1>5, <1>1 DEF Shaped, Trying
  <2>3. \A d \in Calls, q \in Plugins : User(d, q)' => User(d, q)
    BY <1>0, <1>4, <1>5 DEF User
  <2>4. Alone'
    BY <2>3, <1>1, <1>4, <1>5 DEF Alone
  <2>5. QED
    BY <2>1, <2>2, <2>4, <1>1 DEF Apart
<1>7. NoStrayWorker'
  BY <1>1, <1>4, <1>5, NoneIsNothing, <1>3 DEF NoStrayWorker, Idle
<1>8. Still(p) /\ SamePast(p)
  <2>1. Still(p)
    BY <1>0, <1>1, <1>4, <1>5, CalmHere DEF Still
  <2>2. QED
    BY <2>1, <1>1 DEF SamePast, history
<1>9. Hosted(p)'
  <2>1. \A d \in Calls : User(d, p)' <=> User(d, p)
    BY <1>0, <1>4, <1>5 DEF User
  <2>2. Tried(c, p)' /\ Trying(c)' /\ plugin[p].run # None
    BY <1>0, <1>1, <1>2, <1>3, <1>4, <1>5, TheUser DEF Tried, Trying
  <2>3. \A d \in Calls : Halt(d, p)' => Halt(d, p) /\ call'[d] = call[d]
    BY <1>2, <1>4, <1>5 DEF Halt
  <2>4. \A d \in Calls \ {c} : ~User(d, p)
    BY <1>0, <1>1, <1>2, TheUser
  <2>5. Hosted(p)
    BY <1>3 DEF Fine
  <2>6. QED
    BY <2>1, <2>2, <2>3, <2>4, <2>5, <1>1, <1>3 DEF Hosted
<1>10. Conf(p)' /\ Filed(p)'
  <2>1. \A d \in Calls : Updating(d, p)' <=> Updating(d, p)
    BY <1>0, <1>2, <1>4, <1>5 DEF Updating, Trying
  <2>2. \A d \in Calls : call'[d].new = call[d].new
    BY <1>4, <1>5
  <2>3. Conf(p) /\ Filed(p)
    BY <1>3 DEF Fine
  <2>4. QED
    BY <2>1, <2>2, <2>3, <1>1 DEF Conf, Reached, Filed, history
<1>11. QED
  BY <1>3, <1>6, <1>7, <1>8, <1>9, <1>10, StepFine DEF Fine

LEMMA EnableSucceedsFine ==
  ASSUME IInv, NEW c \in Calls, EnableSucceeds(c) PROVE IInv'
<1> USE DEF IInv, Base
<1>0. PICK p \in Plugins : p = call[c].id
  BY DEF EnableSucceeds, Idling, TypeOK, Call
<1> DEFINE w == call[c].worker
           E == Enabled(plugin[p])
           C == Committed(E)
<1>1. /\ call[c] # Idle /\ call[c].at = "onEnable"
      /\ worker' = worker /\ closing' = closing /\ chosen' = chosen /\ interrupted' = interrupted
      /\ patched' = patched /\ missed' = missed /\ requests' = requests /\ crashes' = crashes
      /\ \/ call[c].op # "update" /\ Finish(c, p, E) /\ current' = current
         \/ /\ call[c].op = "update" /\ Finish(c, p, C)
            /\ current' = [current EXCEPT ![p] = call[c].new]
  BY <1>0 DEF EnableSucceeds, Idling, counts
<1>2. call[c] \in Call /\ Trying(c) /\ call[c].op # "shutdown"
  BY <1>1 DEF TypeOK, Trying, Shaped
<1>3. /\ User(c, p) /\ Tried(c, p) /\ w \in Workers /\ w # None
      /\ plugin[p].run # None /\ \A d \in Calls \ {c} : ~User(d, p)
  BY <1>0, <1>1, <1>2, TheUser
<1>4. plugin[p] \in Plugin /\ Honest(plugin[p], chosen[p]) /\ Loaded(plugin[p]) /\ Hosted(p) /\ Filed(p) /\ Conf(p)
  BY <1>3 DEF TypeOK, Fine, Conf, Filed
<1>5. /\ E \in Plugin /\ Honest(E, chosen[p]) /\ Loaded(E) /\ ~E.enabling
      /\ E.host = plugin[p].host /\ E.hooks = plugin[p].hooks /\ IsEnabled(E) /\ E.run # None
      /\ E.run.config = plugin[p].run.config /\ E.dir = plugin[p].dir /\ E.bak = plugin[p].bak
  BY <1>3, <1>4, EnabledIs
<1> HIDE DEF E
<1>6. /\ C \in Plugin /\ Honest(C, chosen[p]) /\ Loaded(C) /\ C.run = E.run /\ IsEnabled(C)
      /\ Like(C, E) /\ C.dir = E.dir /\ C.bak = None
  BY <1>5, CommittedIs
<1> HIDE DEF C
<1>7. PICK Q \in {E, C} : /\ Finish(c, p, Q)
                          /\ call[c].op # "update" => Q = E /\ current' = current
                          /\ call[c].op = "update" => Q = C /\ current' = [current EXCEPT ![p] = call[c].new]
  BY <1>1
<1>8. /\ Q \in Plugin /\ Honest(Q, chosen[p]) /\ Loaded(Q) /\ ~Q.enabling
      /\ Q.host = plugin[p].host /\ Q.hooks = plugin[p].hooks /\ IsEnabled(Q) /\ Q.run # None
      /\ Q.run.config = plugin[p].run.config /\ Q.dir = plugin[p].dir
      /\ Q.bak = IF call[c].op = "update" THEN None ELSE plugin[p].bak
  BY <1>5, <1>6, <1>7 DEF Like
<1>9. /\ plugin' \in [Plugins -> Plugin] /\ plugin'[p] = Q
      /\ \A q \in Plugins \ {p} : plugin'[q] = plugin[q]
      /\ call' \in [Calls -> Call \union {Idle}] /\ call'[c] = Idle
      /\ \A d \in Calls \ {c} : call'[d] = call[d]
  BY <1>3, <1>7, <1>8 DEF Finish, Return, TypeOK
<1>10. Idle.op = "idle" /\ Idle.id = None /\ None \notin Plugins
  BY NoneIsNothing DEF Idle
<1>11. Shaped' /\ Alone' /\ Apart'
  <2>1. Shaped'
    BY <1>9 DEF Shaped, Trying
  <2>2. \A d \in Calls, q \in Plugins : User(d, q)' => d # c /\ User(d, q)
    BY <1>9, <1>10 DEF User
  <2>3. \A d \in Calls : call'[d].op = "shutdown" => call[d].op = "shutdown"
    BY <1>9, <1>10
  <2>4. Alone'
    BY <2>2, <2>3, <1>1 DEF Alone
  <2>5. Apart'
    BY <1>8, <1>9, <1>3 DEF Apart
  <2>6. QED
    BY <2>1, <2>4, <2>5
<1>12. closing = None => plugin[p].host = w
  BY <1>1, <1>3 DEF Tried
<1>13. NoStrayWorker'
  <2>1. SUFFICES ASSUME closing = None, NEW x \in Workers, worker[x].alive
                 PROVE  \/ \E q \in Plugins : plugin'[q].host = x
                        \/ \E d \in Calls : call'[d] # Idle /\ call'[d].worker = x
    BY <1>1 DEF NoStrayWorker
  <2>2. \/ \E q \in Plugins : plugin[q].host = x
        \/ \E d \in Calls : call[d] # Idle /\ call[d].worker = x
    BY <2>1 DEF NoStrayWorker
  <2>3. QED
    BY <2>1, <2>2, <1>3, <1>8, <1>9, <1>12
<1>14. Still(p)
  BY <1>0, <1>1, <1>9, <1>10, CalmHere, <1>3 DEF Still
<1>15. SamePast(p)
  BY <1>1, <1>7 DEF SamePast, TypeOK
<1>16. Hosted(p)'
  <2>1. \A d \in Calls : ~User(d, p)'
    BY <1>3, <1>9, <1>10 DEF User
  <2>2. ASSUME NEW d \in Calls, Halt(d, p)', call'[d].worker # None, worker'[call'[d].worker].alive
        PROVE  FALSE
    <3>1. Halt(d, p) /\ call'[d] = call[d]
      BY <2>2, <1>9, <1>10 DEF Halt
    <3>2. QED
      BY <3>1, <2>2, <1>1, <1>3, HaltsDead DEF Tried
  <2>3. plugin[p].host # None => plugin[p].hooks \subseteq {plugin[p].host}
    BY <1>4 DEF Hosted
  <2>4. closing = None => plugin[p].host # None
    BY <1>3, <1>12
  <2>5. plugin[p].hooks = {} \/ \E x \in Workers : plugin[p].hooks = {x}
    BY <1>4 DEF Hosted
  <2>6. QED
    BY <1>1, <1>8, <1>9, <2>1, <2>2, <2>3, <2>4, <2>5 DEF Hosted
<1>17. Conf(p)'
  BY <1>1, <1>4, <1>8, <1>9 DEF Conf, Reached
<1>18. Filed(p)'
  <2>1. \A d \in Calls : ~Updating(d, p)'
    BY <1>3, <1>9, <1>10 DEF User, UserOps, Ops, Updating
  <2>2. CASE call[c].op = "update"
    <3>1. Updating(c, p) /\ call[c].new \in Versions
      BY <1>0, <1>1, <1>2, <2>2 DEF Updating, Shaped
    <3>2. plugin[p].dir = call[c].new /\ current'[p] = call[c].new
      BY <3>1, <2>2, <1>3, <1>4, <1>7 DEF Filed, TypeOK
    <3>3. QED
      BY <3>1, <3>2, <2>1, <2>2, <1>1, <1>8, <1>9 DEF Filed
  <2>3. CASE call[c].op # "update"
    <3>1. \A d \in Calls : ~Updating(d, p)
      BY <2>3, <1>3 DEF User, UserOps, Ops, Updating
    <3>2. QED
      BY <3>1, <2>1, <2>3, <1>1, <1>4, <1>7, <1>8, <1>9 DEF Filed
  <2>4. QED
    BY <2>2, <2>3
<1>19. TypeOK'
  <2>1. current' \in [Plugins -> Versions \union {None}]
    <3>1. call[c].op = "update" => call[c].new \in Versions
      BY <1>1 DEF Shaped
    <3>2. QED
      BY <3>1, <1>7 DEF TypeOK
  <2>2. QED
    BY <2>1, <1>1, <1>9 DEF TypeOK
<1>20. QED
  BY <1>3, <1>11, <1>13, <1>14, <1>15, <1>16, <1>17, <1>18, <1>19, StepFine DEF Fine

LEMMA EnableFailsFine ==
  ASSUME IInv, NEW c \in Calls, EnableFails(c) PROVE IInv'
<1> USE DEF IInv, Base
<1>0. PICK p \in Plugins : p = call[c].id
  BY DEF EnableFails, Idling, TypeOK, Call
<1> DEFINE a == [call[c] EXCEPT !.at = "failing"]
           Q == [plugin[p] EXCEPT !.host = None]
<1>1. /\ call[c] # Idle /\ call[c].at \in {"load", "onLoad", "onEnable"}
      /\ call' = [call EXCEPT ![c] = a] /\ plugin' = [plugin EXCEPT ![p] = Q]
      /\ worker' = worker /\ closing' = closing /\ UNCHANGED history
      /\ requests' = requests /\ crashes' = crashes
  BY <1>0 DEF EnableFails, Idling, counts
<1>2. call[c] \in Call /\ Trying(c) /\ call[c].op # "shutdown"
  BY <1>1 DEF TypeOK, Trying, Shaped
<1>3. /\ User(c, p) /\ Tried(c, p) /\ call[c].worker \in Workers /\ plugin[p].run # None
      /\ \A d \in Calls \ {c} : ~User(d, p)
  BY <1>0, <1>1, <1>2, TheUser
<1>4. /\ a \in Call /\ a.op = call[c].op /\ a.id = p /\ a.at = "failing"
      /\ a.worker = call[c].worker /\ a.new = call[c].new
  BY <1>0, <1>2 DEF Call, At
<1>5. /\ Q \in Plugin /\ Q.run = plugin[p].run /\ Q.entry = plugin[p].entry
      /\ Q.dir = plugin[p].dir /\ Q.bak = plugin[p].bak /\ Q.hooks = plugin[p].hooks
      /\ Q.enabling = plugin[p].enabling /\ Q.host = None
  BY DEF TypeOK, Plugin
<1> HIDE DEF a, Q
<1>6. /\ call' \in [Calls -> Call \union {Idle}] /\ call'[c] = a
      /\ \A d \in Calls \ {c} : call'[d] = call[d]
      /\ plugin' \in [Plugins -> Plugin] /\ plugin'[p] = Q
      /\ \A q \in Plugins \ {p} : plugin'[q] = plugin[q]
  BY <1>1, <1>4, <1>5 DEF TypeOK
<1>7. TypeOK' /\ Shaped' /\ Alone' /\ Apart'
  <2>1. TypeOK'
    BY <1>1, <1>6 DEF TypeOK, history
  <2>2. Shaped'
    BY <1>1, <1>2, <1>4, <1>6 DEF Shaped, Trying
  <2>3. \A d \in Calls, q \in Plugins : User(d, q)' => User(d, q)
    BY <1>0, <1>4, <1>6 DEF User
  <2>4. Alone'
    BY <2>3, <1>1, <1>4, <1>6 DEF Alone
  <2>5. QED
    BY <2>1, <2>2, <2>4, <1>5, <1>6 DEF Apart
<1>8. NoStrayWorker'
  <2>1. closing = None => plugin[p].host \in {None, call[c].worker}
    BY <1>3 DEF Tried
  <2>2. a # Idle /\ None \notin Workers
    BY <1>4, NoneIsNothing, PluginsAssumption DEF Idle
  <2>3. QED
    BY <2>1, <2>2, <1>1, <1>4, <1>6 DEF NoStrayWorker
<1>9. Still(p) /\ SamePast(p)
  <2>1. Still(p)
    BY <1>0, <1>1, <1>4, <1>6, CalmHere DEF Still
  <2>2. QED
    BY <2>1, <1>1 DEF SamePast, history
<1>10. Hosted(p)'
  <2>1. \A d \in Calls : User(d, p)' <=> User(d, p)
    BY <1>0, <1>4, <1>6 DEF User
  <2>2. Tried(c, p)' /\ Trying(c)'
    BY <1>1, <1>3, <1>4, <1>5, <1>6 DEF Tried, Trying, IsEnabled
  <2>3. \A d \in Calls : Halt(d, p)' => Halt(d, p) /\ call'[d] = call[d]
    BY <1>2, <1>4, <1>6 DEF Halt
  <2>4. Hosted(p) /\ ~IsEnabled(plugin[p]) /\ ~IsEnabled(Q)
    BY <1>3, <1>5 DEF Fine, Tried, IsEnabled
  <2>5. ASSUME NEW d \in Calls, Halt(d, p)', call'[d].worker # None, worker'[call'[d].worker].alive
        PROVE  FALSE
    BY <2>3, <2>4, <2>5, <1>1, HaltsDead
  <2>6. plugin[p].hooks = {} \/ \E x \in Workers : plugin[p].hooks = {x}
    BY <2>4 DEF Hosted
  <2>7. QED
    BY <2>1, <2>2, <2>4, <2>5, <2>6, <1>3, <1>5, <1>6 DEF Hosted
<1>11. Conf(p)' /\ Filed(p)'
  <2>1. \A d \in Calls : Updating(d, p)' <=> Updating(d, p)
    BY <1>0, <1>2, <1>4, <1>6 DEF Updating, Trying
  <2>2. \A d \in Calls : call'[d].new = call[d].new
    BY <1>4, <1>6
  <2>3. Conf(p) /\ Filed(p)
    BY DEF Fine
  <2>4. Conf(p)'
    BY <2>3, <1>1, <1>5, <1>6 DEF Conf, Reached, Honest, StoredConfig, history
  <2>5. Filed(p)'
    BY <2>1, <2>2, <2>3, <1>1, <1>5, <1>6 DEF Filed, Loaded, history
  <2>6. QED
    BY <2>4, <2>5
<1>12. QED
  BY <1>7, <1>8, <1>9, <1>10, <1>11, StepFine DEF Fine

LEMMA EnableThrowsFine ==
  ASSUME IInv, NEW c \in Calls, EnableThrows(c) PROVE IInv'
<1> USE DEF IInv, Base
<1>0. PICK p \in Plugins : p = call[c].id
  BY DEF EnableThrows, Idling, TypeOK, Call
<1> DEFINE w == call[c].worker
           P == Failed(plugin[p])
           workers == Kill(w)
           Q == Restore(P)
           b == [call[c] EXCEPT !.op = "restore"]
<1>1. /\ call[c] # Idle /\ call[c].at = "failing" /\ closing' = closing
      /\ UNCHANGED <<current, chosen, interrupted, patched>>
      /\ requests' = requests /\ crashes' = crashes
      /\ \/ call[c].op = "update" /\ Recover(c, P, workers)
         \/ call[c].op # "update" /\ Finish(c, p, P) /\ worker' = workers /\ missed' = missed
  BY <1>0 DEF EnableThrows, Idling, counts
<1>2. call[c] \in Call /\ Trying(c) /\ call[c].op # "shutdown" /\ Counted
  BY <1>1 DEF TypeOK, Trying, Shaped, Counted
<1>3. /\ User(c, p) /\ Tried(c, p) /\ w \in Workers /\ w # None
      /\ plugin[p].run # None /\ \A d \in Calls \ {c} : ~User(d, p)
  BY <1>0, <1>1, <1>2, TheUser
<1>4. plugin[p] \in Plugin /\ Honest(plugin[p], chosen[p]) /\ Loaded(plugin[p]) /\ Filed(p)
  BY <1>3 DEF TypeOK, Fine, Conf, Filed
<1>5. /\ P \in Plugin /\ Honest(P, chosen[p]) /\ Loaded(P) /\ Quiet(P) /\ P.run # None
      /\ P.dir = plugin[p].dir /\ P.bak = plugin[p].bak
  BY <1>1, <1>3, <1>4, FailedIs DEF Tried, Quiet
<1> HIDE DEF P
<1>6. workers \in [Workers -> Worker] /\ Calmer(p, workers)
  BY <1>3, Killed
<1>7. \A x \in Workers : workers[x].alive => /\ worker[x].alive /\ x # plugin[p].host
                                             /\ call[c] # Idle => x # call[c].worker
  BY <1>1, <1>3, Killed, PluginsAssumption DEF Tried
<1>8. \A d \in Calls \ {c} : Halt(d, p) /\ call[d].worker # None => ~workers[call[d].worker].alive
  <2>1. SUFFICES ASSUME NEW d \in Calls \ {c}, Halt(d, p), call[d].worker # None
                 PROVE  ~workers[call[d].worker].alive
    OBVIOUS
  <2>2. call[d].worker \in Workers
    BY <2>1, NoneIsNothing DEF TypeOK, Call, Halt, Idle
  <2>3. ~worker[call[d].worker].alive
    BY <2>1, <1>3, HaltsDead DEF Tried
  <2>4. QED
    BY <2>2, <2>3, <1>7
<1> HIDE DEF workers
<1>9. ASSUME NEW X \in Plugin, Quiet(X), Honest(X, chosen[p]), Finish(c, p, X),
             worker' = workers, missed' = missed,
             (\A d \in Calls : ~Updating(d, p)') /\ plugin'[p] = X => Filed(p)'
      PROVE  IInv'
  <2>1. /\ plugin' \in [Plugins -> Plugin] /\ call' \in [Calls -> Call \union {Idle}]
        /\ Shaped' /\ Alone' /\ Apart' /\ NoStrayWorker' /\ Still(p)
        /\ Hosted(p)' /\ Reached(p)' /\ plugin'[p] = X
        /\ \A d \in Calls : ~Updating(d, p)'
    BY <1>0, <1>1, <1>3, <1>6, <1>7, <1>8, <1>9, QuietReturn
  <2>2. Filed(p)' /\ Conf(p)'
    BY <2>1, <1>1, <1>9 DEF Conf
  <2>3. TypeOK' /\ SamePast(p)
    BY <2>1, <1>1, <1>6, <1>9 DEF TypeOK, SamePast
  <2>4. QED
    BY <2>1, <2>2, <2>3, StepFine DEF Fine
<1>10. ASSUME call[c].op # "update", Finish(c, p, P), worker' = workers, missed' = missed
       PROVE  IInv'
  <2>1. \A d \in Calls : ~Updating(d, p)
    BY <1>10, <1>3 DEF User, UserOps, Ops, Updating
  <2>2. ASSUME \A d \in Calls : ~Updating(d, p)', plugin'[p] = P PROVE Filed(p)'
    BY <2>1, <2>2, <1>1, <1>3, <1>4, <1>5 DEF Filed
  <2>3. QED
    BY <2>2, <1>5, <1>9, <1>10
<1>11. ASSUME call[c].op = "update", Recover(c, P, workers) PROVE IInv'
  <2>1. Updating(c, p)
    BY <1>0, <1>2, <1>11 DEF Updating
  <2>2. /\ P.bak # None
        /\ p \notin patched => P.bak \in Versions
        /\ p \notin interrupted => P.bak = current[p]
    BY <2>1, <1>4, <1>5 DEF Filed
  <2>3. /\ Q \in Plugin /\ Honest(Q, chosen[p]) /\ Loaded(Q) /\ Q.run # None /\ ~IsEnabled(Q)
        /\ Like(Q, P) /\ Q.dir = P.bak /\ Q.bak = None
    BY <2>2, <1>5, RestoreIs
  <2>4. Quiet(Q)
    BY <2>3, <1>5 DEF Quiet, Like
  <2>5. /\ \/ call[c].was /\ Launch(c, Q, b, workers)
           \/ Finish(c, p, Q) /\ worker' = workers /\ missed' = missed
    BY <1>0, <1>11 DEF Recover
  <2> HIDE DEF Q
  <2>6. b \in Call /\ b.id = p /\ b.op = "restore"
    BY <1>0, <1>2 DEF Call, Ops
  <2> HIDE DEF b
  <2>7. ASSUME \A d \in Calls : ~Updating(d, p)', plugin'[p].dir = Q.dir, plugin'[p].bak = None, plugin'[p].run = Q.run
        PROVE  Filed(p)'
    <3>1. Loaded(plugin'[p])
      BY <2>7, <2>3 DEF Loaded
    <3>2. QED
      BY <3>1, <2>7, <2>2, <2>3, <1>1 DEF Filed
  <2>8. ASSUME Finish(c, p, Q), worker' = workers, missed' = missed PROVE IInv'
    BY <2>3, <2>4, <2>7, <2>8, <1>9
  <2>9. ASSUME Launch(c, Q, b, workers) PROVE IInv'
    <3>1. /\ plugin' \in [Plugins -> Plugin] /\ call' \in [Calls -> Call \union {Idle}]
          /\ worker' \in [Workers -> Worker] /\ missed' \subseteq Plugins
          /\ \A q \in Plugins \ {p} : (q \in missed') <=> (q \in missed)
          /\ Shaped' /\ Alone' /\ Apart' /\ NoStrayWorker' /\ Still(p)
          /\ Hosted(p)' /\ Reached(p)'
          /\ plugin'[p].run = Q.run /\ plugin'[p].entry = Q.entry
          /\ plugin'[p].dir = Q.dir /\ plugin'[p].bak = None
          /\ \A d \in Calls : ~Updating(d, p)'
      BY <1>0, <1>1, <1>3, <1>6, <1>7, <1>8, <2>3, <2>4, <2>6, <2>9, Launched
    <3>2. Conf(p)'
      BY <2>3, <1>1, <3>1 DEF Conf, Honest, StoredConfig
    <3>3. Filed(p)'
      BY <3>1, <2>7
    <3>4. TypeOK' /\ SamePast(p)
      BY <3>1, <1>1 DEF TypeOK, SamePast
    <3>5. QED
      BY <3>1, <3>2, <3>3, <3>4, StepFine DEF Fine
  <2>10. QED
    BY <2>5, <2>8, <2>9
<1>12. QED
  BY <1>1, <1>10, <1>11

LEMMA StoppedFine ==
  ASSUME IInv, NEW c \in Calls, Stopped(c) PROVE IInv'
<1> USE DEF IInv, Base
<1>0. PICK p \in Plugins : p = call[c].id
  BY DEF Stopped, Idling, TypeOK, Call
<1> DEFINE act == call[c]
           workers == IF act.worker = None THEN worker ELSE Kill(act.worker)
           P == Disabled(plugin[p])
<1>1. /\ act # Idle /\ act.at = "stopping" /\ closing' = closing
      /\ requests' = requests /\ crashes' = crashes
      /\ Unloaded(c, P, act, workers)
  BY <1>0 DEF Stopped, Idling, counts
<1>2. act \in Call /\ ~Trying(c) /\ Counted /\ act.worker \in Workers \union {None}
  BY <1>1 DEF TypeOK, Trying, Counted, Call
<1>3. /\ plugin[p] \in Plugin /\ Honest(plugin[p], chosen[p]) /\ Loaded(plugin[p])
      /\ Hosted(p) /\ Filed(p) /\ Conf(p)
  BY DEF TypeOK, Fine, Conf, Filed
<1>4. /\ P \in Plugin /\ Honest(P, chosen[p]) /\ Loaded(P)
      /\ P.enabling = plugin[p].enabling /\ P.host = None /\ P.hooks = {}
      /\ ~IsEnabled(P) /\ (P.run = None <=> plugin[p].run = None)
      /\ P.dir = plugin[p].dir /\ P.bak = plugin[p].bak
  BY <1>3, DisabledIs
<1> HIDE DEF P
<1>5. /\ workers \in [Workers -> Worker] /\ Calmer(p, workers)
      /\ \A x \in Workers : workers[x].alive => worker[x].alive /\ x # act.worker
  <2>1. CASE act.worker = None
    BY <2>1, CalmHere, PluginsAssumption DEF TypeOK
  <2>2. CASE act.worker # None
    BY <1>2, <2>2, Killed
  <2>3. QED
    BY <2>1, <2>2
<1> HIDE DEF workers
<1>6. ~Updating(c, p)
  BY <1>2 DEF Updating
<1>7. ASSUME act.op # "shutdown" PROVE IInv'
  <2>1. /\ User(c, p) /\ \A d \in Calls \ {c} : ~User(d, p)
        /\ plugin[p].run # None /\ Halting(c, p)
    BY <1>0, <1>1, <1>2, <1>7, TheUser
  <2>2. act.op \in {"disable", "uninstall", "update"} /\ (act.op = "update" => act.new \in Versions)
    BY <1>1, <1>2, <1>7 DEF Shaped, Call, Ops
  <2>3. Quiet(P) /\ P.run # None
    BY <1>4, <2>1 DEF Quiet, Halting
  <2>4. \A x \in Workers : workers[x].alive => /\ worker[x].alive /\ x # plugin[p].host
                                               /\ call[c] # Idle => x # call[c].worker
    BY <1>5, <2>1, PluginsAssumption DEF Halting
  <2>5. \A d \in Calls \ {c} : Halt(d, p) /\ call[d].worker # None => ~workers[call[d].worker].alive
    <3>1. SUFFICES ASSUME NEW d \in Calls \ {c}, Halt(d, p), call[d].worker # None, workers[call[d].worker].alive
                   PROVE  FALSE
      OBVIOUS
    <3>2. call[d].worker \in Workers
      BY <3>1, NoneIsNothing DEF TypeOK, Call, Halt, Idle
    <3>3. worker[call[d].worker].alive
      BY <3>1, <3>2, <2>4
    <3>4. plugin[p].host = call[d].worker
      BY <3>1, <3>3, <1>3 DEF Hosted
    <3>5. QED
      BY <3>1, <3>2, <3>4, <2>4
  <2>6. QED
    BY <1>0, <1>1, <1>2, <1>4, <1>5, <1>6, <2>1, <2>2, <2>3, <2>4, <2>5, UnloadedFine
<1>8. ASSUME act.op = "shutdown" PROVE IInv'
  <2>1. Finish(c, p, P) /\ worker' = workers /\ UNCHANGED history /\ closing # None
    BY <1>0, <1>1, <1>8 DEF Unloaded, Alone
  <2>2. /\ plugin' \in [Plugins -> Plugin] /\ plugin'[p] = P
        /\ \A q \in Plugins \ {p} : plugin'[q] = plugin[q]
        /\ call' \in [Calls -> Call \union {Idle}] /\ call'[c] = Idle
        /\ \A d \in Calls \ {c} : call'[d] = call[d]
    BY <1>4, <2>1 DEF Finish, Return, TypeOK
  <2>3. Idle.op = "idle" /\ Idle.id = None /\ None \notin Plugins
    BY NoneIsNothing DEF Idle
  <2>4. TypeOK' /\ Shaped' /\ Alone' /\ Apart' /\ NoStrayWorker'
    <3>1. TypeOK'
      BY <1>1, <1>5, <2>1, <2>2 DEF TypeOK, history
    <3>2. Shaped'
      BY <2>2 DEF Shaped, Trying
    <3>3. \A d \in Calls, q \in Plugins : User(d, q)' => d # c /\ User(d, q)
      BY <2>2, <2>3 DEF User
    <3>4. \A d \in Calls : call'[d].op # "shutdown"
      BY <1>8, <2>2, <2>3 DEF Alone
    <3>5. Alone'
      BY <3>3, <3>4 DEF Alone
    <3>6. Apart' /\ NoStrayWorker'
      BY <1>1, <1>4, <2>1, <2>2 DEF Apart, NoStrayWorker
    <3>7. QED
      BY <3>1, <3>2, <3>5, <3>6
  <2>5. Still(p)
    BY <1>0, <1>1, <1>5, <2>1, <2>2, <2>3 DEF Still
  <2>6. SamePast(p)
    BY <2>1 DEF SamePast, history
  <2>7. ~User(c, p) /\ \A d \in Calls : User(d, p)' <=> User(d, p)
    BY <1>8, <2>2, <2>3 DEF User, UserOps
  <2>8. Hosted(p)'
    <3>1. ASSUME NEW d \in Calls, User(d, p)'
          PROVE  plugin'[p].run # None /\ (~Trying(d)' => Halting(d, p)') /\ (Trying(d)' => Tried(d, p)')
      <4>1. User(d, p) /\ d # c /\ call'[d] = call[d]
        BY <3>1, <2>2, <2>7
      <4>2. plugin'[p].run # None /\ (Trying(d)' <=> Trying(d))
        BY <4>1, <1>3, <1>4, <2>2 DEF Hosted, Trying
      <4>3. ASSUME ~Trying(d) PROVE Halting(d, p)'
        BY <4>1, <4>3, <1>1, <1>3, <1>4, <2>1, <2>2 DEF Hosted, Halting
      <4>4. ASSUME Trying(d) PROVE Tried(d, p)'
        BY <4>1, <4>4, <1>1, <1>3, <1>4, <2>1, <2>2 DEF Hosted, Tried
      <4>5. QED
        BY <4>2, <4>3, <4>4
    <3>2. ASSUME \A d \in Calls : ~User(d, p)' PROVE ~P.enabling /\ Quiet(P)
      BY <3>2, <1>3, <1>4, <2>7 DEF Hosted, Quiet
    <3>3. \A d \in Calls : ~Halt(d, p)'
      BY <1>8, <2>2, <2>3 DEF Halt, Alone
    <3>4. QED
      BY <3>1, <3>2, <3>3, <1>1, <1>4, <2>1, <2>2 DEF Hosted
  <2>9. Conf(p)' /\ Filed(p)'
    <3>1. \A d \in Calls : /\ Updating(d, p)' <=> Updating(d, p)
                           /\ Updating(d, p)' => call'[d] = call[d]
      BY <1>6, <2>2, <2>3 DEF Updating, Trying
    <3>2. QED
      BY <3>1, <1>3, <1>4, <2>1, <2>2 DEF Conf, Reached, Filed, history
  <2>10. QED
    BY <2>4, <2>5, <2>6, <2>8, <2>9, StepFine DEF Fine
<1>9. QED
  BY <1>7, <1>8

LEMMA InstallFine ==
  ASSUME IInv, NEW p \in Plugins, NEW v \in Versions, Install(p, v) PROVE IInv'
<1> USE DEF IInv, Base
<1> DEFINE Q == Installed(plugin[p], v)
<1>1. /\ plugin[p].run = None /\ plugin[p].dir = None
      /\ plugin' = [plugin EXCEPT ![p] = Q] /\ current' = [current EXCEPT ![p] = v]
      /\ UNCHANGED <<worker, call, closing, chosen, interrupted, patched, missed, crashes>>
      /\ requests' \in 0..Requests
  BY PluginsAssumption DEF Install, TypeOK
<1>2. plugin[p] \in Plugin /\ Honest(plugin[p], chosen[p]) /\ Hosted(p) /\ Filed(p)
  BY DEF TypeOK, Fine, Conf
<1>3. \A d \in Calls : ~User(d, p) /\ ~Updating(d, p)
  BY <1>1, <1>2 DEF Hosted, User, UserOps, Ops, Updating
<1>4. Quiet(plugin[p])
  BY <1>1, <1>2, <1>3 DEF Hosted, IsEnabled
<1>5. /\ Q \in Plugin /\ Honest(Q, chosen[p]) /\ Loaded(Q) /\ Q.run # None /\ Quiet(Q)
      /\ Q.dir = v /\ Q.bak = plugin[p].bak
  BY <1>2, <1>4, InstalledIs DEF Quiet, Like
<1> HIDE DEF Q
<1>6. /\ plugin' \in [Plugins -> Plugin] /\ plugin'[p] = Q
      /\ \A q \in Plugins \ {p} : plugin'[q] = plugin[q]
      /\ current' \in [Plugins -> Versions \union {None}] /\ current'[p] = v
  BY <1>1, <1>5 DEF TypeOK
<1>7. TypeOK' /\ Shaped' /\ Alone' /\ Apart'
  BY <1>1, <1>5, <1>6 DEF TypeOK, Shaped, Trying, Alone, User, Apart, Quiet
<1>8. NoStrayWorker'
  BY <1>1, <1>4, <1>6, PluginsAssumption DEF NoStrayWorker, Quiet
<1>9. Still(p) /\ SamePast(p)
  <2>1. Still(p)
    BY <1>1, <1>6, CalmHere DEF Still
  <2>2. QED
    BY <2>1, <1>1 DEF SamePast, TypeOK
<1>10. Hosted(p)'
  <2>1. \A d \in Calls : ~User(d, p)'
    BY <1>1, <1>3 DEF User
  <2>2. ASSUME NEW d \in Calls, Halt(d, p)', call'[d].worker # None, worker'[call'[d].worker].alive
        PROVE  FALSE
    BY <2>2, <1>1, <1>4, HaltsDead DEF Quiet, Halt
  <2>3. QED
    BY <2>1, <2>2, <1>5, <1>6 DEF Hosted, Quiet
<1>11. Conf(p)' /\ Filed(p)'
  <2>1. \A d \in Calls : ~Updating(d, p)'
    BY <1>1, <1>3 DEF Updating, Trying
  <2>2. p \notin interrupted => plugin[p].bak = None
    BY <1>2, <1>3 DEF Filed
  <2>3. QED
    BY <2>1, <2>2, <1>1, <1>5, <1>6 DEF Conf, Reached, Filed, Quiet
<1>12. QED
  BY <1>7, <1>8, <1>9, <1>10, <1>11, StepFine DEF Fine

LEMMA UpdateConfigFine ==
  ASSUME IInv, NEW p \in Plugins, UpdateConfig(p) PROVE IInv'
<1> USE DEF IInv, Base
<1> DEFINE P == plugin[p]
           new == chosen[p] + 1
           E == IF P.entry = None THEN None ELSE [P.entry EXCEPT !.config = new]
           R == [P.run EXCEPT !.config = new]
           Q == [P EXCEPT !.run = R, !.entry = E]
           h == P.host
<1>1. P \in Plugin /\ Honest(P, chosen[p]) /\ Hosted(p) /\ Filed(p) /\ Conf(p)
  BY DEF TypeOK, Fine, Conf
<1>2. /\ P.run # None /\ plugin' = [plugin EXCEPT ![p] = Q]
      /\ worker' = IF Told(P) /\ worker[h].alive THEN [worker EXCEPT ![h].config = new] ELSE worker
      /\ missed' = IF Told(P) THEN missed \ {p} ELSE IF P.enabling THEN missed \union {p} ELSE missed
      /\ chosen' = [chosen EXCEPT ![p] = new]
      /\ UNCHANGED <<call, closing, current, interrupted, patched>>
      /\ requests' = requests /\ crashes' = crashes
  BY DEF UpdateConfig, counts, TypeOK, Plugin
<1>3. new \in Config
  BY PluginsAssumption DEF UpdateConfig, TypeOK, Config
<1> HIDE DEF new
<1>4. /\ R \in Instance /\ R.status = P.run.status /\ R.version = P.run.version /\ R.config = new
      /\ R # None /\ E \in Entry /\ E.status = P.run.status /\ E.config = new /\ E # None
  <2>1. P.run \in Instance /\ P.entry \in Entry /\ P.entry # None /\ P.entry.status = P.run.status
    BY <1>1, <1>2 DEF Plugin, Honest
  <2>2. R \in Instance /\ R.status = P.run.status /\ R.version = P.run.version /\ R.config = new
    BY <2>1, <1>3 DEF Instance
  <2>3. E \in Entry /\ E.status = P.run.status /\ E.config = new
    BY <2>1, <1>3 DEF Entry
  <2>4. QED
    BY <2>2, <2>3, NoneIsNothing
<1> HIDE DEF R, E
<1>5. /\ Q \in Plugin /\ Q.run = R /\ Q.entry = E /\ Q.dir = P.dir /\ Q.bak = P.bak
      /\ Q.enabling = P.enabling /\ Q.host = h /\ Q.hooks = P.hooks
  BY <1>1, <1>4 DEF Plugin
<1> HIDE DEF Q
<1>6. /\ Honest(Q, new) /\ Loaded(Q) /\ (IsEnabled(Q) <=> IsEnabled(P))
  BY <1>1, <1>2, <1>4, <1>5 DEF Honest, StoredConfig, Loaded, Filed, IsEnabled
<1>7. /\ plugin' \in [Plugins -> Plugin] /\ plugin'[p] = Q
      /\ \A q \in Plugins \ {p} : plugin'[q] = plugin[q]
      /\ chosen' \in [Plugins -> Config] /\ chosen'[p] = new
      /\ \A q \in Plugins \ {p} : chosen'[q] = chosen[q]
      /\ missed' \subseteq Plugins
  BY <1>2, <1>3, <1>5 DEF TypeOK
<1>8. /\ worker' \in [Workers -> Worker]
      /\ \A x \in Workers : worker'[x].alive = worker[x].alive
      /\ \A x \in Workers \ {h} : worker'[x] = worker[x]
      /\ Told(P) /\ worker[h].alive => worker'[h].config = new
  <2>1. Told(P) => h \in Workers
    BY <1>1 DEF Told, Plugin
  <2>2. QED
    BY <2>1, <1>2, <1>3 DEF TypeOK, Worker
<1>9. TypeOK' /\ Shaped' /\ Alone' /\ Apart'
  BY <1>2, <1>5, <1>7, <1>8 DEF TypeOK, Shaped, Trying, Alone, User, Apart
<1>10. NoStrayWorker'
  BY <1>2, <1>5, <1>7, <1>8 DEF NoStrayWorker
<1>11. Still(p) /\ SamePast(p)
  <2>1. \A d \in Calls : call[d] # Idle /\ call[d].worker # None /\ worker'[call[d].worker].alive =>
          worker[call[d].worker].alive
    BY <1>8 DEF TypeOK, Call
  <2>2. ASSUME NEW q \in Plugins \ {p}, plugin[q].host # None
        PROVE  worker'[plugin[q].host] = worker[plugin[q].host]
    BY <2>2, <1>8 DEF TypeOK, Plugin, Apart
  <2>3. Calmer(p, worker')
    BY <2>1, <2>2 DEF Calmer
  <2>4. Still(p)
    BY <2>3, <1>2, <1>7 DEF Still
  <2>5. SamePast(p)
    BY <1>2, <1>7 DEF SamePast
  <2>6. QED
    BY <2>4, <2>5
<1>12. Hosted(p)'
  <2>1. ASSUME NEW d \in Calls, User(d, p)'
        PROVE  Q.run # None /\ (~Trying(d)' => Halting(d, p)') /\ (Trying(d)' => Tried(d, p)')
    <3>1. User(d, p) /\ call'[d] = call[d]
      BY <2>1, <1>2 DEF User
    <3>2. QED
      BY <3>1, <1>1, <1>2, <1>4, <1>5, <1>6, <1>7 DEF Hosted, Trying, Halting, Tried
  <2>2. ASSUME \A d \in Calls : ~User(d, p)' PROVE ~Q.enabling /\ (~IsEnabled(Q) => Quiet(Q))
    BY <2>2, <1>1, <1>2, <1>5, <1>6 DEF Hosted, User, Quiet
  <2>3. ASSUME NEW d \in Calls, Halt(d, p)', call'[d].worker # None, worker'[call'[d].worker].alive
        PROVE  IsEnabled(Q) /\ Q.host = call'[d].worker
    <3>1. Halt(d, p) /\ call'[d] = call[d] /\ call[d].worker \in Workers
      BY <2>3, <1>2, NoneIsNothing DEF Halt, TypeOK, Call, Idle
    <3>2. worker[call[d].worker].alive
      BY <3>1, <2>3, <1>8
    <3>3. QED
      BY <3>1, <3>2, <2>3, <1>1, <1>5, <1>6 DEF Hosted
  <2>4. QED
    BY <2>1, <2>2, <2>3, <1>1, <1>2, <1>5, <1>6, <1>7 DEF Hosted
<1>13. Reached(p)'
  <2>1. SUFFICES ASSUME p \notin missed', h # None
                 PROVE  ~worker'[h].alive \/ worker'[h].config = new
    BY <1>4, <1>5, <1>7 DEF Reached
  <2>2. h \in Workers
    BY <2>1, <1>1 DEF Plugin
  <2>3. IsEnabled(P)
    <3>1. SUFFICES ASSUME ~IsEnabled(P) PROVE FALSE
      OBVIOUS
    <3>2. ~P.enabling
      BY <3>1, <2>1, <1>2 DEF Told
    <3>3. QED
      BY <3>1, <3>2, <2>1, <1>1 DEF Hosted, Quiet, Halting, Tried
  <2>4. QED
    BY <2>1, <2>2, <2>3, <1>8 DEF Told
<1>14. Conf(p)' /\ Filed(p)'
  <2>1. \A d \in Calls : /\ Updating(d, p)' <=> Updating(d, p)
                         /\ call'[d] = call[d]
    BY <1>2 DEF Updating, Trying
  <2>2. Filed(p)'
    BY <2>1, <1>1, <1>2, <1>4, <1>5, <1>6, <1>7 DEF Filed
  <2>3. QED
    BY <2>2, <1>6, <1>7, <1>13 DEF Conf
<1>15. QED
  BY <1>9, <1>10, <1>11, <1>12, <1>14, StepFine DEF Fine

\* A worker that runs is the only one its plugin lets subscribe.
LEMMA HookSubscribeFine ==
  ASSUME IInv, NEW w \in Workers, HookSubscribe(w) PROVE IInv'
<1> USE DEF IInv, Base
<1>0. PICK p \in Plugins : /\ plugin[p].host = w \/ \E c \in On(p) : call[c].worker = w
                           /\ plugin' = [plugin EXCEPT ![p].hooks = @ \union {w}]
  BY DEF HookSubscribe
<1> DEFINE P == plugin[p]
           Q == [P EXCEPT !.hooks = @ \union {w}]
<1>1. /\ worker[w].alive /\ worker' = [worker EXCEPT ![w].subscribed = TRUE]
      /\ call' = call /\ closing' = closing /\ UNCHANGED history
      /\ requests' = requests /\ crashes' = crashes
  BY DEF HookSubscribe, counts
<1>2. P \in Plugin /\ Hosted(p) /\ Conf(p) /\ Filed(p)
  BY DEF TypeOK, Fine
<1>3. w # None
  BY PluginsAssumption
<1>4. /\ P.hooks \subseteq {w}
      /\ P.host # None => P.host = w
      /\ \A d \in Calls : User(d, p) => call[d].worker = w
      /\ (\A d \in Calls : ~User(d, p)) => IsEnabled(P)
  <2>1. P.host = w \/ \E d \in Calls : (User(d, p) \/ Halt(d, p)) /\ call[d].worker = w
    BY <1>0, NoneIsNothing DEF On, User, Halt, UserOps, TypeOK, Call, Idle
  <2>2. CASE P.host = w
    <3>1. P.hooks \subseteq {w}
      BY <2>2, <1>2, <1>3 DEF Hosted
    <3>2. \A d \in Calls : User(d, p) => call[d].worker = w
      BY <2>2, <1>2, <1>3 DEF Hosted, Tried, Halting
    <3>3. (\A d \in Calls : ~User(d, p)) => IsEnabled(P)
      BY <2>2, <1>2, <1>3 DEF Hosted, Quiet
    <3>4. QED
      BY <2>2, <3>1, <3>2, <3>3
  <2>3. ASSUME P.host # w, NEW d \in Calls, User(d, p), call[d].worker = w
        PROVE  /\ P.hooks \subseteq {w} /\ P.host = None
               /\ \A e \in Calls : User(e, p) => call[e].worker = w
               /\ ~\A e \in Calls : ~User(e, p)
    <3>1. \A e \in Calls : User(e, p) => e = d
      BY <2>3 DEF Alone
    <3>2. P.hooks \subseteq {w} /\ P.host = None
      BY <2>3, <1>2 DEF Hosted, Tried, Halting
    <3>3. QED
      BY <2>3, <3>1, <3>2
  <2>4. ASSUME P.host # w, NEW d \in Calls, Halt(d, p), call[d].worker = w PROVE FALSE
    BY <2>4, <1>1, <1>2, <1>3 DEF Hosted
  <2>5. QED
    BY <2>1, <2>2, <2>3, <2>4
<1>5. /\ Q \in Plugin /\ Q.hooks = {w} /\ Q.run = P.run /\ Q.entry = P.entry
      /\ Q.dir = P.dir /\ Q.bak = P.bak /\ Q.enabling = P.enabling /\ Q.host = P.host
      /\ plugin' = [plugin EXCEPT ![p] = Q]
  BY <1>0, <1>2, <1>4 DEF Plugin
<1> HIDE DEF Q
<1>6. /\ plugin' \in [Plugins -> Plugin] /\ plugin'[p] = Q
      /\ \A q \in Plugins \ {p} : plugin'[q] = plugin[q]
  BY <1>5 DEF TypeOK
<1>7. /\ worker' \in [Workers -> Worker]
      /\ \A x \in Workers : worker'[x].alive = worker[x].alive /\ worker'[x].config = worker[x].config
  BY <1>1 DEF TypeOK, Worker
<1>8. TypeOK' /\ Shaped' /\ Alone' /\ Apart'
  BY <1>1, <1>5, <1>6, <1>7 DEF TypeOK, history, Shaped, Trying, Alone, User, Apart
<1>9. NoStrayWorker'
  BY <1>1, <1>5, <1>6, <1>7 DEF NoStrayWorker
<1>10. Still(p) /\ SamePast(p)
  <2>1. Calmer(p, worker')
    BY <1>7 DEF Calmer, TypeOK, Call, Plugin
  <2>2. QED
    BY <2>1, <1>1, <1>6 DEF Still, SamePast, history
<1>11. Hosted(p)'
  <2>0. IsEnabled(Q) <=> IsEnabled(P)
    BY <1>5 DEF IsEnabled
  <2>1. ASSUME NEW d \in Calls, User(d, p)'
        PROVE  Q.run # None /\ (~Trying(d)' => Halting(d, p)') /\ (Trying(d)' => Tried(d, p)')
    <3>1. User(d, p) /\ call'[d] = call[d] /\ call[d].worker = w
      BY <2>1, <1>1, <1>4 DEF User
    <3>2. QED
      BY <2>0, <3>1, <1>1, <1>2, <1>5, <1>6 DEF Hosted, Trying, Halting, Tried
  <2>2. ASSUME \A d \in Calls : ~User(d, p)' PROVE ~Q.enabling /\ IsEnabled(Q)
    BY <2>0, <2>2, <1>1, <1>2, <1>4, <1>5 DEF Hosted, User
  <2>3. ASSUME NEW d \in Calls, Halt(d, p)', call'[d].worker # None, worker'[call'[d].worker].alive
        PROVE  IsEnabled(Q) /\ Q.host = call'[d].worker
    <3>1. Halt(d, p) /\ call'[d] = call[d] /\ call[d].worker \in Workers
      BY <2>3, <1>1, NoneIsNothing DEF Halt, TypeOK, Call, Idle
    <3>2. worker[call[d].worker].alive
      BY <3>1, <2>3, <1>7
    <3>3. QED
      BY <2>0, <3>1, <3>2, <2>3, <1>2, <1>5 DEF Hosted
  <2>4. QED
    BY <2>0, <2>1, <2>2, <2>3, <1>1, <1>2, <1>4, <1>5, <1>6 DEF Hosted
<1>12. Conf(p)' /\ Filed(p)'
  <2>1. \A d \in Calls : /\ Updating(d, p)' <=> Updating(d, p)
                         /\ call'[d] = call[d]
    BY <1>1 DEF Updating, Trying
  <2>2. P.host # None => P.host \in Workers
    BY <1>2 DEF Plugin
  <2>3. QED
    BY <2>1, <2>2, <1>1, <1>2, <1>5, <1>6, <1>7
       DEF Conf, Reached, Honest, StoredConfig, Filed, Loaded, history
<1>13. QED
  BY <1>8, <1>9, <1>10, <1>11, <1>12, StepFine DEF Fine

LEMMA ProcessStepsFine ==
  ASSUME IInv, (\E w \in Workers : HandleExit(w)) \/ OnModuleDestroy PROVE IInv'
<1> USE DEF IInv, Base
<1>1. /\ plugin' = plugin /\ call' = call /\ UNCHANGED history
      /\ requests' = requests /\ crashes' = crashes
  BY DEF HandleExit, OnModuleDestroy, counts
<1> DEFINE Ended ==
        /\ worker' \in [Workers -> Worker]
        /\ \A x \in Workers : (worker'[x].alive => worker[x].alive) /\ worker'[x].config = worker[x].config
<1>2. Ended
  <2>1. ASSUME NEW w \in Workers, worker' = Kill(w) PROVE  Ended
    BY <2>1 DEF TypeOK, Kill, Worker
  <2>2. ASSUME worker' = worker PROVE  Ended
    BY <2>2 DEF TypeOK
  <2>3. QED
    BY <2>1, <2>2 DEF HandleExit, OnModuleDestroy
<1>3. closing' \in (SUBSET Plugins) \union {None} /\ (closing' = None => closing = None)
  BY NoneIsNothing DEF HandleExit, OnModuleDestroy, TypeOK
<1>4. TypeOK' /\ Shaped' /\ Alone' /\ Apart' /\ NoStrayWorker'
  BY <1>1, <1>2, <1>3 DEF TypeOK, history, Shaped, Trying, Alone, User, Apart, NoStrayWorker
<1>5. ASSUME NEW p \in Plugins PROVE Fine(p)'
  <2>1. plugin[p] \in Plugin /\ Hosted(p) /\ Conf(p) /\ Filed(p)
    BY DEF TypeOK, Fine
  <2>2. Hosted(p)'
    <3>1. \A d \in Calls : /\ User(d, p)' <=> User(d, p)
                           /\ Halt(d, p)' <=> Halt(d, p)
                           /\ Trying(d)' <=> Trying(d)
                           /\ Tried(d, p) => Tried(d, p)'
                           /\ Halting(d, p) => Halting(d, p)'
      BY <1>1, <1>3 DEF User, Halt, Trying, Tried, Halting
    <3>2. ASSUME NEW d \in Calls, Halt(d, p), call[d].worker # None, worker'[call[d].worker].alive
          PROVE  worker[call[d].worker].alive
      BY <3>2, <1>2, NoneIsNothing DEF Halt, TypeOK, Call, Idle
    <3>3. QED
      BY <1>1, <1>3, <2>1, <3>1, <3>2 DEF Hosted
  <2>3. Conf(p)'
    BY <1>1, <1>2, <2>1 DEF Conf, Reached, Plugin, history
  <2>4. Filed(p)'
    BY <1>1, <2>1 DEF Filed, Updating, Trying, history
  <2>5. QED
    BY <2>2, <2>3, <2>4 DEF Fine
<1>6. QED
  BY <1>4, <1>5

-----------------------------------------------------------------------------
\* A restart.

LEMMA BootIs ==
  ASSUME NEW X \in Plugin, NEW k, StoredConfig(X) = k, NEW Q \in Boot(X)
  PROVE  /\ Q \in Plugin /\ Quiet(Q) /\ Honest(Q, k) /\ Loaded(Q)
         /\ Q.dir = X.dir /\ Q.bak = X.bak /\ (Q.dir \in Versions => Q.run # None)
<1> DEFINE B == [X EXCEPT !.run = None, !.enabling = FALSE, !.host = None, !.hooks = {}]
<1>1. /\ B \in Plugin /\ B.run = None /\ ~B.enabling /\ B.host = None /\ B.hooks = {}
      /\ B.dir = X.dir /\ B.bak = X.bak /\ B.entry = X.entry
  BY DEF Plugin
<1>2. \/ Q = B /\ X.dir \notin Versions
      \/ Q = LoadPlugin(B) /\ X.dir # None
  BY PluginsAssumption DEF Boot, Plugin, Files
<1> HIDE DEF B
<1>3. StoredConfig(B) = k
  BY <1>1 DEF StoredConfig
<1>4. CASE Q = B /\ X.dir \notin Versions
  BY <1>1, <1>3, <1>4 DEF Quiet, IsEnabled, Honest, Loaded
<1>5. CASE Q = LoadPlugin(B) /\ X.dir # None
  BY <1>1, <1>3, <1>5, LoadPluginIs DEF Quiet
<1>6. QED
  BY <1>2, <1>4, <1>5

\* What a plugin's disk is when the process dies: an update, a rollback, an uninstall or an
\* install may have been cut short.
LEMMA TornIs ==
  ASSUME IInv, NEW p \in Plugins,
         NEW P \in {plugin[p]} \union TornUpdate(p) \union TornRollback(p)
                   \union TornUninstall(p) \union TornInstall(p)
  PROVE  LET gone == P \in TornUninstall(p) \union TornInstall(p)
             cut == P \in TornUpdate(p) /\ plugin[p].dir = Partial
         IN  /\ P \in Plugin
             /\ gone => P # plugin[p] /\ (P.entry # None => StoredConfig(P) = chosen[p])
             /\ ~gone => StoredConfig(P) = chosen[p]
             /\ (~gone /\ P # plugin[p] /\ p \notin patched /\ ~cut)
                  => P.dir \in Versions \/ P.bak \in Versions
<1> USE DEF IInv, Base
<1> DEFINE O == plugin[p]
           gone == P \in TornUninstall(p) \union TornInstall(p)
           cut == P \in TornUpdate(p) /\ plugin[p].dir = Partial
<1>1. O \in Plugin /\ Honest(O, chosen[p]) /\ Hosted(p) /\ Filed(p)
  BY DEF TypeOK, Fine, Conf
<1>2. ASSUME P = O PROVE P \in Plugin /\ StoredConfig(P) = chosen[p]
  BY <1>1, <1>2 DEF Honest
<1>3. ASSUME P \in TornUpdate(p)
      PROVE  /\ P \in Plugin /\ StoredConfig(P) = chosen[p]
             /\ ~cut => P.dir \in Versions \/ P.bak \in Versions
  <2>1. /\ O.run # None
        /\ \/ P = [O EXCEPT !.bak = None]
           \/ P = SetAside(O)
           \/ \E f \in Versions \union {Partial} : P = [SetAside(O) EXCEPT !.dir = f]
    BY <1>3 DEF TornUpdate
  <2>2. O.dir \in Versions \union {Partial}
    BY <2>1, <1>1 DEF Filed, Loaded, Plugin, Files
  <2>3. P \in Plugin /\ P.entry = O.entry /\ (P.dir = O.dir \/ P.bak = O.dir)
    <3>1. CASE P = [O EXCEPT !.bak = None]
      BY <3>1, <1>1 DEF Plugin, Files
    <3>2. /\ SetAside(O) \in Plugin /\ SetAside(O).entry = O.entry /\ SetAside(O).bak = O.dir
      BY <1>1 DEF SetAside, Plugin, Files
    <3>3. ASSUME NEW f \in Versions \union {Partial}, P = [SetAside(O) EXCEPT !.dir = f]
          PROVE  P \in Plugin /\ P.entry = O.entry /\ P.bak = O.dir
      BY <3>2, <3>3 DEF Plugin, Files
    <3>4. QED
      BY <2>1, <3>1, <3>2, <3>3
  <2>4. QED
    BY <1>1, <1>3, <2>2, <2>3 DEF Honest, StoredConfig
<1>4. ASSUME P \in TornRollback(p)
      PROVE  /\ P \in Plugin /\ StoredConfig(P) = chosen[p]
             /\ p \notin patched => P.bak \in Versions
  <2>1. Enabling(p) /\ P = [O EXCEPT !.dir = None]
    BY <1>4 DEF TornRollback
  <2>2. P \in Plugin /\ P.entry = O.entry /\ P.bak = O.bak
    BY <2>1, <1>1 DEF Plugin, Files
  <2>3. PICK c \in Calls : call[c].id = p /\ call[c].op = "update" /\ O.enabling
    BY <2>1 DEF Enabling, On
  <2>4. User(c, p)
    BY <2>3 DEF User, UserOps, Ops
  <2>5. Updating(c, p)
    BY <2>3, <2>4, <1>1 DEF Hosted, Halting, Updating
  <2>6. QED
    BY <2>2, <2>5, <1>1 DEF Filed, Honest, StoredConfig
<1>5. ASSUME P \in TornUninstall(p) PROVE P \in Plugin /\ P # O /\ P.entry = None
  <2>1. PICK f \in {O.dir, Partial} : O.run # None /\ P = [O EXCEPT !.entry = None, !.dir = f]
    BY <1>5 DEF TornUninstall
  <2>2. f \in Files
    BY <2>1, <1>1 DEF Plugin, Files
  <2>3. P \in Plugin /\ P.entry = None
    BY <2>1, <2>2, <1>1 DEF Plugin
  <2>4. O.entry # None
    BY <2>1, <1>1 DEF Honest
  <2>5. QED
    BY <2>3, <2>4
<1>6. ASSUME P \in TornInstall(p) PROVE P \in Plugin /\ P # O /\ StoredConfig(P) = chosen[p]
  <2>1. O.dir = None /\ P = [O EXCEPT !.dir = Partial]
    BY <1>6 DEF TornInstall
  <2>2. P \in Plugin /\ P.dir = Partial /\ P.entry = O.entry
    BY <2>1, <1>1 DEF Plugin, Files
  <2>3. QED
    BY <2>1, <2>2, <1>1, PluginsAssumption DEF Honest, StoredConfig
<1>7. QED
  BY <1>2, <1>3, <1>4, <1>5, <1>6

LEMMA CrashFine ==
  ASSUME IInv, Crash PROVE IInv'
<1> USE DEF IInv, Base
<1> DEFINE Ends(p) == {plugin[p]} \union TornUpdate(p) \union TornRollback(p)
                      \union TornUninstall(p) \union TornInstall(p)
           Gone(p, P) == P \in TornUninstall(p) \union TornInstall(p)
           Cut(p, P) == P \in TornUpdate(p) /\ plugin[p].dir = Partial
<1> DEFINE Restarts(p, P) ==
        /\ crashes' \in 0..Crashes /\ requests' = requests
        /\ call' = [c \in Calls |-> Idle]
        /\ worker' = [w \in Workers |-> [worker[w] EXCEPT !.alive = FALSE]]
        /\ closing' = None /\ missed' = {}
        /\ DOMAIN plugin' = Plugins /\ plugin' = [q \in Plugins |-> plugin'[q]]
        /\ \A q \in Plugins : plugin'[q] \in IF q = p THEN Boot(P) ELSE Boot(plugin[q])
        /\ interrupted' = interrupted \union {q \in Plugins : Enabling(q)}
                                      \union (IF P = plugin[p] THEN {} ELSE {p})
        /\ patched' = IF Cut(p, P) THEN patched \union {p} ELSE patched
        /\ current' = IF Gone(p, P) THEN [current EXCEPT ![p] = None] ELSE current
        /\ chosen' = IF Gone(p, P) /\ P.entry = None THEN [chosen EXCEPT ![p] = 0] ELSE chosen
<1>0. \E p \in Plugins : \E P \in Ends(p) : Restarts(p, P)
  <2>1. PICK p \in Plugins : Crash!(p)
    BY DEF Crash
  <2>2. PICK P \in Ends(p) : Crash!(p)!(P)
    BY <2>1
  <2>3. crashes' \in 0..Crashes
    BY <2>2, PluginsAssumption DEF TypeOK
  <2>4. /\ DOMAIN plugin' = Plugins /\ plugin' = [q \in Plugins |-> plugin'[q]]
        /\ \A q \in Plugins : plugin'[q] \in IF q = p THEN Boot(P) ELSE Boot(plugin[q])
    BY <2>2
  <2>5. QED
    BY <2>2, <2>3, <2>4
<1> HIDE DEF Restarts
<1>p. PICK p \in Plugins : \E P \in Ends(p) : Restarts(p, P)
  BY <1>0
<1>e. PICK P \in Ends(p) : Restarts(p, P)
  BY <1>p
<1> USE DEF Restarts
<1>1. Restarts(p, P)
  BY <1>e
<1>2. /\ P \in Plugin
      /\ Gone(p, P) => P # plugin[p] /\ (P.entry # None => StoredConfig(P) = chosen[p])
      /\ ~Gone(p, P) => StoredConfig(P) = chosen[p]
      /\ (~Gone(p, P) /\ P # plugin[p] /\ p \notin patched /\ ~Cut(p, P))
           => P.dir \in Versions \/ P.bak \in Versions
  BY TornIs
<1> DEFINE X(q) == IF q = p THEN P ELSE plugin[q]
<1> HIDE DEF Ends, Gone, Cut
<1>3. ASSUME NEW q \in Plugins
      PROVE  X(q) \in Plugin /\ StoredConfig(X(q)) = chosen'[q] /\ plugin'[q] \in Boot(X(q))
  <2>1. plugin[q] \in Plugin /\ StoredConfig(plugin[q]) = chosen[q]
    BY DEF TypeOK, Fine, Conf, Honest
  <2>2. chosen'[q] = IF q = p /\ Gone(p, P) /\ P.entry = None THEN 0 ELSE chosen[q]
    BY <1>1 DEF TypeOK
  <2>3. QED
    BY <2>1, <2>2, <1>1, <1>2 DEF StoredConfig
<1>4. ASSUME NEW q \in Plugins
      PROVE  /\ plugin'[q] \in Plugin /\ Quiet(plugin'[q]) /\ Honest(plugin'[q], chosen'[q])
             /\ Loaded(plugin'[q]) /\ plugin'[q].dir = X(q).dir /\ plugin'[q].bak = X(q).bak
             /\ plugin'[q].dir \in Versions => plugin'[q].run # None
  BY <1>3, BootIs
<1>5. /\ call' \in [Calls -> Call \union {Idle}] /\ \A c \in Calls : call'[c] = Idle
      /\ worker' \in [Workers -> Worker] /\ \A w \in Workers : ~worker'[w].alive
  BY <1>1 DEF TypeOK, Worker
<1>6. Idle.op = "idle" /\ Idle.id = None /\ None \notin Plugins
  BY NoneIsNothing DEF Idle
<1>7. TypeOK'
  <2>1. plugin' \in [Plugins -> Plugin]
    BY <1>1, <1>4
  <2>2. /\ current' \in [Plugins -> Versions \union {None}] /\ chosen' \in [Plugins -> Config]
        /\ interrupted' \subseteq Plugins /\ patched' \subseteq Plugins /\ missed' \subseteq Plugins
    BY <1>1, PluginsAssumption DEF TypeOK, Config
  <2>3. QED
    BY <2>1, <2>2, <1>1, <1>5 DEF TypeOK
<1>8. Shaped' /\ Alone' /\ Apart' /\ NoStrayWorker'
  BY <1>4, <1>5, <1>6 DEF Shaped, Alone, User, UserOps, Apart, Quiet, NoStrayWorker
<1>9. ASSUME NEW q \in Plugins PROVE Fine(q)'
  <2>1. Hosted(q)'
    BY <1>4, <1>5, <1>6 DEF Hosted, User, Halt, Quiet
  <2>2. Conf(q)'
    BY <1>4 DEF Conf, Reached, Quiet
  <2>3. \A c \in Calls : ~Updating(c, q)'
    BY <1>5, <1>6 DEF Updating
  <2>4. Filed(q) /\ Hosted(q) /\ current[q] \in Versions \union {None}
    BY DEF Fine, TypeOK
  <2>5. \A c \in Calls : Updating(c, q) => Enabling(q)
    BY <2>4 DEF Updating, User, UserOps, Ops, Hosted, Tried, Enabling, On
  <2>6. current'[q] = IF q = p /\ Gone(p, P) THEN None ELSE current[q]
    BY <1>1 DEF TypeOK
  <2>7. ASSUME q \notin interrupted'
        PROVE  /\ plugin'[q].dir = current'[q] /\ plugin'[q].bak = None
               /\ plugin'[q].dir # None => plugin'[q].run # None
    <3>1. X(q) = plugin[q] /\ ~Enabling(q) /\ q \notin interrupted
      BY <2>7, <1>1
    <3>2. current'[q] = current[q]
      BY <3>1, <2>6, <1>2
    <3>3. plugin[q].dir = current[q] /\ plugin[q].bak = None
      BY <3>1, <2>4, <2>5 DEF Filed
    <3>4. QED
      BY <3>1, <3>2, <3>3, <2>4, <1>4
  <2>8. ASSUME q \notin patched', current'[q] # None
        PROVE  plugin'[q].dir \in Versions \/ plugin'[q].bak \in Versions
    <3>1. q \notin patched /\ current[q] # None /\ ~(q = p /\ Gone(p, P)) /\ ~(q = p /\ Cut(p, P))
      BY <2>8, <2>6, <1>1
    <3>2. CASE X(q) = plugin[q]
      BY <3>1, <3>2, <2>4, <1>4 DEF Filed
    <3>3. CASE X(q) # plugin[q]
      BY <3>1, <3>3, <1>2, <1>4
    <3>4. QED
      BY <3>2, <3>3
  <2>9. Filed(q)'
    BY <2>3, <2>7, <2>8, <1>4 DEF Filed
  <2>10. QED
    BY <2>1, <2>2, <2>9 DEF Fine
<1>10. QED
  BY <1>7, <1>8, <1>9

-----------------------------------------------------------------------------
\* The theorems.

LEMMA InitFine == Init => IInv
<1> SUFFICES ASSUME Init PROVE IInv
  OBVIOUS
<1> DEFINE Z == [dir |-> None, bak |-> None, entry |-> None, run |-> None,
                 enabling |-> FALSE, host |-> None, hooks |-> {}]
<1>1. /\ plugin = [p \in Plugins |-> Z] /\ call = [c \in Calls |-> Idle] /\ closing = None
      /\ worker = [w \in Workers |-> [alive |-> FALSE, config |-> 0, subscribed |-> FALSE]]
      /\ current = [p \in Plugins |-> None] /\ chosen = [p \in Plugins |-> 0]
      /\ interrupted = {} /\ patched = {} /\ missed = {} /\ requests = 0 /\ crashes = 0
  BY DEF Init
<1>2. Z \in Plugin /\ Quiet(Z) /\ Honest(Z, 0) /\ Loaded(Z) /\ Z.dir = None /\ Z.bak = None /\ Z.run = None
  BY DEF Plugin, Files, Quiet, IsEnabled, Honest, StoredConfig, Loaded
<1> HIDE DEF Z
<1>3. Idle.op = "idle" /\ Idle.id = None /\ None \notin Plugins
  BY NoneIsNothing DEF Idle
<1>4. TypeOK
  BY <1>1, <1>2, PluginsAssumption DEF TypeOK, Worker, Config
<1>5. Shaped /\ Alone /\ Apart /\ NoStrayWorker
  BY <1>1, <1>2, <1>3 DEF Shaped, Alone, User, UserOps, Apart, Quiet, NoStrayWorker
<1>6. ASSUME NEW p \in Plugins PROVE Fine(p)
  <2>1. Hosted(p)
    BY <1>1, <1>2, <1>3 DEF Hosted, User, Halt, Quiet
  <2>2. Conf(p) /\ Filed(p)
    BY <1>1, <1>2, <1>3 DEF Conf, Reached, Filed, Updating, Quiet
  <2>3. QED
    BY <2>1, <2>2 DEF Fine
<1>7. QED
  BY <1>4, <1>5, <1>6 DEF IInv, Base

LEMMA NextFine == IInv /\ [Next]_vars => IInv'
<1> SUFFICES ASSUME IInv, [Next]_vars PROVE IInv'
  OBVIOUS
<1>1. ASSUME NEW c \in Calls, NEW p \in Plugins,
             \/ Enable(c, p) \/ Disable(c, p) \/ Uninstall(c, p)
             \/ \E v \in Versions : UpdatePackage(c, p, v)
             \/ DisableAtShutdown(c, p)
      PROVE  IInv'
  BY <1>1, EnableFine, RequestsFine, DisableAtShutdownFine
<1>2. ASSUME NEW c \in Calls,
             Advance(c) \/ EnableSucceeds(c) \/ EnableFails(c) \/ EnableThrows(c) \/ Stopped(c)
      PROVE  IInv'
  BY <1>2, AdvanceFine, EnableSucceedsFine, EnableFailsFine, EnableThrowsFine, StoppedFine
<1>3. ASSUME NEW p \in Plugins, UpdateConfig(p) \/ \E v \in Versions : Install(p, v) PROVE IInv'
  BY <1>3, UpdateConfigFine, InstallFine
<1>4. ASSUME NEW w \in Workers, HookSubscribe(w) \/ HandleExit(w) PROVE IInv'
  BY <1>4, HookSubscribeFine, ProcessStepsFine
<1>5. ASSUME OnModuleDestroy \/ Crash PROVE IInv'
  BY <1>5, ProcessStepsFine, CrashFine
<1>6. ASSUME UNCHANGED vars PROVE IInv'
  <2>1. /\ plugin' = plugin /\ worker' = worker /\ call' = call /\ closing' = closing
        /\ UNCHANGED history /\ requests' = requests /\ crashes' = crashes
    BY <1>6 DEF vars, counts
  <2>2. TypeOK' /\ Shaped' /\ Alone' /\ Apart' /\ NoStrayWorker'
    BY <2>1 DEF IInv, Base, TypeOK, history, Shaped, Trying, Alone, User, Apart, NoStrayWorker
  <2>3. ASSUME NEW p \in Plugins PROVE Fine(p)'
    BY <2>1 DEF IInv, Fine, Hosted, Conf, Filed, User, Halt, Trying, Halting, Tried, Reached, Updating, history
  <2>4. QED
    BY <2>2, <2>3 DEF IInv, Base
<1>7. QED
  BY <1>1, <1>2, <1>3, <1>4, <1>5, <1>6 DEF Next

LEMMA Invariant == Spec => []IInv
<1>1. QED
  BY InitFine, NextFine, PTL DEF Spec

\* However operations, exits, crashes and the shutdown interleave, no worker that runs is left
\* behind before the shutdown, a plugin at rest has a host exactly if it is enabled, and an
\* event reaches it at most once.
THEOREM WorkersAccounted == Spec => []WorkersExact
<1>1. IInv => WorkersExact
  <2>1. SUFFICES ASSUME IInv PROVE WorkersExact
    OBVIOUS
  <2>2. StatusMeans
    <3>1. SUFFICES ASSUME NEW p \in Plugins, closing = None, On(p) = {}
                   PROVE  /\ (plugin[p].host # None) <=> IsEnabled(plugin[p])
                          /\ plugin[p].host = None => plugin[p].hooks = {}
      BY DEF StatusMeans
    <3>2. Hosted(p) /\ \A c \in Calls : ~User(c, p)
      BY <2>1, <3>1 DEF IInv, Fine, On, User
    <3>3. QED
      BY <3>1, <3>2 DEF Hosted, Quiet
  <2>3. OneRegistration
    <3>1. SUFFICES ASSUME NEW p \in Plugins PROVE Cardinality(plugin[p].hooks) <= 1
      BY DEF OneRegistration
    <3>2. plugin[p].hooks = {} \/ \E w \in Workers : plugin[p].hooks = {w}
      BY <2>1 DEF IInv, Fine, Hosted
    <3>3. CASE plugin[p].hooks = {}
      <4>1. Cardinality(plugin[p].hooks) = 0
        BY <3>3, FS_EmptySet
      <4>2. QED
        BY <4>1
    <3>4. ASSUME NEW w \in Workers, plugin[p].hooks = {w} PROVE Cardinality(plugin[p].hooks) <= 1
      <4>1. Cardinality({w}) = 1
        BY FS_Singleton
      <4>2. QED
        BY <4>1, <3>4
    <3>5. QED
      BY <3>2, <3>3, <3>4
  <2>4. QED
    BY <2>1, <2>2, <2>3 DEF IInv, Base, WorkersExact
<1>2. QED
  BY <1>1, Invariant, PTL

\* Registry and memory agree and have the configuration the operator chose, through failed
\* enables, updates, rollbacks and restarts; the worker has it too, unless it was changed while
\* the plugin was being enabled.
THEOREM ConfigKeptEverywhere == Spec => []ConfigHonest
<1>1. IInv => ConfigHonest
  BY DEF IInv, Fine, Conf, Honest, StoredConfig, Reached, ConfigHonest, RegistryHonest, ConfigKept,
         ConfigReaches
<1>2. QED
  BY <1>1, Invariant, PTL

\* Between operations, disk and memory hold the last version, unless an update stopped between
\* its steps; and a complete copy is on disk wherever anything stops, until a plugin with
\* partial files is updated.
THEOREM UpdatesAllOrNothing == Spec => []FilesSafe
<1>1. IInv => FilesSafe
  <2>1. SUFFICES ASSUME IInv PROVE FilesSafe
    OBVIOUS
  <2>2. ASSUME NEW p \in Plugins \ interrupted, On(p) = {}
        PROVE  /\ plugin[p].dir = current[p] /\ plugin[p].bak = None
               /\ IF current[p] = None THEN plugin[p].run = None
                  ELSE plugin[p].run # None /\ plugin[p].run.version = current[p]
    <3>1. Filed(p) /\ \A c \in Calls : ~Updating(c, p)
      BY <2>1, <2>2 DEF IInv, Fine, On, Updating
    <3>2. QED
      BY <2>2, <3>1 DEF Filed, Loaded
  <2>3. UpdateAllOrNothing
    BY <2>2 DEF UpdateAllOrNothing
  <2>4. FilesSurvive
    BY <2>1 DEF IInv, Fine, Filed, FilesSurvive
  <2>5. QED
    BY <2>3, <2>4 DEF FilesSafe
<1>2. QED
  BY <1>1, Invariant, PTL
=============================================================================
