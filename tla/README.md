# Verification of the OpenWA gateway

OpenWA is a self-hosted WhatsApp HTTP gateway: a NestJS process that keeps one WhatsApp
engine per session, stores what it receives, and forwards it to webhooks, sockets, plugins
and integrations; a React dashboard is one of its clients.  This directory holds TLA+ models
of the parts of it that carry concurrency, failure and ordering, the TLC configurations that
check them on small instances, and theorems about them checked by TLAPS.

Paths in this text are relative to `src/src/`, those of the dashboard to
`src/dashboard/src/`; `session.service.ts` stands for `modules/session/session.service.ts`,
and so on.  `PROJECT.json` maps every definition to the lines it models.

## 1. Inventory

The process runs on one JavaScript thread.  What happens between two `await`s is atomic;
everything else interleaves: HTTP requests, engine callbacks, timers, queue workers, worker
threads.  That is the cut every model here makes: an action is what the code runs from one
await to the next.

| component | state | operations | talks to | what makes it hard |
|---|---|---|---|---|
| Session lifecycle: `SessionService`, the adapter's client | `engines`, `initializingSessions`, `stoppingSessions`, `reconnectStates` with their timers; `sessions.status`; per adapter a client and a status | start, stop, forceKill, delete, reconnect timer, engine callbacks, boot | engine adapters (calls down, callbacks up), events gateway, hooks | every handler awaits a browser for seconds; late callbacks of replaced adapters; timers that outlive their state; hanging `destroy()` |
| Baileys adapter | socket, status, reconnect timer and budget; the auth directory its successors share | initialize, connection updates, disconnect, destroy | session callbacks, file system | reconnects by itself; three awaits before a socket exists; the removal of dead credentials is not awaited |
| Inbound pipeline: limiter, deadline, message store, session store, LID index | slots and waiters, running downloads, stored protos, last messages, two indexes | an engine event, a download, eviction, learning a phone | engines, database | slots are handed over, not freed; downloads outlive their deadline; messages overtake each other |
| Message persistence: `MessageService`, message callbacks of `SessionService` | `messages`, reconcile timers, `reactionChains` | send*, receipts, inbound messages, history batches, reactions, revocations, session deletion | engine, hooks, webhook dispatch | receipts in any order, before the row knows its id; whole-row saves; duplicates; fail-open inserts |
| Bulk sending: `BulkMessageService` | `message_batches`, `processingBatches`, `inFlightBatches` | createBatch, the executor it leaves running, cancelBatch, boot | engine, messages table | the executor saves a whole row it read long ago, and so does a cancel; other replicas; restarts |
| Webhook delivery: `WebhookService`, `WebhookProcessor` | BullMQ jobs, `webhook_delivery_failures`, `lastTriggeredAt` | dispatch, queued and direct attempts, retries | Redis, hooks, receivers | an `add()` that rejects although the job exists; restarts; two ways that count attempts differently |
| Integration ingress: `IngressService`, `IngressEnqueueService`, `IngressProcessor`, `RedriveService` | `ingress_events`, BullMQ jobs, `KeyedAsyncLock`, `integration_delivery_failures` | ingress request, inline fallback, job, redrive | plugin workers, Redis | acknowledged before it is handled; order within a conversation; partial failure at every hand-over |
| Plugin lifecycle: `PluginsService`, `PluginLoaderService`, worker host | plugin directories and backups, `registry.json`, loaded plugins, hosts | install, enable, disable, uninstall, update with rollback, configure, shutdown, boot | hooks, workers, files | a worker that never answers; the shutdown passes the queue; a crash between two renames |
| Hooks: `HookManager`, the shim of a worker's subscription, worker host, capabilities | handlers per event, pending hook requests, counters of them and of calls | register, unregister, execute, hook answers, capability calls | every component above | iterates the live array across awaits; re-entry through another thread |
| Conversation mapping, handover gate | `conversation_mappings` (two unique keys) | upsert, handover, lookup | plugins | insert races; a lookup that is stale when used |
| Authentication: `AuthService`, guard; events gateway | `api_keys`, `pendingUsage`; sockets and their rooms | validate, create, update, revoke, delete; connect, subscribe, unsubscribe, emit | every request | whole-row save of a key read before an await; sockets outlive the decision that let them in |
| Dashboard: chat page | cached threads, their fetches, the bubble of a send, a socket and its subscription | open, send, switch sessions, socket events | HTTP interface, events gateway | the answer of a send, its echo, its receipts and a fetch in any order; events missed while not listening |
| Cache, shutdown, plugin storage and instances | Redis client, a flag, rows with one writer | get/set, drain, provision | | lazy connection |
| Pass-through modules (groups, contacts, labels, channels, status, catalog, templates), statistics, metrics, audit, settings, health, MCP tools, sales webhook | rows or nothing | one call each | engine | nothing of their own |
| Storage, media, SSRF guard, infra, Docker | files, containers | I/O | outside | no protocol of their own, except infra's data import (section 7) |
| Configuration, migrations, other pages of the dashboard, SDKs, scripts | | | | declarations and clients |

What each has to guarantee:

- *Session lifecycle*: one `start()` per session past its admission; never more sessions than
  the cap; a stop wins over the start it races; no engine runs without an entry in `engines`;
  only the registered engine turns a session ready; the stored status is honest at rest; every
  call returns, a hung browser included.
- *Baileys*: one live socket per session; exactly the reconnects allowed; an adapter that
  nothing will bring on says so; credentials go when their link does, and only then.
- *Inbound*: no slot is lost or doubled and nobody is forgotten; no more downloads than
  allowed; what overtaking messages leave behind is the newest; the store keeps the newest.
- *Message persistence*: a stored delivery status only advances; a receipt is not lost to the
  send it races; FAILED is only said of a send that failed; an inbound message is dispatched
  once, and is dispatched; concurrent reactions do not undo each other; a retired engine takes
  nothing on.
- *Bulk sending*: a cancelled batch stays cancelled; nothing is sent twice, across restarts
  too; the counters account for every message; COMPLETED means every message was tried; the
  cap counts exactly the running executors; no batch is left PROCESSING with nobody behind it.
- *Webhook delivery*: an event that was handed over is received or recorded as failed; the
  retry budget; no retry after a success; no failure record for a success; every delivery ends.
- *Ingress*: an acknowledged event is not lost; a job is handled once; a conversation is
  handled in order; every event settles.
- *Plugins*: a worker runs exactly for an enabled plugin; registry, memory and worker agree on
  status and configuration; an update takes place or does not; a copy of the files survives
  whatever stops; every operation returns.
- *Hooks, mapping*: each handler runs once per event; no plugin hears its own send; counters
  return to zero; a handover silences the other plugins and no upsert undoes it.
- *Authentication, gateway*: what an administrator decided of a key holds; uses are counted
  exactly; a socket joins only rooms its key may see.
- *Chat page*: a message is shown once and none that the page was told of is missing; ticks
  only advance; the page listens to the session it shows.

The hazards, each at the line where it bites and with the property that covers it, are the
`hazards` of `PROJECT.json`; the ones no property covers are in section 7.

## 2. Plan

Order: the session lifecycle first, since every other component hangs on which engine is
registered; then what leaves the process and must not be lost (bulk, messages, webhooks,
ingress); then the components around them; last the page that shows it all.

| step | module | state |
|---|---|---|
| 1 | `SessionLifecycle`, and the abstract `SessionSlots` it implements | checked; all but liveness proved, what needs it with reconnects off |
| 2 | `BulkBatch` | checked; all four properties proved |
| 3 | `WebhookDelivery` | checked; both safety properties proved |
| 4 | `MessageStore` | checked; all three safety properties proved |
| 5 | `Ingress` | checked; both safety properties proved |
| 6 | `Access` (keys, guard, events gateway) | checked; all three properties proved |
| 7 | `PluginLifecycle` | checked; all three safety properties proved |
| 8 | `HookDispatch` (hooks, worker host, capabilities, mapping, handover) | checked; all three properties proved |
| 9 | `BaileysConnection` | checked; all three safety properties proved |
| 10 | `Inbound` (limiter, deadline, message store, LID index) | checked; all three safety properties proved |
| 11 | `ChatView` (chat page, with the server as it sees it) | checked; all three properties proved |

How the modules fit.  `SessionLifecycle` assumes an adapter that reports its status through
callbacks and may be destroyed at any time; `BaileysConnection` models one such adapter and
is told to stop by a `SessionService` that makes the next adapter only afterwards.  `Inbound`
ends where a message is emitted and `MessageStore` begins there.  `HookDispatch` lets plugins
come and go as `PluginLifecycle` says they do.  `ChatView` takes from `MessageStore` the stages
of a row and its advancing status, and from `Access` the awaited subscription.  Each module
states as plain actions what it needs of its neighbour; `SessionSlots` is instantiated.

## 3. What is modelled

*Groups.*  A configuration names a few properties, each a conjunction of parts that belong
together (`Consistent`, `RowHonest`, `OnlyForward`, ...).  The parts are defined and explained
one by one above the group, and proved one by one where they are proved.

*Histories.*  A variable marked "(history)" is not in the code.  It records what a property
speaks of, or that something happened after which the code does not keep the property; each
such case is in section 6.

### 3.1 The session lifecycle: `SessionLifecycle`, `SessionSlots`

A *task* is the activation of one async method (start, stop, forceKill, delete, or the
executeReconnect a timer started), its `pc` names the await it is suspended in.

| variable | code |
|---|---|
| `engines` | the `engines` map (session.service.ts:101) |
| `initializing`, `stopping` | `initializingSessions`, `stoppingSessions` (124, 129) |
| `errors` | the keys of `sessionErrors` (110) |
| `reconnect` | `reconnectStates`: attempts, and whether its timer is pending (113) |
| `stray` | timers whose reconnect state was replaced: `start()` overwrites the state at 451 without clearing its timer |
| `row` | `sessions.status` in the database, `gone` once deleted |
| `owner`, `res`, `status` | of each adapter: the session its callbacks close over, what has become of its client, its own status field |
| `task` | the activations |

Abstractions: QR_READY and AUTHENTICATING are one value, no decision tells them apart; a
database write takes effect where it is issued (one SQLite connection executes them in
order), its rejection is a choice of its own where the code awaits it, the last write of a stop or
kill (`FinalWrite`) and the read of the post-init guard (`GuardRejects`) included; `findOne` at the head
of a handler is folded into the request; an adapter that nothing refers to any more may be
reused, since every later callback of it is dropped by `isLiveEngine`; the adapter is the
whatsapp-web.js one.  The recovery of a stuck pairing is one step up to its teardown; a late
`authenticated` event of a client that is already ready is left out, nothing depends on it;
autostart calls `start()` and adds nothing.

`Serial` are the sessions whose clients wait for an answer before they send the next call of
the session; `NoOrphan` and `RowHonest` speak of those (section 6 says what races do).
`SessionSlots` says what the concurrency cap promises with no mention of engines or awaits;
`SessionLifecycle` refines it (`ImplementsSlots`) with `held <- Occupied`, and with that never
exceeds the cap.

### 3.2 Bulk sending: `BulkBatch`

| variable | code |
|---|---|
| `row` | `message_batches`: status and the counters |
| `flag` | `processingBatches`: absent, `true`, or `false` (cancelled) |
| `inFlight` | `inFlightBatches` |
| `pc`, `mem`, `seen` | the executor: its await, the batch object it holds, the status it re-read |
| `cancel` | each cancelBatch request: its await, the row it read, whether another replica serves it |
| `delivered`, `interrupted`, `overridden` | history: what was sent; what cut a batch short, a boot or a fault of its executor; answered cancels of a PENDING batch that its executor wrote over |

The executor is one action per await: load, save of PROCESSING, engine lookup, one send per
message, the re-read and the save at the progress cadence, the final re-read and save.
TypeORM's `save()` reads the row and writes what differs, or inserts the row if it is gone;
that is one step here, and the insertion is modelled: a batch that outlives its session comes
back (`DeleteSession`).  Payload, templates and pauses are abstracted; a send succeeds or fails.
`CancelHolds` is about cancels that the executor's own process serves and that nothing cut
short: another replica does not see the flag.  A cancel of a batch that is still PENDING is
accepted, as in the code, and the PROCESSING save of its executor writes over it: such cancels
are `overridden`, and `CancelHolds` and `CountersAddUp` excuse them (section 6).  `cancelBatch`
lowers the flag and saves in one step, and the save may reject after the flag is lowered: what
falls into that one await is left out (section 7).  `Remote` are the cancels served by another
replica; `Faults` and `Crashes` switch on rejecting writes and restarts.

### 3.3 Webhook delivery: `WebhookDelivery`

A delivery is an event and a webhook that matches it.  It can take two *ways*, `queue` and
`direct`, and takes both when `add()` rejects although Redis has the job: that is why `path`,
`posts` and `ok` are kept per way.  `dispatch` is the await of `WebhookService.dispatch`; each
way goes through waiting, POST, the write of `lastTriggeredAt`, the failure row, and on to the
next attempt or the end.  The `lastTriggeredAt` write stands inside the `try` around the POST, so
its rejection is a failed attempt (`Stamped`); `unstamped` are the acknowledged ways whose note was
lost that way or to a restart, `unrecorded` the ways whose failure row could not be written.  A
payload that a plugin made impossible to serialize ends the delivery before its first POST
(`poisoned`): `JSON.stringify` stands outside the `try`.  A restart (`Crash`) ends direct ways and
gives active jobs back, at most `MaxStalls` times, as BullMQ does; past that BullMQ fails the job by
itself.  Filters,
signatures, headers and the guard on target addresses are left out.  Not modelled: an `add()`
that rejects first and reaches Redis later.

### 3.4 Message persistence: `MessageStore`

Rows of `messages` come in two kinds: the one `saveOutgoingMessage` makes before the engine has
an id (`api`), and the one that is inserted under the engine's id by an inbound message or a
history batch (`copy`); the unique index on the id couples them (`Known`).  `ent` is the entity
a send holds in memory and saves whole.  A receipt runs the guarded UPDATE of `onMessageAck`
and, when no row matches, leaves a reconcile timer (`retry`); the UPDATE, and that of the timer,
may reject, which `onAckError` only logs.  An inbound message is handled in three steps: its hook,
after which `isLiveEngine` is looked up (747); its insert (756), stored, found to be a duplicate, or
failed; and its dispatch (769), without another look.  `hooks`, `inserting` and `due` count the
handlers of a message that stand in each.  A history batch is its SELECT and its INSERT OR IGNORE;
reactions to a message queue in `reactionChains`, each reads the row and saves it whole.  The
instance has receipts, a revocation and reactions come to the same sent message.

One life of one engine is modelled: `Retire` is the moment `isLiveEngine` turns false, and the
session may be deleted at any time.  `RetiredIsSilent` is what the code keeps: a retired engine
takes no further message on, while those already at their insert are still dispatched.  `lost`
(history) are the sent messages one of whose receipts was lost (section 6), and `unsaved` counts
the dispatches whose insert had failed.  Removing a reaction is one more reaction.

### 3.5 Ingress: `Ingress`

| variable | code |
|---|---|
| `recorded` | `ingress_events`, unique by plugin, instance and delivery id |
| `request` | the await of the request that recorded the event: `queue.add`, the inline dispatch |
| `queue`, `taken`, `kept` | BullMQ: unfinished jobs in order, the ones a worker runs, the ids it still remembers |
| `line` | the chains of `KeyedAsyncLock`, as one sequence; a job has its turn when nothing with its key is ahead |
| `failing`, `settled` | the processor's await of the failure row; a processor that is through and whose job has not been ended in Redis |
| `rows` | `integration_delivery_failures` |
| `redrive` | a `redriveInstance` call: rows ahead, row in hand, await |
| `dropped` | history: the events the code lets fall, see section 6 |

A job is a delivery, or the replay of one of its failure rows, whose id is the row's.  A
repeated delivery is answered without a change of state, and so is no action.  A disabled queue
is the case of `RequestFallsBack` that leaves Redis alone.  `Crash` assumes of the queue, which is
not in this repository, that jobs which were active at a restart come back at the place they had.  The model covers the time for which
Redis remembers finished jobs (an hour, a thousand jobs); what a plugin does with an event is
success or failure, a timed-out dispatch being a failure.

### 3.6 Keys and sockets: `Access`

| variable | code |
|---|---|
| `row` | `api_keys`: active, `allowedSessions`, usage count, last use |
| `pending` | `pendingUsage` of `AuthService` |
| `call` | each request, connection, subscription, or administrator's call, with the key entity it read |
| `socket`, `auth`, `rooms` | the gateway's sockets: closed, connecting or open, `client.data.rawApiKey`, joined rooms |
| `clock` | time, in windows of `STAT_FLUSH_INTERVAL_MS` |
| `decided`, `tally` | history: what administrators last made of a key, the uses that ought to be on the books |
| `crossed`, `raced` | history: keys an administrator, or anybody, wrote while another call held them |

An operation is cut at its read of the key and its write.  `repository.save` leaves the row
equal to the entity in hand and inserts it when the row is gone.  What a validation refuses for
(address, expiry, role) beyond activity and scope is one free choice.  A restart loses calls,
sockets and pending uses, and seeds a key when there is none.

### 3.7 Plugin lifecycle: `PluginLifecycle`

| variable | code |
|---|---|
| `plugin` | per id: the directory and its backup, the entry of `registry.json`, the loaded instance, the `enabling` lock, the sandbox host, the workers whose hooks are registered |
| `worker` | worker threads: alive, the configuration they were given, whether they subscribed |
| `call` | enable, disable, uninstall, update, and the shutdown's disables, each at its await |
| `closing` | what `onModuleDestroy` has still to disable |
| `current`, `chosen` | history: the version last installed or updated to, the configuration last chosen |
| `interrupted`, `patched`, `missed` | history: see section 6 |

`PluginsService` runs the operations on one id one after another; the shutdown's disables pass
that queue and may meet one of them at any await.  A worker answers `onLoad` and `onEnable`, or
throws, exits, or does neither, in which case the host's time limits end the wait.  An update
renames the directory, writes the new one, loads and enables it, and rolls back when that
fails; the process may die between any two of these, inside a stretch without awaits too.
Removals by a rollback are assumed to succeed.  Built-in engines, which run without workers, are
left out; what a plugin is activated for has the shape of its configuration and is not kept
twice.

### 3.8 Hooks, workers, handover: `HookDispatch`

| variable | code |
|---|---|
| `hooks` | registrations per event, sorted by priority |
| `host`, `worker`, `active` | `sandboxHosts`, the workers, what the operator activated |
| `exec` | executions: the array the loop runs over, the index it is at, the await, the host that was asked |
| `inFlight`, `capsIn` | the counters of `PluginWorkerHost`: unanswered hooks by event, running capability calls |
| `cap` | capability calls: sends, upserts, handovers |
| `state`, `recent` | `conversation_mappings` of one chat: its handover state per plugin, by `updatedAt` |

The loop of `runHandlers` reads the manager's array at every turn.  `unregisterPlugin` makes a new
array, `register` inserts into the old one: `list` is the array once it is no longer the
manager's.  A hook request ends by its answer, its time limit or the worker's exit; a request
to a host that is gone waits its full time limit.  A closed conversation is to the gate what a
human's is.  `unregister(hookId)` has no caller and is left out.  A reverse-key conflict of an
upsert ends the call with an error.  What handlers do to the data is left out.

### 3.9 The Baileys connection: `BaileysConnection`

| variable | code |
|---|---|
| `adapter` | per adapter: status, `intentionalStop`, the await of its connect, the credentials it read, the attempts, the timer, its socket, a QR being rendered |
| `socket` | the sockets of the library: connecting, paired, open or ended |
| `dir` | the credentials in the session's auth directory |
| `paired`, `revoked` | links made with the phone, and those it removed |
| `wipes` | removals of the directory under way |
| `told`, `unwiped` | history: links an adapter saw logged out; a removal failed |

Successive adapters of a session share the directory; an adapter is made only once the one
before was told to stop, as `SessionService` does.  `saveCreds` is taken to be at once.
`logout()` has no caller; the hydration of names is left out.

### 3.10 Inbound messages: `Inbound`

| variable | code |
|---|---|
| `engine`, `kind` | which engine, and what the messages are: media, text, reaction, or the event of a sent one |
| `active`, `waiters`, `holding` | `ConcurrencyLimiter`: its count, its queue, who has a slot |
| `at`, `download` | where a message's processing and its download stand |
| `last`, `lidToPn` | the session store: newest message of the chat, phones behind privacy ids |
| `lidToPhone`, `phoneToLids` | `LidMappingStore` and its reverse index, which all sessions share |
| `rows`, `puts`, `clock` | `baileys_stored_messages`, puts under way with their cutoff, `createdAt` |
| `order`, `loose`, `unevicted` | history |
| `returned` | messages whose send has returned, before or after their event |

Under Baileys the whole processing of a message is a task of the limiter, under whatsapp-web.js
the download alone.  A put is an upsert, the read of the cutoff and the delete.  `Remember` and
`Index` are those of `LidMappingStore`: a changed phone alone is indexed, the reverse entry goes
only under the phone that was stored before, and a null phone is taken; other sessions tell the
index at any time (`SharedRemember`).  Not modelled: its preload at boot, the table behind the LID index (its failing writes are swallowed), the buffer of history
messages, ephemeral timers, contacts and chats, the clearing of a session's store.

### 3.11 The chat page: `ChatView`

| variable | code |
|---|---|
| `selected`, `active` | `selectedSessionId`, `activeChat` (Chats.tsx) |
| `thread` | the React Query cache: the bubbles of each chat, or none |
| `load` | the fetch of a thread: asked, rows read or refused |
| `sending` | `sending`, with the message whose answer is awaited |
| `online`, `up` | the socket, and subscription requests on their way |
| `joining`, `joined` | at the gateway: subscriptions whose key is being validated, rooms joined |
| `wire` | events on their way to the page |
| `at`, `announced`, `acked` | the server: what became of a message, whether its event was emitted, its receipts |
| `landed`, `missed` | history: threads that hold what the database was asked for; messages whose event did not get into a thread or overtook its fetch |

A bubble is identified by the WhatsApp id, by the row's own id when there is none, or by the
placeholder's (`temp_` and the time: a message is one attempt to send, and no two placeholders
share an id); positions, content, reactions and revocations are left out, as are the sidebar,
attachments and scrolling.  The engine's history of a chat is any part of what the engine has by
the time the fetch ends, and counts as read.  Events are delivered in any order, which is more
than a socket does.  A subscription is refused by a disconnect, which can happen at any time;
the list the page chooses sessions from is scoped to its key.

## 4. Runs

Bounds are the CONSTANTS of each `.cfg`; where a guard caps a counter the constant is named
"bound" in its module.  Deadlock is checked in the lifecycle runs and that of the chat page; the
other systems may stop (every batch, message, delivery or event is over, every bound is spent),
so their runs say `CHECK_DEADLOCK FALSE`.

| run | instance | properties | states |
|---|---|---|---|
| `LifecycleReconnect` | one session, two adapters, two activations, one reconnect attempt, throwing constructors, writes and reads | `Consistent` (types, reservations), `ReadyIsRegistered` | 801,385 |
| `LifecycleStarts` | two sessions, one of them called serially, a cap of one, two calls at a time, restarts, reconnects off, fairness | `StopHolds`, `BooksHonest` (no orphan, honest row), `ImplementsSlots`, `EveryCallReturns` | 171,646 |
| `BulkRows` | two batches of three messages, cap of one, cadence two, one of which stops on errors, a cancel from either replica at any time, faults, restarts | `Consistent`, `RowHonest`, `NoResend`, `CancelHolds` | 3,993,831 |
| `WebhookDeliveries` | two deliveries, one worker, two attempts, two restarts, rejected writes, fairness | `FailuresTold`, `AttemptsExact`, `EveryDeliveryEnds` | 1,160,069 |
| `MessageRows` | one message out, with receipts, a revocation and two reactions; one in, fired twice and in a history batch; faults, retirement, deletion | `OutcomeShown`, `InboundOnce`, `OnlyForward` | 2,816,505 |
| `IngressEvents` | two events of one conversation, two workers, outages, faults, a redrive, a restart, fairness | `NoSilentLoss`, `OnceInOrder`, `EveryEventSettles` | 502,542 |
| `AccessKeys` | one key, two calls at a time, one socket, a scoped and an open list of sessions, three uses, two flush windows, a restart | `Consistent` (types, usage), `ChangeHolds`, `JoinsWithinDecision` | 2,322,416 |
| `PluginLifecycle` | one plugin in two versions, three operations, two at a time, three workers, the shutdown, a crash anywhere, fairness | `WorkersExact`, `ConfigHonest`, `FilesSafe`, `CallsReturn` | 291,962 |
| `HookDispatch` | two plugins that come and go, an event and the sends it causes, two capability calls | `EachOnce`, `RightPlugins`, `UpsertKeepsHandover` | 996,198 |
| `BaileysConnection` | two adapters after each other, two sockets, two links, two reconnects, fairness | `OneSocket`, `StatusHonest`, `CredentialsFollowLink`, `Settles` | 422,409 |
| `Inbound` | three messages in three mixes, one slot, one stored message, a phone that changes, is dropped and changes back, fairness | `LimiterExact`, `UpToDate`, `StoreExact`, `EveryMessageEnds` | 282,375 |
| `ChatThreads` | two sessions, a chat of one, a message out and one in, two subscription requests at a time | `ThreadsConsistent` (types, shown once), `KeepsUp`, `TicksAdvance` | 498,444 |

Why the bounds are enough.  Every race in these components is between two activations on the
same row, map entry or file, so two of them (two calls, two batches, two deliveries, two
events, two adapters) and one or two of what they share show every pair; a third activation
only repeats a pair, since a handler looks at no more than its own key.  A cap of one is reached
by two.  Retry budgets and cadences are small enough that the last attempt, and a save in the
middle, both occur; two reconnects tell the first from the last.  Three messages are the least
in which one is parked while another is handed its slot and a third overtakes them, and a phone
changes back.  One restart per instance separates "before" from "after"; a second one matters
only to BullMQ's stall limit, and the webhook run has it.  In the run of the chat page the two
requests never let a change of session overlap one that is still open: quick changes of session
are covered by the theorem (`ThePageKeepsUp`, for any number of requests), and a run with a third
request, as one with a chat in a second session, took longer and found nothing else.  Adapters, activations, executions and calls
are interchangeable and used as symmetry sets, in runs without liveness properties only.

Mutants.  Each property of a run has a variant of one definition that breaks it, written next to
the definition it varies and marked "Variant": a dropped check, an off-by-one, a lock that is
kept, a write that is skipped.  A group has one such variant, which breaks one of its parts; a part
that is not named in it has none.

Fairness.  The code's handlers run until they return: the event loop resumes an activation when
what it awaits settles, so each activation that can go on does (weak fairness per task,
request, job).  What they await is bounded by the code itself:

- `teardownEngineSafely` races `destroy()` against a timeout, `client.initialize()` has its own;
- a webhook POST and a plugin dispatch have timeouts, a redis command of the producer fails fast;
- the worker host gives load, enable and disable a time limit and waits for a termination; what
  a worker answers is *not* fair (`PluginLifecycle`);
- Baileys gives an attempt to connect a time limit, timers fire, a QR is rendered: the outcomes of
  a socket that is not open are fair, what happens to an open one is not (`BaileysConnection`);
- the deadline of a download fires; a Baileys download itself may hang for ever.  A download of
  whatsapp-web.js cannot be aborted, and is taken to end (`Inbound`; section 6 says what happens
  otherwise).

Nobody has to call, cancel, deliver, crash or redrive: those actions carry no fairness.  Webhook
deliveries share workers, but all that is assumed is that the process goes on while any of them can
(weak fairness of all their steps together): every step brings some delivery nearer to its end.
Waiting for the *user* (a QR code to be scanned) is not fair, and no property needs it.
`HookDispatch`, `Access`, `BulkBatch`, `MessageStore` and `ChatView` have safety properties only.

## 5. Proofs

Checked by TLAPS, for every value of the constants that the modules' ASSUMEs allow.

| module | theorem | for all | assumes |
|---|---|---|---|
| `SessionLifecycleProofs` | `Consistency` (`TypeCorrect`, `ReservationIsExact`) | sessions, adapters, activations, attempts, caps, faults | |
| | `ReadyByItsEngine` | the same | |
| | `StopsHold`, `PoolOfSlots` (the refinement of `SessionSlots`), `NoAdapterOrphaned` | the same | no reconnects (`MaxAttempts = 0`) |
| | `BooksAreHonest` | the same | no reconnects, no failing create or write (`~Faults`) |
| `SendingProofs` | of `BulkBatch`: `RowsAreHonest` (`CountersAreExact`, `CompletedIsComplete`, `ProcessingHasAnExecutor`), `NothingIsResent` | batches, sizes, cadences, caps, cancels at any time, faults, restarts | |
| | `CancelIsKept` | the same | |
| | `Consistency` (`TypeCorrect`, `InFlightIsExact`) | the same | finitely many batches |
| | of `ChatView`: `ThreadsAreConsistent`, `ThePageKeepsUp`, `TicksOnlyAdvance` | sessions, chats, messages, subscription requests, lost and reordered events, failing fetches | |
| `EventProofs` | of `WebhookDelivery`: `AttemptsAreExact` (`TypeCorrect`, `BudgetIsKept`, `SuccessIsFinal`), `FailuresAreTold` (`NothingIsLost`, `FailuresAreHonest`) | deliveries, workers, attempts, restarts, stall limits, faults | |
| | of `HookDispatch`: `EveryHandlerOnce`, `OnlyWhoItIsFor`, `OnlyHandoversHandOver` | plugins, priorities, workers, executions, capability calls and their limit | |
| `MessageStoreProofs` | `DispatchedAndOnce` (`DispatchedAtMostOnce`), `NothingIsTakenBack` (`RowsOnlyAdvance`, `RetiredTakesNothingOn`), `RowsTellTheOutcome` (`TypeCorrect`, `FailedIsHonest`, `NoReactionLost`, `ReceiptsLand`) | messages, senders, reactions, receipts, duplicates, faults | |
| `IngressProofs` | `NothingIsLost`, `OnceAndInOrder` (`TypeCorrect`, `HandledAtMostOnce`, `InOrder`) | deliveries, conversations, workers, rows, redrive calls, outages, faults, at most one restart | |
| `AccessProofs` | `DecisionsHold`, `UsesAreCounted`, `JoinsAreAllowed` | keys, calls, sockets, sessions, flush windows, restarts | |
| `PluginLifecycleProofs` | `WorkersAccounted`, `ConfigKeptEverywhere`, `UpdatesAllOrNothing` | plugins, versions, workers, activations, configurations, restarts | |
| `EngineProofs` | of `BaileysConnection`: `OneSocketOnly`, `StatusIsHonest`, `CredentialsFollow` | adapters, sockets, links, reconnects | |
| | of `Inbound`: `LimiterIsExact`, `StaysUpToDate`, `StoreIsExact` | messages and mixes of them, lids, phones, timestamps, limits | |

The assumptions leave out behaviours in which the property, or one its proof rests on, is false of
the code: section 6 lists them, each with the constant that brings it back.  Where a row assumes
nothing, the property itself names what it excuses, by the history variables of section 3: among
them cancels of a PENDING batch that were written over (`overridden`), receipts that were lost
(`lost`), acknowledgments whose note was lost (`unstamped`) and records that could not be written
(`Untold`).

*Reservations.*  `TypeOK` needs to know that an activation which launches or tears down holds an
adapter (`Holding`); the two together are inductive.  `ReservationExact` is inductive on top:
every action either leaves the set of running starts of a session alone, or adds or removes one
together with the reservation.

*Sessions without reconnects.*  `Quiet` says that no timer is pending and every activation is a
call; what is left to prove then is about calls.  `StopsEnd`: while an engine is registered for a
session that is marked as stopping, an activation of that session is past the point from which it
will take the engine out of the map, a teardown or a start that will find the mark.  For the slots,
every step but the admission of a start leaves the occupied sessions as they are or fewer; the
admission finds the count below the cap in the same synchronous block that adds to it.  For the
books, `Owned` says that the adapters in the map, and those in a handler's hand, were built for the
session they stand under, so that a handler of one session leaves the row and the adapters of
another alone (`Elsewhere`).  `Steady` then follows the one call that is out for a session called
serially (`Posed`: a start that has registered its adapter still finds it in the map, unmarked and
not deleted), and `RowKept` names the two places where the row may claim an engine that is gone.

*Ready.*  The rows that say READY never grow but in `EngineReady`: each way of writing a row is
shown to add none (`NoReadier`), so the step is that of the registered adapter.

*Bulk.*  `CountersAddUp` speaks of rows, but rows are overwritten from memory: the executor's
batch object and the snapshots of cancel requests.  `BatchInv` therefore says of the row *and* of
the executor's object that its counters add up (`Honest`), unless the executor wrote over a cancel
(`Overridden`), ties the object's counters to the position in the loop and to the messages
delivered, and says what a row may be before its executor runs, new or cancelled; `RequestInv` says
the same of a cancel's snapshot.  `TakesOver` is the step in which the executor writes over what
was cancelled before.
`InFlightExact` is a statement about a cardinality and is proved separately, one executor in or
out per step.  `CancelInv` follows an answered cancel through the executor that may still be
saving: its flag stands while the executor drives the batch, or the row is cancelled or gone,
or a boot or a fault cut it short.

*Webhooks.*  `WayInv` bounds the POSTs of a way by its attempt and its stalls, with one to spare
while a POST is still to come; `DispatchInv` ties the ways to the await of `dispatch`.  `SureWay`
adds that a way that succeeded can only go on to its end unless its note was lost, and that a
failed one has its record unless that could not be written or the queue gave it up.  The lemmas
`Replace` and `OneWay` say once that a step of one way leaves the others alone.

*Messages.*  A row with a known id is never inserted twice, so `Counted` bounds what was dispatched
or will be by it; a deletion in between allows one more.  `RetiredTakesNothingOn` needs no
more than that the handlers at their insert or dispatch are counted.  `RowsOnlyAdvance` needs the
shapes of the rows whole-row saves can hit: `Settled` for rows, `ApplyingSettled` for what a
reaction holds.  `StoreInv` has the rest.
`FailedInv`: a row, a send under way and the row in a reaction's hand say "failed" only of a message
that was refused.  `FollowInv`: a message that was fired, one that has a row, and one whose row a
reaction holds, is dispatched, awaits its dispatch, or has its excuse.  `ReactInv`: of the reactions
on a message one is at the table at a time (`OneWriter`), the others stand behind it in the order
they came (`Queued`), the row it holds is the one the table has (`ReadFresh`), and the last one done
is shown.  `AckInv`: each receipt that came is in the row, or in the retry that is still due, unless the
message is among those whose receipt was lost.

*Ingress.*  One invariant serves all of it.  `Taken` and `Ordered` say that the workers run a first
part of the queue, that the line of the lock holds exactly the running jobs that are still to be
dispatched, and that queue and line agree on the order: `ConversationInOrder` follows.  `Once`
counts: a job that was handled has settled or ended, or was handled before the last restart.
`NoSilentLoss` is not inductive, since a row is retired without a look at its replay: `Alive` is
the stronger statement that somebody has the event *and nobody is about to let it go* (a row
whose replay is over, or in the hand of a redrive call that will retire it, does not count), and
`Traced` that jobs and rows have a past, so that a new row is never one a replay has used up.  The
lemmas on sequences (`Removed`, `GrownQueue`, `GrownLine`, ...) say what adding and removing a job
does to order and membership.

*Keys.*  Whole entities are saved, so what holds of a row must hold of every entity a call has read
and may still write back.  An entity in hand carries the last decision unless an administrator's
write crossed the call (`HeldDecided`), *is* the row unless anybody wrote it since (`HeldIsRow`),
and in any case has no more uses than were made, the pending ones included (`HeldCounts`).  With
these, `ChangeHolds`, `UsageExact` and `NeverOvercounts` are inductive.  `JoinsWithinDecision`
follows from `HeldDecided` at the step that joins; `SameKey` says that the socket which joins has
the key of the call.

*The Baileys connection.*  `InTurn` is what `SessionService` grants: adapters
come up one after the other.  `Owned` and `OneThing` make it one socket: a live socket is that of
an unstopped adapter, which has then neither a connect under way nor a timer, and there is only one
unstopped adapter that is up (`OneUp`).  `Fine` ties the count of attempts to that of sockets: a
live socket stands for the last attempt counted, a connect or a timer for one still to be made, so
that a budget that is spent is spent exactly.  `DirFollows` says that the directory holds what the
live socket, or the connect under way, has read, or nothing; so a pairing finds it empty, and a
removal has seen a revoked link or none.  `Known` says that only paired links are in it.  `Alone`, `Moved` and `SocketMoved` are the three
kinds of steps: of an adapter, of an adapter and its sockets, of a live socket with its owner.

*Plugins.*  One invariant again, of which each plugin has its own part (`Fine`): a step of one plugin
leaves the others alone (`Still`, `SamePast`, `ElsewhereFine`), since a worker that is started is
nobody's and no two plugins share one (`Apart`).  `Hosted` ties the lock, the status, the host and
the hooks of a plugin to where its one call stands (`Tried`, `Halting`; `Alone` says there is one,
beside the shutdown's).  The shutdown passes the queue, so it may drop the host of a plugin that is
being enabled, or leave a call waiting for a worker that is gone; what it can never do is wait for
a worker that runs and is not the host.  From that the hooks are those of one worker at any time,
also when a plugin ends up enabled without a host.  `Conf` holds at every await because each way of
loading a plugin takes the configuration from the entry that was kept.  `Filed` says where the old
version is while an update runs, which is what a rollback, and a crash in it (`TornIs`), needs.
`QuietReturn` and `Launched` are the two ways every operation leaves its plugin.

*Hooks.*  `Track` follows a loop through the array it holds, with its position: whoever it was fired
for has run or is still ahead, and, unless a registration was sorted in among them, whoever has run
is behind.  The array itself is only known to be sorted and to have a plugin once, so `Position`
(what a push and a sort come to) and `Without` (the filter) each need their lemma on sequences
(`PositionDivides`, `Inserted`, `TrackInserted`; `LeftOut`, `TakenOut`), and with them a removal, which
gives the manager a new array, leaves the loop where it was.  `Wired` says that a plugin and its
worker are of each other and that who is registered is the plugin's host, so that an exit, which
frees nothing but the worker's own requests, can neither confuse two workers nor settle a request
twice: `Unanswered` and `Unended` are statements about cardinalities, one in or out per step, or all
those of one worker at its exit.  The echo is excluded through the counters: a call on behalf of a
hook of `message:sending` finds its worker's count above zero, so `CausedBy` has the call that fires
an event stand on behalf of another event, and `FiredBy` ties that call to its one execution.
`Told` says that the owner an event was fired with is still the chat's as long as no row of the
chat has been written, since every write clears it.

*Inbound.*  `LimiterInv` says of each message whether it has a slot, by where it stands (`Held`), that
the slots are the ones counted (`Counted`), and that the line has each parked message once, and is
empty unless every slot is held (`Parked`).  `Admitted` and `Released` are the two steps of the
limiter: a slot that is handed over leaves the count alone.  For `UpToDate`, `FreshKeys` says that
what a message has read of the index is of its own place in the order or of a later one, also
before it is emitted.  `ReverseExact` is inductive: what goes is the entry under the phone the id
had, and by the invariant there is no other.  For the store, `CutsAreOld` says that what an eviction will delete is still
older than `Limit` messages whatever was put since, and `Cared` that a store above its limit has an
eviction that has still to look, one that will delete enough, or one that failed last.  That a
finite set of ages has a smallest element is `WFMin` of the library.

*The chat page.*  `Whole` says that a thread holds its chat's messages, each key once, and a waiting
placeholder only of the send under way; every updater of a thread is shown to leave it whole and to
take nothing back (`Kept`): appending (`MergedWhole`), ticking (`TickedWhole`), failing
(`FailedWhole`), and the two ways of the race guard, which drops the placeholder exactly when the
echo is there (`DroppedWhole`) and otherwise renames it (`RenamedWhole`).  `RowsRead` says what a
fetch that has read its rows will put down, so that the thread it replaces need not be known
(`LandedWhole`, on the library's `SetToSeq`; the messages that have begun are finitely many).
`Followed` carries `NothingMissing` through a fetch: what was announced is shown, on the wire or
missed, in the thread, and also in the rows that will replace it.  `Subscribed` says that of the
requests still on the socket the last word about the session shown is a subscription, or there is
none against it and the session is joined or being joined; with no request left that is `Listening`.

Only model-checked: liveness (`EveryCallReturns`, `EveryDeliveryEnds`, `EveryEventSettles`,
`EveryMessageEnds`, `CallsReturn`, `Settles`), since liveness under fairness, ENABLED, induction
with an operator as a parameter and RECURSIVE operators are out of this prover's reach (no module
here declares one).

## 6. Where the code and what is said of it part

Met while modelling.  Where a property excuses a case, the history variable or constant is named
that brings it back.

*Sessions*
- A reconnect that awaits the teardown of the old engine drops the map entry of a newer one
  (session.service.ts:1140; the comment at 120-124 says the map is the single handle).  With
  `MaxAttempts = 1`, `StopHolds`, `NoOrphan` and `ImplementsSlots` fail: a reconnect frees its slot
  during a teardown, takes one back unchecked, and a stop in that time finds no engine to stop;
  attempts that run out leave the last timer pending.
- A reconnect whose `initialize()` fails schedules no further attempt (1165), although the comment
  above it counts on one and the adapter's failure leaves the status FAILED
  (whatsapp-web-js.adapter.ts:393-396, session.service.ts:1024).
- With both sessions outside `Serial`, `NoOrphan` fails (a stop followed by a start during the
  awaited INITIALIZING write) and so does `RowHonest` (a QR event while the guard tears an engine
  down writes QR_READY over the stop's DISCONNECTED).  With `Faults = TRUE` and one client, a QR
  event during the teardown of a delete whose transaction then fails does the same, so that
  `BooksAreHonest` assumes writes that succeed.

*Messages, bulk, webhooks*
- A reaction takes a delivery status or a revocation back, since it saves the row it read (1059);
  842-844 calls the guarded UPDATE race-safe at the database.  `RowAdvances` allows what such a
  save takes back (`Restores`), and nothing else.
- A receipt is lost (`lost`) in three ways: its UPDATE, or that of its one retry, rejects, which is
  only logged (session.service.ts:866-884); its send is saved later than the retry; or a reaction
  saves the row it read before the receipt (1059).
- `onMessage` looks once whether its engine is still the registered one (747), so an engine that is
  retired, or a session that is deleted, while the insert (756) is awaited still has the message
  dispatched (769), and leaves a row of a deleted session behind; the comment at 742-747 says why
  that must not be.  `RetiredIsSilent` allows those that were already at their insert.
- `cancelBatch` accepts a PENDING batch (bulk-message.service.ts:196), and its executor then sets the
  flag again and saves PROCESSING over the CANCELLED (216-219): the cancel is lost, against the
  comment at 33-34 ("Must win over the in-memory PROCESSING status").  Such cancels are in `overridden`; where the executor went on
  from cancelled counters, those need not add up either.  Two creates can both pass the check of the
  batch cap (135); a cancel writes back stale counters.
- The `lastTriggeredAt` write stands inside the `try` around the POST (webhook.processor.ts:83,
  webhook.service.ts:475), so its rejection retries a delivery that succeeded and in the end records
  it as failed (`unstamped`).
- A webhook delivery ends without a record when its failure row cannot be written (`unrecorded`),
  when BullMQ gives a job up that stalled too often, when the process dies with a direct delivery
  (`Untold`), and when `JSON.stringify` throws on what a plugin made of the payload
  (webhook.service.ts:447, `poisoned`).
- docs/06 says the delivery id of a webhook differs per retry; the code keeps it stable.
- A deleted session can be left with batch or message rows, inserted again by a save that was
  under way.

*Ingress*
- An event whose request dies before `queue.add` is answered "duplicate" when the provider retries
  it; one whose inline dispatch fails has no failure row, although ingress-enqueue.service.ts:66-68
  counts on a redrive, which reads nothing else (both are in `dropped`).
- Inline dispatches do not take the conversation's lock; jobs have a single attempt, so the retries
  the comments mention do not happen; a job id is the provider's delivery id, whichever instance
  it is for; the replay's id `redrive:<row>` is one that current BullMQ refuses, which sends every
  replay inline.

*Keys and sockets*
- A validation whose flush is due saves the whole key it read before its await
  (auth.service.ts:253): a revocation, a narrowed scope or a deletion in between is undone
  (`crossed`), against docs/06-api-specification.md:3309 "After revoke, the key fails validation";
  two flushes that read the same count lose one (`raced`).
- A socket whose `subscribe` comes while `handleConnection` still awaits the key has no
  `rawApiKey` yet and is disconnected as if its key were invalid (events.gateway.ts:157-168,
  `SubscribeEarly`).  The dashboard subscribes as soon as it is connected, and a client of
  socket.io does not reconnect by itself after the server has disconnected it.

*Plugins*
- A configuration that changes while the plugin is being enabled never reaches its worker
  (`missed`).
- After a crash in the middle of an update, the next update removes the backup, which is then the
  only whole copy (`patched`); a rename that throws outside the `try` leaves the plugin unloaded
  (`interrupted`).
- A handler that is registered ahead of the loop while an event is on its way makes the loop run a
  handler twice (`moved`): the loop reads the live array by index.

*Baileys and inbound*
- During the backoff of a reconnect the status stays READY though the socket is dead; a QR that
  is rendered late overwrites READY, FAILED or DISCONNECTED with QR_READY (`late`); a connect that
  fails puts FAILED on an adapter that was stopped.
- The removal of dead credentials may take those of the next pairing (`LivingCredsStay` excuses a
  removal asked for before the pairing).
- A Baileys download whose deadline comes before its stream is open goes on outside the limiter's
  bound (`loose`), against baileys.adapter.ts:116-118.
- A download of whatsapp-web.js that never ends holds its slot for ever, and messages parked behind
  it are never emitted.
- Messages are emitted out of order when a download is overtaken.

*Chat page*
- A send whose thread is not cached, because its fetch failed or has not landed, makes an empty
  one that counts as fresh (`Cached`: `prev = []` in `handleSend`, and so in `updateMessage` and
  the reaction), so the history is never loaded; useChatMessages.ts:55-58 says not to do so.
- An event that comes after the rows of a fetch were read and before it lands is lost until the
  thread is evicted; so are events while the socket is down, and events of a session that is not
  selected, against Chats.tsx:230 "keeps non-active chats up to date" (all in `missed`).
- A fetch that lands while a send is under way drops its placeholder.  A row read while it had no
  id, and its echo, show one message twice, the row as pending for ever (`ShownOnce` is about one
  kind of id).  A receipt that comes before the placeholder is renamed is lost.
- An answer of `loadChats` that comes late shows another session's chats; `message.revoked` is
  matched by an id that on whatsapp-web.js is the notification's own.

## 7. Not modelled

The components of `PROJECT.json` with status `not_modelled`, each with its reason: pass-through
modules, audit, statistics and settings have no protocol of their own; storage, media, the SSRF
guard, Docker and infra are I/O and data conversion; configuration, migrations, the other pages of
the dashboard and the SDKs are declarations and clients.  Together they are most of the
repository's lines: adapters that translate calls and messages for a library, controllers and
DTOs, pages and forms.

Within the modelled components: message content, formatting, media and typing simulation;
queries; signatures, filters and headers; rate limits; provisioning of plugin instances; status
broadcasts and their de-duplication; message history calls to the engine.

Hazards of this code that no property covers:

- the cap on running batches is checked two awaits before the counter it reads is raised
  (bulk-message.service.ts:135);
- a save under way when a session is deleted inserts its row again (session.service.ts:392,
  message.service.ts:483);
- the delivery id alone is the job id, and two instances may receive the same one
  (ingress-enqueue.service.ts:41); a replay's job id has a colon (redrive.service.ts:31);
- `cancelBatch` lowers the flag and then awaits its save (bulk-message.service.ts:201-209), which is
  one step in `BulkBatch`: an executor that takes the batch over within that await sets the flag
  again, and a save that lands later still may fall between its re-read and its save (308, 314);
- a `postMessage` that throws (plugin-worker-host.ts:127) would leave a hook's counter up until the
  time limit: what is posted there is plain data from the hook's context, and `Dispatch` takes it
  to be posted;
- registrations of a plugin whose enable failed (plugin-loader.service.ts:376);
- with reconnects on, the cap and the slots (session.service.ts:1140);
- infra's data import runs in a transaction on SQLite's one connection, which other writers share
  (infra.controller.ts).
