# A verification project for wazo-webhookd

wazo-webhookd lets users and administrators of a Wazo platform *subscribe* to
events of the platform's message bus: whenever a matching event passes on the
bus, the daemon runs a *hook*, i.e. it calls an HTTP endpoint or pushes a
notification to a mobile phone.  This directory holds TLA+ models of that
daemon, the TLC runs that check them on small instances, and proofs, checked by
TLAPS, of what holds on instances of every size.  Paths below are relative to
the repository; `bus.py` alone is `wazo_webhookd/bus.py`, and
`subscription/bus.py` is `wazo_webhookd/plugins/subscription/bus.py`.

    tlc -config registry.cfg MCSubscriptionRegistry.tla     # one run
    tlapm SubscriptionRegistryProofs.tla                    # one set of proofs

## 1. The system

| Part | State | Operations | Talks to |
|---|---|---|---|
| Subscription service (`subscription/service.py`, `http.py`) | rows of `webhookd_subscription` and their events, options, metadata; the log of hooks | create, update, delete, list, get; `create_hook_log`; removal of a deleted user's or tenant's rows | the handler below through an in-process `Pubsub`, in the middle of the transaction; the notifier, which publishes on the bus |
| Subscription bus event handler (`subscription/bus.py`) | `_subscription_callbacks` under a lock | `on_subscription_created/updated/deleted`, `subscribe` (at the start), `_callback` | the consumer (`subscribe`, `unsubscribe`); Celery (`delay`) |
| Bus consumer and exchange (`bus.py`) | handlers per event, bindings of its queue; the events its auto-delete exchange is bound to | `subscribe`, `unsubscribe`, reconnection and declaration, dispatch of a message | RabbitMQ |
| Hook runner (`subscription/celery_tasks.py`) | Celery's queue, what each worker runs, the log | `hook_runner_task`: attempt, log, retry | the services; the database |
| HTTP and mobile services (`services/`) | none | `run`: one attempt at a hook | endpoints, wazo-auth, FCM, APNs |
| Mobile subscriptions (`services/mobile/plugin.py`) | rows with metadata `mobile: true` | `on_external_auth_*` | the subscription service |
| Notifications (`plugins/mobile`) | tasks in Celery's queue | `POST /mobile/notifications`: check the user, queue a push | wazo-auth; the workers the hooks use; FCM, APNs |
| Controller and daemon (`controller.py`, `bin/daemon.py`, `celery.py`, `rest_api.py`, `auth.py`) | the main thread and what it has started: the Celery process, three contexts with their threads, the REST server, a thread per signal; the master tenant | start, token renewal, stop, failure | all of the above; systemd |
| Configuration (`plugins/config`) | the debug flag, the level of the root logger, a lock | GET and PATCH `/config` | requests that overlap |
| Synchronisation, purge, status | | `bin/sync_db.py`, `database/purger.py`, `plugins/status` | the database, wazo-auth |

Where the behaviour is hard:

* **Three copies of one truth.**  A subscription exists as a row, as an entry of
  `_subscription_callbacks`, and as handlers and bindings of the consumer.  A
  request changes the three one after the other, in the thread of the request,
  with a lock that covers only the middle copy and a transaction that covers
  only the first.  `Pubsub` swallows what the handler raises, the notifier runs
  after the handler and may roll the row back.
* **Start-up.**  The handler can register the rows only when the token renewer
  has a token, in a thread of its own, while the REST API may serve already.
* **At most once, but retried.**  Celery acknowledges a task before it runs, and
  `hook_runner_task` chains attempts by queueing itself again, with two limits
  (`hook_max_attempts` and Celery's `max_retries`) that have to agree.
* **Whose rows.**  Rows name users and tenants of another service, wazo-auth.
  Their removal and the registration of phones arrive as events; a handler lists
  rows first and writes them one by one, while clients write them too; the events
  are lost while the daemon is stopped, and a script, `sync_db`, sweeps up what
  they missed from lists it has read at different moments.
* **A pool of five.**  Hooks and notifications share at most five workers
  (`worker_max`), and the client of FCM sleeps in one for as long as FCM says.
* **Start and stop.**  The main thread spawns Celery first, enters its contexts
  one by one, serves until a thread that a signal started stops the server, and
  unwinds in reverse.  Each of these steps may raise or be overtaken by another
  signal, and a process that neither serves nor ends is the one failure that
  systemd cannot repair.
* **Reconnection.**  RabbitMQ forgets the bindings of an auto-delete exchange;
  `WebhookdExchange` keeps them in a set that other threads add to while the
  consumer iterates over it.

## 2. The modules

| Module | Models | State and actions against the code |
|---|---|---|
| `EventRouting` | `_build_headers`, `_handle_tenant_events`, `_check_headers_match` | pure operators |
| `SubscriptionRegistry` | `SubscriptionService` create/update/delete, `SubscriptionBusEventHandler`, the parts of `ConsumerMixin` they call | one thread per request plus `Boot`.  `CreateFlush`, `UpdateGet`, `UpdateFlush`, `DeleteGet` are the transaction up to the `publish`; `Created`, `Updated`, `Deleted` what runs under the handler's lock; `Turn` one turn of a loop over events and `Subscribe`, `Unsubscribe` the two consumer calls it makes; `Commit` and `Rollback` the end.  `BootList`, `BootRegister`, `BootEnds` are `SubscriptionBusEventHandler.subscribe` |
| `MirroredDirectory` | what the registry promises | abstract specification: a mirror never more than one change ahead of its directory |
| `HookRunner` | the consumer's dispatch, `_callback`, `hook_runner_task`, `create_hook_log` | `Dispatch`, `Callback`, `Ack` are the consumer's thread; `Take`, `Run`, `Log`, `Retry` a Celery worker; each has its failing counterpart |
| `HookOutcome` | `services/helpers.py`; which calls `services/http` and `services/mobile` (APNs with its tokens, FCM with its client) make, which answers they can get, and how each ends the attempt | pure operators |
| `WorkerPool` | `plugins/mobile/http.py` and `celery_tasks.py`, `do_request` of the FCM client; extends `HookRunner` | `Verify`, `Publish` are the request, `TakeNote`, `Push` the task, `Wait` and `Wake` the sleep of the client in whatever task calls it; a worker that pushes or waits takes no step of `HookRunner` (`Awake`) |
| `ConfigService` | `plugins/config` | `PatchAsks` … `PatchAnswers` are the steps of a PATCH between two acquisitions of the lock; included in `Daemon` |
| `Daemon` | `bin/daemon.py`, `controller.py`, `celery.py`, `rest_api.py`, `auth.py`, and systemd as `debian/wazo-webhookd.service` configures it | `main` says where the main thread is: `Spawn`, `Loaded` are `Controller.__init__`; `Enter`, `CreateServer`, `StartServer`, `ServerReturns`, `Leave` the with-statement of `run`; `Terminate`, `Join`, `JoinStopper` its `finally`; `Exit` the interpreter, which waits for what is left.  `Signal` and `Stop` are `stop` and its thread, `NewToken` and `Notify` the token renewer and its callbacks, `Launch`, `Restart`, `CleanUp` systemd; `CeleryEnds` is Celery's warm shutdown, which `Hold` and `Release`, the sleeps FCM asks its workers for, put off |
| `HookDelivery` | what the runner promises for one hook | abstract specification: attempts in order, bounded, none after the end |
| `BusConsumer` | `bus.py`: `WebhookdExchange`, `BusConsumer` | the consumer's thread (`Connected`, `DeclareBinding`, `DeclareEnds`) against the clients that subscribe (`Running`, `NotRunning`, `Open`, `Bind`, `Add`) and unsubscribe (`Unsubscribe` pops the subscriptions, `UnsubscribeEvent` is one turn of the loop over their events) and RabbitMQ (`Stops`, `Starts`) |
| `SubscriptionOwners` | `subscription/http.py`, the removals of `subscription/service.py`, the upkeep of mobile subscriptions in `services/mobile/plugin.py`, `bin/sync_db.py` | `UserPost` … `Delete`, `Commit` are the clients; `Take` is the consumer giving an event to its handler, which first lists (`Ensure`, `ListMobile`, `ListTenant`, `ListOwner` and `ListWatching`) and then writes a row at a time (`CreateMobile`, `DeleteNext`); `SyncTenants`, `SyncUsers`, `SyncRemove` are the script; `RegisterPhone` … `RemoveTenant` are wazo-auth |
| `MC*` | small instances | constants only |
| `SubscriptionRegistryProofs`, `SubscriptionOwnershipProofs`, `SubscriptionMirrorProofs`, `HookRunnerProofs`, `WorkerPoolProofs`, `SubscriptionOwnersProofs`, `BusConsumerProofs`, `DaemonProofs` | theorems | see section 5 |

`PROJECT.json` maps every definition to the lines it stands for.  A definition
that carries the comment "Mutant" is a plausible bug in the definition after it;
no specification uses it, and substituting it makes the property that is named
for it in `PROJECT.json` fail.

External behaviour that the models rely on, because its code is not in the
repository: `Pubsub.publish` logs and swallows exceptions; `ConsumerMixin` of
wazo_bus keeps handlers per event and unbinds on `unsubscribe`; RabbitMQ keeps
one binding for equal arguments; PostgreSQL makes a second writer of a row wait
for the first; Celery acknowledges early (`task_acks_late` is not set) and
raises `MaxRetriesExceededError` beyond `max_retries`; wazo-auth and wazo-confd
publish the removal of a user, and of its phone, as they happen, and the
consumer's queue is deleted with the consumer.  `SubscriptionOwners` further
takes an update or a delete for one step, since it waits for the lock of its row
before it changes anything; its variable `adrift` is a history variable: no action
reads it, and the properties use it to except users about whom an event was
lost, or whose rows a client wrote against the grain (a mobile row of its own
making, a row of somebody already removed).  New users and tenants do not
appear in it, uuids are never used twice.

Of the libraries under `Daemon`: the REST server (cheroot) ignores `stop` unless
it is ready, `start` returns once it is stopped, and its `stop` waits for the
requests under way; leaving the context of the consumer or of the token renewer
joins its thread; the renewer calls its callbacks in the order in which they were
subscribed, those of the first token only once; the interpreter joins every
thread and every process of `multiprocessing` before it ends; systemd ends what
a service leaves behind, takes an end by SIGTERM for a success, and starts a
service that failed again.  Its limit of 15 starts in 150 seconds is left out.

## 3. The runs

| Run | Question | Instance |
|---|---|---|
| `registry` | do requests that overlap keep one callback per subscription and message, and no other (`OneCallback`, `NoOtherCallback`), is every handler one that some request can still remove (`NoOrphanHandler`), is a subscription left alone by what is done to another (`Undisturbed`), and is the registry a mirror of the rows (`Mirrored`)? | 3 requests, 2 subscriptions, 3 bodies that differ in events, user and tenant, two of them with events that are disjoint; requests of one kind overlap |
| `registry_faults` | is a callback triggered only by the events, the tenant and the wazo its row asks for, whatever fails (`OnlyAskedFor`), and does every request end and let go of its locks (`RequestsEnd`)? | 2 requests of any kind, 1 subscription, all faults: overlaps, a failing notifier, a consumer that cannot bind, requests before the token |
| `hooks_faults` | single flight, final verdicts, gapless logs, agreement of the two limits, refinement of `HookDelivery`, and acknowledgement of every message, under all faults | 1 message, 2 hooks, 2 workers, 3 attempts |
| `hooks_endpoints` | with endpoints failing in every way but nothing else: is a call without an answer tried again (`NoAnswerRetried`); do hooks get their verdict and notifications their end while FCM holds off some pushes, for ever perhaps, unless these have taken all the workers (`HooksSettleUnlessHeld`, `NotesEndUnlessHeld`)? | a user's HTTP hook, a push of a call through FCM and a notification to a phone of either make, with every answer they can get; 2 workers, 2 attempts |
| `daemon` | when `run` ends Celery, is the consumer stopped, does the server take no new request, and does a thread wait for those under way (`OrderlyEnd`); are they answered before a process ends without an error (`RequestsAnswered`); does a signal that finds the server ready end the daemon (`StopEnds`), and a failure of `run` end the process as a failure (`FailureEnds`), both unless FCM holds Celery up; are the rows registered after the master tenant is known (`BootHasTenant`); does the log level follow the flag that `/config` shows (`LevelFollowsConfig`)? | 2 signals and 2 PATCH requests per life, any number of lives, with contexts or the server that cannot start, a killed main process and a dead Celery |
| `bus` | every event subscribed to is bound, or will be at the next connection (`AllBoundByNext`), nothing is bound that `_bindings` does not know (`BoundIsKept`), and the consumer comes back (`Reconnects`) | 2 clients that share an event, one of them on the deprecated wrapper, 2 restarts |
| `owners` | does a user with a phone have exactly one mobile subscription (`OneMobileEach`), do removed users and tenants leave no row (`RemovedLeaveNoRow`), and does `sync_db` repair whatever was lost (`OrphansSwept`)? | 1 user, its tenant and the one above, an administrator who watches the user, 2 subscriptions, 3 events, any number of requests and restarts |
| `bug_*` | disagreements between the code and what the repository says of it | section 4 |

**Bounds.**  `registry` has two subscriptions, which may be given the same body, so
that `Undisturbed` has something to disturb; what it says, that subscriptions share
nothing but the locks, which no action holds across steps, is proved for every
instance and under every fault (section 5), and lets `registry_faults` do with one.
Two overlapping requests produce every pair of orders; the third gives the pairs a
past (a create before two updates) and an aftermath.  The requests of `registry` are
symmetric: no action tells them apart, and `Armed`, which chooses among the updates
of a subscription that are in their loop, has at most one to choose from, the one
that holds the lock of the row.  Two events are the least for which a body can drop one and keep
another; two tenants the least for which one is the master.  For hooks, two
workers and two hooks are the least for attempts that overlap, and three
attempts have a first, a middle and a last one.  `MaxRestarts = 2` lets a
binding be restored twice, so that one that is restored once and forgotten
shows.  In `owners`, two rows are the least for a handler that has more than one
to delete and for a second mobile row, and three events the least for a phone
that is registered, lost or updated and removed; nothing in the module relates
two users, whose rows and events are apart, except the tenant they share.  In `hooks_endpoints`, two workers are
the least of which one can be held by FCM and the other not; both can, which is
the case the properties except.  In `daemon`, two signals are the least for a
stopping thread that is not the last one, two requests for an update that is
overtaken; the three contexts are those of the code.

**Fairness.**  `RequestsEnd` assumes weak fairness of every request's thread and
of nothing else: threads run, and no lock is held while waiting for another
thread.  `MessagesEnd`, `HooksSettleUnlessHeld` and `NotesEndUnlessHeld` assume it
of the consumer's thread and of each worker; a call to an endpoint ends because
the code gives it a timeout, and Celery serves what it has queued.  The sleep of
the FCM client has no fairness: nothing makes FCM answer without a Retry-After.
`StopEnds` and `FailureEnds` assume that the main thread, the stopping threads,
the requests and the callbacks of the token run, that Celery ends once it is told to
and none of its workers is held, and that systemd clears up and restarts what
failed; not that anybody sends a signal, that wazo-auth ever answers, or that FCM
lets go of a worker.  Celery's warm shutdown waits for its tasks and `run` for
Celery, without a limit, so both properties except the behaviours in which FCM holds
Celery up for ever (`HeldUp`).  A stop by systemd would then be cut short by its
timeout; a failure of `run` would not, since no stop is under way.  Neither property
counts on the timeout.  `Reconnects` assumes that RabbitMQ, once
down, comes back.  `OrphansSwept` assumes that somebody runs
`wazo-webhookd-sync-db` again and again, which is what the script is installed
for, and nothing of the consumer or of wazo-webhookd.  No fairness is assumed of faults, of clients or of
deletions.

## 4. Disagreements found

Each of the first five has a run that exhibits it.

* `bug_update_global_event` (`OneCallback`): `_update` compares the headers of
  the stored entry, taken before `_handle_tenant_events`, with the headers after
  it.  For `global_voicemail_message_created` they always differ, so the "headers
  changed" branch runs: it subscribes and then unsubscribes, and the unbinding
  takes away the binding just made because it equals the old one.  After an
  update the subscription does not receive the event any more.
* `bug_update_during_delete` (`NoOtherCallback`): a delete that overlaps an
  update of the same subscription finds the entry popped and removes nothing;
  the update then registers a subscription that has no row.
* `bug_mobile_timeout` (`NoAnswerRetried`): in httpx a timeout *is* an
  `HTTPError`, so the first `except` clause of `requests_automatic_hook_retry`
  catches it and fails on the missing `response`; the second clause, which lists
  `httpx.TimeoutException`, is never reached and the push is not retried.
* `bug_broker_down` (`NoneDropped`): `_callback` re-raises when Celery's broker
  is down so that the bus gives the message again; the dispatcher swallows the
  exception and acknowledges.
* `bug_subscribe_race` (`AllBound`): a client that asks `is_running` while the
  consumer is declaring adds its binding to a set already iterated over: the
  event is bound only after the next reconnection (or the iteration raises and
  ends the consumer's thread).

Two comments are out of date about the tenant.  `plugins/subscription/schema.py:136-138`
says: 'Currently if I have the "webhookd.subscriptions.create" I can receive event of
all tenants...', and `services/mobile/plugin.py:336`: "We should also filter on
tenant_uuid".  The code does filter: `_build_headers` (`subscription/bus.py:75-90`)
binds with the tenant of the row unless it is the master tenant, and the integration
tests (`integration_tests/suite/test_http_callback.py:1002-1079`) ask for that.
`OnlyAskedFor` sides with the code and its tests, in `registry_faults` and as a
theorem.  It is no check of the comments' other half, that the tenant of the row is
the one of whoever made the request.

Seen while modelling and not given a run of their own: when `run` fails while FCM
holds a worker of Celery, its `finally` waits for Celery until FCM lets go, and systemd,
which sees a running process, does not restart the daemon (`HeldUp`); a subscription
that a failed notifier, an early request, or a consumer that cannot bind leaves
without a row or without its handlers stays so until the next start (with any one of
the faults `notifier`, `early`, `bus` and `cross` TLC refutes `NoOrphanHandler`);
two updates that overlap, of a service without options and with events that are
disjoint, both succeed and leave a row that neither asked for, with the events of both
and the columns each changed (`Flushed`; the copies agree on that row);
`Controller.__init__`
needs `config['uuid']` although `bin/daemon.py:31` says that a missing uuid is
"handled in the controller"; it raises after Celery was spawned and outside of
the `finally` that ends it, so that the interpreter waits for Celery and systemd
sees no failure to restart from (`InitRaises`); a SIGTERM after the handlers are
installed and before the server is ready is lost; a daemon started with debug has
its `log_level` replaced by DEBUG, so that a PATCH of debug to false changes
nothing (`always`); an empty PATCH writes a stale flag back; nobody watches the
Celery process; the comment on `retry_errors` in `plugins/mobile/http.py` takes
the retry policy of `apply_async` for one of the task, which is tried once;
`send_notification` tests `e.response and ...` too, so that a phone unknown to
wazo-auth is an exception of the task and not the error it means to log; the handlers of a removal
list first and delete by uuid, so that a row an administrator hands to another
owner in between is deleted with the first one; `sync_db` reads the tenants, then
the users, then the rows, and the rows of whoever was created in between are
deleted; FCM's 200 without a message name is logged as a success of the hook;
`get_external_data` tests `e.response and ...`, which is false for every HTTP
error response, so that it never raises again and takes a refusal for an empty
configuration; an update cannot drop
the user filter of a subscription made by a user (`user_subscription_schema`
has no `events_user_uuid`); when the notifier raises, the row is rolled back
but the callbacks are not; a create served before the token is known commits
its row but is not registered until `Boot` runs; a binding that cannot be made
because the connection of the exchange fails is not kept for later; a handler
subscribed through the deprecated `subscribe_to_event_names` is wrapped and can
not be unsubscribed; nothing raises the `RetryAfterException` that the mobile
service catches, so FCM's "unavailable" is an error without a retry.

## 5. What is proved

TLAPS checks the following for every value of the constants that satisfies the
named assumptions of the modules, i.e. any number of requests, subscriptions,
tenants, messages, hooks, workers and attempts.  The assumptions give the
constants their types, keep the model's own values (`Nil`, `Boot`) apart from the
code's, and say that a hook is the hook of exactly one event; none bounds a set.
Every safety invariant and every refinement that a passing run checks is stated
by a theorem; where the theorem has a hypothesis of its own, it is named below.

`SubscriptionRegistryProofs`:
* `TypeCorrect`: `Spec => []TypeOK`.
* `OnlyAskedForTriggers`: `Spec => []OnlyAskedFor`, under all faults.  A message is
  delivered because of a binding, and reaches a handler only when the handler's
  headers match; the invariant says where those headers come from: the entry a
  thread popped, the headers it carries in its local variable, the calls it has
  still to make, and the handlers all carry the tenant (`IInv`), the subscription,
  the wazo and the events (`KInv`) of *their own* row as `BuildHeaders` computed them,
  and `HandleTenantEvents` replaces the user only.
* `OthersAreUndisturbed`: `Spec => Undisturbed`, under all faults too.  A thread binds
  and unbinds with the headers of its own subscription only (`Key`), so what it takes
  away is never a binding of another; and the handlers of a subscription that no
  request has been about have their bindings (`Routed`), so that what it adds lets no
  message through that was not routed before.

`SubscriptionOwnershipProofs` has lemmas only: the callback of every handler is in the
dictionary or in the hands of a request (`Accounted`), if no connection fails and no
request is served before the start-up registration, whatever overlaps and is rolled
back.  That is one half of `NoOrphanHandler`.  The invariant says that every handler is
for an event of its own row (`Scope`) and of a subscription that exists or that some
request is about (`Touched`), and that its entry or a thread on its way accounts for
it (`HandlersOwned`).  Two threads do not work on one entry behind each other's
back: a create is alone on its subscription (`Creating`), an update has the
lock of the row (`UpdatingOwns`), and until `Boot` has ended nobody else is at
work (`BootPhase`).

`SubscriptionMirrorProofs` (on top of the two above):
* `DirectoryIsMirrored`: `Spec => Mirrored`, i.e. the dictionary of callbacks
  implements `MirroredDirectory`, for any number of requests that overlap others of
  their kind (`Quiet`: `Faults \subseteq {"overlap"}`).  The invariant says what
  stage each request is in relative to the row and the entry (`PhaseInv`: requests
  on one subscription are of one kind, an update's row exists, no entry carries a
  request's callback before that request publishes), that a create or an update has
  armed its entry before it commits (`Ahead`), and that an entry and its row differ
  only while a request stands between the two (`Mirror`; `BootMirror` says it of
  the start-up registration, one row at a time).
* `NoHandlerIsOrphaned` (`NoOrphanHandler`), under `Quiet`: the entry that holds the
  callback of a handler is of a subscription that has a row, or is about to have one
  (`Mirror`), without which `_get` would let no request come to the entry.
* `OneCallbackEach` (`OneCallback`) and `NoOtherCallbackEach` (`NoOtherCallback`):
  once the entry is right, the handlers and the bindings have to follow.  `HeaderInv`
  says that every header in the registry or in a local of a loop is the one its row
  stands for; `PresentInv` that a loop has subscribed to each event of its row or
  still will; `CallsInv` that an update which unsubscribes from an event it keeps,
  with headers it keeps, subscribes to it again, for the binding it takes away is
  the one it needs; `EntryInv` that an entry whose loop has ended has a handler and
  a binding for each event.  That nothing else is called is `HandlersOwned`
  of `SubscriptionOwnershipProofs`.  Besides `Quiet` they assume `PlainUpdates`: if there are updates,
  none of the events is global.
* The run `registry` satisfies both hypotheses, and neither can be dropped.  With any
  one of the faults `cross`, `notifier`, `bus` and `early` added to it, two requests are
  enough for TLC to refute `Mirrored`, `NoOrphanHandler` and `NoOtherCallback`, and with
  any but `cross` `OneCallback` (`bug_update_during_delete` is `cross`);
  `bug_update_global_event` is the case that `PlainUpdates` leaves out.  `OnlyAskedFor`
  and `Undisturbed` have none of these hypotheses, and `NoOrphanHandler` only `Quiet`.

`DaemonProofs`:
* `TypeCorrect`, `LevelAgrees` (`LevelFollowsConfig`), `EndIsOrderly` (`OrderlyEnd`),
  `BootKnowsTenant` (`BootHasTenant`).  The invariant says
  that contexts are entered and the server ready only within the with-statement
  (`MainInv`), which lists of callbacks the renewer can have before it and that
  `subscribe` is reached only behind the master tenant (`TokenInv`), and that
  the lock is held by the request that has set the level and not yet the flag,
  both to the same value (`ConfigInv`).
* `NoRequestIsCutOff`: `Spec => RequestsAnswered`.  `run` joins the last stopping thread
  only, and after a second signal that is not the one that waits for the requests;
  the interpreter joins the others.  `RequestInv` says that when the server is not
  ready no request is under way or a stopping thread waits for those that are, and a
  process ends without an error only when no such thread is left.

`HookRunnerProofs`:
* `TypeCorrect`, `NeverTwoAttempts` (`SingleFlight`), `VerdictsAreFinal`,
  `NoGapInLogs`, `GivesUpAfterMax`, `RetriesAllowed`: the safety properties of
  `hooks_faults`.  The properties are not inductive; the invariant adds that a
  hook has one *token*, in the inbox, among the callbacks, in the queue or with
  a worker, which may be lost but is never copied, and that the token's number
  of retries is exactly what the log shows (`QueueInv`, `RunningInv`).
* `DeliversInOrder`: `Spec => Delivered`, the runner implements `HookDelivery`.  The
  stage of a hook is read off its token and its log; each action moves the stage
  of one hook by one step of `HookDelivery` or moves none (`StageInv`).
* `NoAnswerIsRetried` (`NoAnswerRetried`), for hooks none of which goes through
  httpx (`NoPushToApple`): the answer in a log is one the hook may get, and what is
  logged as a success answered (`AnswersInv`).  For a hook that pushes to a
  phone of Apple's the property is false (`bug_mobile_timeout`).

`WorkerPoolProofs`:
* `PoolRunsHooks`: `PoolSpec => Spec`.  Notifications that take workers away and
  pushes that FCM makes sleep add no behaviour of the hooks, so that every theorem
  of `HookRunnerProofs` holds in the pool as well; `PoolRetriesNoAnswer` states one of
  them, the one that `hooks_endpoints` checks there.  The pool is modelled without
  the faults of the runner (`NotesAssumption`).

`SubscriptionOwnersProofs`:
* `TypeCorrect` and `RemovedAreCleared` (`RemovedLeaveNoRow`).  The invariant says
  of every row of somebody who is gone that the event of the removal is still in
  the inbox, or that its handler has that very row to delete, or that the user is
  adrift (`UserRowsInv`, `TenantRowsInv`).  The handlers also create rows, so it
  says as much of a registration in the inbox: the removal of its user comes
  after it (`InboxInv`, `JobInv`).
* `OneMobileKept` (`OneMobileEach`).  Only the last event about a user counts: it
  tells whether the user has a phone (`LastInv`), and a removal follows whatever
  happened to the phone (`PhoneInv`).  While no event about the user is left in the
  inbox, the number of its mobile rows is right, or is what the handler at work is
  about to make right (`CountInv`: `Handled` says it of each step of each handler).  For that
  nobody else may delete those rows: they are as the service made them and on no
  other handler's list (`OwnRows`), and the lists `sync_db` works from hold every
  user and tenant still known (`SyncInv`).

`BusConsumerProofs`:
* `TypeCorrect`, `BoundByNextConnection` (`AllBoundByNext`), `BindingsAreKept`
  (`BoundIsKept`).  The invariant says that
  a client adds a binding once, while it has the event still to do (`TodoInv`), so
  that a binding new to `_bindings` is not among those `declare` goes through, that
  every handler's binding is in `_bindings` (`KnownInv`), and that what `declare` has
  done is bound (`DeclareInv`).

Only model-checked: liveness (`RequestsEnd`, `MessagesEnd`, `HooksSettleUnlessHeld`,
`NotesEndUnlessHeld`, `Reconnects`, `OrphansSwept`, `StopEnds`, `FailureEnds`), which
rests on fairness and ENABLED and is out of the prover's reach; and the `bug_*`
runs, whose point is a counterexample.

## 6. What is not modelled

The text of requests, templates, payloads and logs; the schemas' validation;
certificates; the status, services and API plugins (one read each); the purge of
old logs (a single DELETE by date); `init_db`, `init_amqp` and migrations; the
library code of Celery, kombu, cheroot and the Wazo libraries, except as section
2 says.  A user who is disabled between the check of a notification and its push
is pushed to; `_bindings` grows with every subscription; neither is stated as a
property, since nothing in the repository says otherwise.

Of a flush that finds its row changed since `_get`, the model does not show the
options: whether one of them collides with an option the other update inserted, as it
always does for the `http` service, is left open (`UpdateFlush`).  Nothing is stated of
what `unsubscribe` leaves behind (`UnsubscribeEvent`): the handlers of a deprecated
client stay, and a client with plain handlers loses them by the assignment itself.

## 7. Plan

1. New users and tenants in `SubscriptionOwners`, for what `sync_db` takes from
   them.
2. Proofs: weaker hypotheses for `OneCallbackEach` and `NoOtherCallbackEach`, so that
   they cover a failing notifier or an early request for the subscriptions it does
   not touch; what the retry helpers answer, as lemmas on `HookOutcome`.
