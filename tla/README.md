# Verification of mailman

mailman is a Go server (`src/backend`) that fetches the mail of many accounts,
keeps it in a database, serves it over HTTP and WebSocket to a Next.js frontend
(`src/frontend`), and runs triggers on it. The repository has no tests of its Go
code and none of its pages. What is hard in it is what runs concurrently on its
own: in the server goroutines per account, pollers, recovery attempts and handlers
that edit the same rows and maps; in the browser timers, requests and event
handlers that outlive the component that started them and read the state of a
render long gone. This directory models these parts, checks them with TLC and
proves properties of them with TLAPS.

| File | What it is |
| --- | --- |
| `SyncerRegistry.tla` | abstract specification: what the manager promises about its map of syncers |
| `PerAccountSync.tla` | the synchronisation service in detail |
| `NotificationLink.tla`, `NotificationHub.tla`, `NotificationToast.tla` | the WebSocket connections, the server's end of them, the browser's end |
| `NotificationService.tla` | abstract specification: what a toast connected to the hub promises its user |
| `Notifications.tla` | the hub and the toast composed |
| `WebSession.tla` | a browser tab, its session, the other tabs and the server's sessions |
| `OAuth2Session.tla`, `OAuth2Popup.tla` | an authorization session of the server; the popup that uses it |
| `MailPickup.tla` | the mail pickup tab and the main page that hands mailboxes over to it |
| `MC*.tla`, `*.cfg` | the instances TLC checks; a cfg is named after its module and run |
| `*Proofs.tla` | theorems of the module they are named after |
| `PROJECT.json` | index: components, runs, mutants, the lines each definition models, findings, hazards, theorems |

## 1. Inventory

Files of the server are below `src/backend/internal/services` where no directory
is given, those of the frontend below `src/frontend/src` and its `components`.
`cmd/mailman/main.go` constructs everything and decides what runs: the services
marked *idle* are constructed and never started, or never constructed.

| Component | State | Operations | What makes it correct | Module |
| --- | --- | --- | --- | --- |
| `PerAccountSyncManager`, `AccountSyncer` (`per_account_sync_manager.go`) | `accountSyncers`, stats, semaphore, `mu`; per syncer its `Config`, context and `mu` | Start, Stop, start/stop/update a syncer, SyncNow, UpdateSubscription, cleanup, statistics; `Run`, `performSync`, `handleSyncError` | one loop per account; every entry removed is told to stop; counts and permits agree with the goroutines; locks come back; Stop returns | `PerAccountSync`, `SyncerRegistry` |
| `FastConfigMonitor` (`config_monitor.go`) | `ConfigCache`, the changes channel | poll, diff, send, Stop | changes reach the manager; Stop ends it | `PerAccountSync` |
| `SyncConfigRepository` (`repository/sync_config.go`, `models/sync_config.go`) | the configuration rows | CreateOrUpdate, Get, Delete | a save changes what its caller meant to change | `PerAccountSync` |
| `SyncHandlers` (`api/sync_handlers.go`) | `accountLocks` | get, create, update, delete, temporary, sync now, status, batch | the account lock is given back; row and syncer agree | `PerAccountSync`, batch planned |
| `AccountRecoveryService` (`account_recovery_service.go`) | attempts per account, rows and accounts | periodic batch, token refresh, re-enable | a recovered account syncs again; a user's choice survives | `PerAccountSync`, limits planned |
| `FetcherService` (`fetcher.go`), `repository/email.go` | Gmail history id in the row, stored mails | IMAP and Gmail fetch, duplicate check, store | no mail lost or stored twice across crashes | its effect on the row in `PerAccountSync`; the pipeline planned |
| `SubscriptionManager` (`email_subscription_manager.go`) | subscriptions, channels, per-account index | Subscribe, Unsubscribe, DistributeEmail, expiry | no send on a closed channel; index agrees with the map | planned |
| `EmailFetchScheduler`, `WorkerPool`, `EmailCache` | fetch contexts, task queue, workers, cache | start/stop fetching, submit, retry, cleanup | a subscription is fetched for while it lives; Stop ends the workers | planned |
| `OAuth2Service` (`oauth2.go`, `oauth2_auth_session.go`, `api/oauth2_handlers.go`) | authorization sessions; token cache, per-account locks, last refresh | start, callback, exchange, poll, cancel; refresh, cached token, rotation | a refused session never succeeds; one refresh at a time; a rotated token is never lost | `OAuth2Session`; the refresh planned |
| `EmailNotificationService` (`email_notification_service.go`) | `clients`, their `Send` channels, `history`, `connectedClients` | register, unregister, broadcast, replay of the history, a reader and a writer per client | no send on a closed channel; the count is that of the map; a slow client does not block the others; a mail announced is shown | `NotificationHub`, `Notifications`, `NotificationService` |
| `ActivityLogger` | a queue | log, Stop | no send on a closed channel | planned |
| `TriggerService`, `EmailTriggerService`, `parallel_action_executor.go`, condition engines, `result_cache.go`, `email_events.go` | subscriptions of triggers, statistics, caches | enable, disable, execute, log | enabled triggers run once per mail; statistics are not lost | planned |
| `triggerv2/core`, `triggerv2/monitoring` | queues, pools, buses | | *idle*: nothing constructs them | perhaps the task queue |
| `triggerv2/plugins` | a registry of plugins behind one lock | register, enable | a map under a mutex | not modelled |
| `OptimizedIncrementalSyncManager` | | | *idle*: constructed, never started | not modelled |
| Users and sessions (`auth.go`, `api/middleware.go`) | session rows | login, logout, expiry, the middleware | a dead session is refused | `WebSession`, administration not modelled |
| HTTP/WebSocket API, AI extraction, settings | rows | single reads and writes | pure I/O | not modelled |
| API client and session (`lib/api-client.ts`, `contexts/auth-context.tsx`, `services/auth.service.ts`, the login and main pages) | keys in localStorage shared by all tabs; `user`, `isLoading`; requests outstanding | interceptors, initAuth, login, logout, refreshUser, updateUser, redirections | the keys agree; the user shown is the session's; a dead session is left; the pages do not redirect for ever | `WebSession` |
| Notification toast (`notifications/email-notification-toast.tsx`) | the socket and the timer in refs, the list shown | connect, reconnect, show, expire, dismiss, unmount | one live socket; a lost one is replaced; what is shown goes away | `NotificationToast`, `Notifications`, `NotificationService` |
| OAuth2 popup (`oauth2/oauth2-popup-auth.tsx`, the modal and the success page) | session, status, three intervals, a window, polls | start, open, poll, count down, cancel, report | it ends, stops polling and closes its window; a success is reported | `OAuth2Popup` |
| Main page and mail pickup tab (`app/main/page.tsx`, `tabs/mail-pickup-tab.tsx`) | pending data and callbacks of tabs; mailboxes, `listeningStateRef`, a copy in localStorage | open, close, hand over; add, select, remove, start, stop, check, restore | no address twice; what is saved can be restored; what is listened to is polled, and stops | `MailPickup`; extraction not modelled |
| Mails tab, accounts tab (`tabs/emails-tab.tsx`, `tabs/accounts-tab.tsx`) | loaded pages, selection, outstanding loads | load, page, filter, verify, hand over | the list is that of the selection | planned |
| Forms, settings, debuggers | what is typed | load, save | presentation | not modelled |

How the synchronisation parts interact:

- A handler, the recovery service and the syncers write
  `email_account_sync_configs` rows. They read a row, change the struct and save
  all its columns; no transaction joins the two, so each may undo another.
- The monitor polls the table every few seconds, compares with its cache and
  offers each difference to the manager over an unbuffered channel with a
  `default` branch: a busy manager loses the change for good.
- Handlers and recovery also call `UpdateSubscription`; `Create` stops the
  syncer first. All of them change the map under `m.mu`, but look at it and
  use what they saw in different critical sections.
- A syncer's rounds share a semaphore, take the syncer's own `mu` for the
  bookkeeping and may end with the syncer stopping itself.
- `Stop` closes the monitor's channel, cancels the contexts, empties the map
  and waits for all goroutines. (`main.go` never calls it; the model does, at any
  moment.)

How the parts of the browser interact with each other and with the server:

- The sync round of a mail calls `BroadcastNotification`, which offers it to the
  channel of every registered client and unregisters a client whose channel is
  full. A client's reader, its writer, the broadcast and the eviction may all
  find the connection gone first. The toast opens a new connection five seconds
  after it loses one, and is sent the last ten notifications again.
- All tabs of a browser share `sessionToken`, `token`, `auth_token` and `user` in
  the localStorage. A request carries the token there was when it was sent; its
  answer acts on whatever is stored and shown when it comes.
- The popup opens a window whose fate it learns from two sides: the window closes,
  and polls of the session's row. The provider's redirection writes that row
  in a handler of its own; polls, cancellations and the exchange write it, too.
- The accounts tab hands a mailbox to the pickup tab through the main page:
  by a callback registered in `window`, or as pending data until the tab is
  there. Tabs are unmounted when closed, their callbacks, timers and requests not.

The behaviours that are hard are listed one by one, with the line where each
bites and the properties that watch it, under `hazards` in `PROJECT.json`.

## 2. Modules

### PerAccountSync

Each goroutine is a program counter in `pc`, an account in `acct`, a row it has
read in `snap`, and, when it has looked a syncer up, that syncer in `target`:

- `Syncers`: values of `AccountSyncer`. A syncer nothing refers to any more may
  stand for the next one created, so two are enough for any number of lives of
  which at most two overlap.
- `Callers`: a request in a handler, or one recovery attempt.
- `Handler`: the goroutine of `handleConfigChanges`.
- The monitor needs no counter: `events` is what is left of its current poll.
- The main goroutine's `Start` is `loading`, its `Stop` is `mgr`.

One step is one section that the code runs under a single mutex without
blocking, or one database statement. The read of a row and its later save are
therefore two steps, and anything may come between them. Where a step of the
model stands for several statements, the others touch only the goroutine's own
variables.

| State | In the code |
| --- | --- |
| `row` | the table: `enable_auto_sync`, whether the account was disabled automatically, `sync_interval`, or no row |
| `fresh`, `cache`, `events` | `updated_at > lastUpdate`, `ConfigCache.configs`, the changes of one poll |
| `reg`, `active` | `accountSyncers`, `stats.ActiveSyncers` |
| `sem` | the entries of the channel `m.semaphore` |
| `mmu`, `wedged` | `m.mu`, and the `mu` of syncers, only as far as they are lost for ever; otherwise a lock is free between steps, except `mu` in the two sections of `HoldsMu`, which write the database |
| `cancelled`, `stopper` | a syncer's own context, and the goroutine `handleSyncError` starts |
| `lock` | `SyncHandlers.accountLocks` |

The actions follow the code's functions; `map` in `PROJECT.json` gives the lines
of each. Points that are easily missed, all of them in the code:

- gorm replaces a zero value by the column's default on INSERT, so a row
  created with `enable_auto_sync` false is stored as true (`Inserted`).
- `Save` of a row that has been deleted inserts it again (`CreateOrUpdate`).
- Any database statement may fail; most callers log it and go on (`TrySave`). Two
  take a failed read for an answer: `Create` for "no configuration yet"
  (`CreateChecks`), and the read of a temporary configuration, which then gives way to the
  account's own row or to the default (`Temporary`).
- The monitor caches a change before it offers it, selects only enabled rows
  and never forgets an account: it announces "added" and "updated" only.
- Deleting a configuration does not stop its syncer.
- `SyncNow` runs `doSync` on the request's goroutine with no permit.
- `UpdateConfig` with a changed interval locks `mu` and asks for it again
  (`wedged`, and the caller is `"stuck"`); `GetStatus` read-locks `mu` twice and
  is lost if a writer arrives in between (`GetStatusWedges`). `updateStats`, the list
  of statuses and the cleanup wait for every `mu` while they hold `m.mu`
  (`WalkParks`); the cleanup may have removed other entries before it parks
  (`CleanupInactiveSyncers`).
- `Stop` empties the map and leaves `ActiveSyncers` as it was.
- When `Stop` has closed the channel and the monitor still has a change to send,
  the select may take the send, which panics (`panicked` ends the process).

Left out of the state: times (a ticker or timer may fire at any moment, an idle
syncer may be found idle for an hour), error counts and thresholds (any failing
round may disable the account, any disabled account may be recovered), the
accounts table, the mail, and statistics other than `ActiveSyncers`. Each of these
only adds behaviours.

### SyncerRegistry

The manager as its callers should see it: an account gets a syncer only while
it has none (`Start`), entries leave the map only together with a stop
(`Remove`, `Empty`), a syncer may stop itself and stay (`StopAlone`), and a
syncer ends only when told or at shutdown (`End`). `PerAccountSync` implements it:
`Registry` is the instance, with `owner` the account of a running goroutine and
`alone` those whose `stopper` has fired.

### NotificationService

What a user may rely on: a notification is announced once (`Announce`); while the toast
is there (`Open`, `Leave`) it shows what has been announced, and nothing else, in a list
of at most `MaxShown` (`Show`), from which a notification disappears by itself or by the
user's hand (`Vanish`), for newer ones, or with the toast. It may be shown again: the history
is sent on every connection, so a dismissed notification comes back, which is what the
code does. `Notifications` implements it: `Service` is the instance, with `announced` the
notifications no longer `toCome` and `screen` the set of those in the list.

### NotificationLink, NotificationHub, NotificationToast, Notifications

`NotificationLink` holds what the two ends share: `link`, the state of each
connection, and `wire`, the frames under way to the browser. The hub and the toast
each extend it and never see the other's variables; `Notifications` conjoins a step
of one with the other standing still. A connection identity is used again
when nothing refers to it, on either side (`Fresh`).

| State | In the code |
| --- | --- |
| `clients`, `connected`, `history` | fields of `EmailNotificationService` of those names (`connectedClients`) |
| `send`, `closed`, `reader`, `writer` | a client's `Send` and `closed`, its `handleClient` and `writeToClient` |
| `joining`, `replay` | `RegisterClient` before and in `sendRecentHistory` |
| `casting`, `evicting` | goroutines between two steps: broadcasts after `addToHistory`, of which there may be several, and each `go s.UnregisterClient` |
| `sock`, `wsRef`, `timer` | the WebSocket objects and the two refs of the toast; `"fired"` is a handle whose timer is over |
| `shown`, `expiring`, `everShown` | the notifications, their 3 second timers, and a history variable |

Easily missed: `sendRecentHistory` runs after the client is in the map, so the
channel may be closed under it (the panic is recovered by net/http); the `break` in
it leaves the `select` only; a pong does not extend the read deadline, so each connection
of a browser is cut after a minute; the close frame has no code, so the
browser reconnects; `close(1000)` of a socket that is still connecting is reported
as 1006, so an unmounted toast reconnects once. A writer ends when a write fails, on a
broken connection or after ten seconds (`WriteFails`), and its client stays in the map
until the reader's deadline or a full channel takes it out. A writer that ends with
nothing to write, by a failing ping, is left out.

### WebSession

One tab in detail (`page`, `user`, `loading`, `call`), the localStorage, the
server's sessions and the other tabs as far as they write the localStorage. A
session stands for its user. Each kind of request is outstanding at most once: a second
one of its kind would be answered alike. Points easily missed:

- The response interceptor replaces the error by one without `response`, so the
  branch of `initAuth` for 401 is dead code: `handleUnauthorized` has done the rest.
- `handleUnauthorized` removes only `auth_token`, and assigns `location.href`,
  which takes effect some time later (`leaving`); until then the page goes on.
- The next document finds `sessionToken` and shows the stored user until its own
  `me` request is refused; the login page then does not redirect again.
- What the tab shows counts as come to only when no document is about to replace it:
  `leaving` is part of `DeadSessionIsLeft`, `TabSettles` and `LateRefusalIsUndone`.
- The middleware answers 401 to every error, a failing database included
  (`RefuseLive`).

### OAuth2Session, OAuth2Popup

`OAuth2Session` is the row of one authorization session with the requests that
write it; `OAuth2Popup` extends it by one mounted component, the modal, and
the window. The instances that the modal mounted before it are part of the
environment: their callbacks may hide this one (`EarlierReports`), their late start
may take the window, which has one name (`EarlierOpens`).

- `watching` is a set of intervals, because `openPopup` forgets the one it had; each
  keeps the status of the render that made it (`kind`).
- `Report` is a callback of the component with what the modal does about it: it
  hides the component, whose cleanup runs. An answer that finds the component gone
  closes no window at once but after three seconds (`late`).
- `handleCancel` waits for the server before it stops anything, so several cancellations
  may be under way: `cancel` counts those sent and those answered.
- A start whose answer is lost leaves a pending row behind `onError` (`StartFails`).
- The exchange of the code takes a request to the provider: `exchanging` counts the
  callbacks between their check of the row and their write to it.

### MailPickup

| State | In the code |
| --- | --- |
| `pending`, `callback`, `flag`, `resetting` | `pendingTabData`, `__tabCallbacks`, `__mailPickupCallbackRegistered` and the timer that clears it |
| `list`, `selected`, `skip`, `saved` | `monitoredEmails`, `selectedEmailId`, `skipEmailSelection`, the localStorage |
| `known` | `monitoredEmails` in the closure of the `startListening` in use |
| `ref`, `call` | `listeningStateRef` of each instance; each call of `startListening` with the chain of checks it began |
| `random` | the random address requests, by instance and by the list in their closure |
| `wanted` | a history variable: a mailbox picked and not yet seen |
| `arrived` | the mails received while listened to: the account each is stored under, and how many newer ones there are |

An instance is one mounting of the component. Requests and timers of an instance
keep running after it is gone and write the localStorage, never the list of the
next one (`Current`). Points easily missed:

- `handleTabSwitchData` is registered once, in the first render, with an empty list: a
  later hand-over replaces the list and saves an empty one with the address
  (`HandOver`). What is restored from that is the mailbox under a new id.
- An unmounted instance leaves its callback and clears its flag two seconds later; an
  instance mounted in between registers nothing.
- A mailbox saved while listened to is restored with a text as `startTime`: the
  interval that counts seconds throws within a second, and the page is
  replaced by the error page (`Crash`).
- A check past the timeout stops the mailbox through the list of the render it began
  in; `stopListening` does nothing if that list lacks it, so the mailbox is
  listed as listened to for ever while nothing checks it.
- Stop and start within one interval leave two chains of checks for an address.
- A check finds a mail only if it is stored under the account that is searched, dated after
  the start and among the ten newest (`Finds`). The account is that of the address; for a
  random or domain address it is `accounts[0]`, and without accounts all are searched
  (`AccountFor`). Mail to a domain address that another account receives is never listed.
- The random address button is never disabled: several requests of several renders may be
  outstanding, and each answer is added to the list of its own render.

## 3. Runs

The configurations of `PerAccountSync` have one account: rows, syncers and locks of different
accounts share only `m.mu`, the semaphore, `ActiveSyncers` and the manager's
goroutine. The proofs below cover every number of accounts.

| Run | Instance | Properties | What it shows |
| --- | --- | --- | --- |
| `registry` | 2 syncers, 1 caller, 1 interval, 1 permit; create, temporary, sync now, recover; 0.85 million states, the syncers being interchangeable | `TypeOK`, `OneLoopPerAccount`, `ActiveSyncersCountsMap`, `PermitsMatchHolders`, `OnlyAutoDisableLeavesEntry`, `EntriesEndCancelled`, `ImplementsRegistry` | whoever starts and stops syncers, in whatever order, the map, the counter, the permits and the goroutines agree; deadlock is checked |
| `wedge` | 1 syncer, 2 callers, 2 intervals; create, update, status; 2 million states, the callers being interchangeable and, since nobody here creates a default configuration, the intervals too | `ManagerFreezesOnlyOnWedge`, `LostMuHasNoHolder`, `LockGuardsEdits` | how far the damage of a lost `mu` goes: it takes `m.mu` with it, nothing else does, and no section it protects is left half done; two edits of a configuration exclude each other, and a lock has a request that runs, stuck ones included |
| `stop` | 1 syncer, 1 interval; create, get, delete, stop; under `FairSpec` | `CancelledSyncersEnd`, `AccountLockIsReleased`, `StopReturns` | told syncers end, handlers unlock, and Stop returns, from any moment it is called, unless the closed channel has ended the process |
| `save` | updates | `SyncSaveKeepsSettings`, violated | finding 1 |
| `interval` | updates with two intervals | `UpdateConfigComesBack`, violated | finding 2 |
| `recovery` | recovery | `RecoveryRestartsSyncer`, violated | finding 3 |
| `toast` | 2 connections, 2 notifications of which the last is sent again, capacities of 1, 1 break, timeout or refusal; 475 thousand states; `FairSpec` | `TypeOK`, `BroadcastFindsOpenChannels`, `ConnectedCountsClients`, `OneLiveSocket`, `NotificationsGoAway`, `EveryNotificationIsShown`, `ImplementsService` | evictions, the replay and a broken connection delay a notification and lose it only when a newer one has taken its place in what is sent again; no socket is doubled, and nothing is shown that was not announced or after the toast has gone |
| `reconnect` | the same with 1 notification, 2 breaks or refusals, capacities of 2 | `LostConnectionIsRetried`, violated | finding 4 |
| `tabs` | 2 sessions, 2 requests of the user at a time, 1 fault; 136 thousand states; `FairSpec` | `TypeOK`, `ReadersAgreeOnSession`, `ShownUserIsSessionsUser`, `DeadSessionIsLeft`, `TabSettles`, `LateRefusalIsUndone` | late answers, other tabs and refusals leave the keys consistent and change the user shown only in the three ways the property names; a dead session ends at a login form that stays, and the tab at one page for good |
| `ends` | 1 callback, 2 polls at a time, 1 cancellation, 1 lost request; 224 thousand states; `FairSpec` | `TypeOK`, `WaitingPopupHasTimers`, `OpenWindowHasCloser`, `RefusedSessionNeverSucceeds`, `AuthorizationEnds`, `PollingStops`, `WindowIsClosed` | however it is hidden, cancelled or blocked, an authorization ends and leaves no timer and no window |
| `success` | 1 callback, 1 poll, nothing lost | `SuccessIsLeftToPolling`, violated | finding 5 |
| `listen` | 2 addresses, one of an account and one of a domain, 2 accounts, searches that list 1 mail, and the bounds of `SmallBounds`; 230 thousand states; `FairSpec` | `TypeOK`, `OneMailboxPerAddress`, `SavedListHasSelection`, `ListeningIsPolled`, `PollingEnds`, `MailIsReceived`, `HandOverIsShown` | with stale closures, crashes and instances that are gone, what is shown and saved is consistent, what is listened to is polled, a mail the search returns is listed and a picked mailbox is shown. It does not show that no mailbox is lost: hand-overs and random addresses replace the list (section 2) |

Bounds. Two syncers let an old loop still be finishing its fetch while its
successor starts; a third could only wait for the first to end. One permit makes
the second syncer wait and time out. One caller is one request in flight (in `wedge`
there are two, which ask for one lock); it
races with the load, the monitor, the manager's goroutine, the syncers, the
cleanup and Stop, which are always there. Two intervals are what a change needs.
The requests of a run are `Requests` in `MCPerAccountSync`; there is no
bound on how many are made. Deadlock is not checked in `wedge`, where the code
really can lose every goroutine, and in `stop`, where the program ends.

In the runs of the browser deadlock is not checked: a user may stop using it.

- `toast`: `MaxDrops` bounds how often the network, a proxy or a deadline ends a
  connection, once. With capacity 1 the channel is full as soon as the history and
  a broadcast meet. Two identities are enough, since a third could only be
  another closed connection. The history keeps both notifications and sends the last
  again, as the code keeps 100 and sends 10, so a notification may be *missed*: a newer
  one was announced while no connection carried it. `EveryNotificationIsShown` excepts
  these, a toast that has given up reconnecting (finding 4), and a replay that meets
  a full channel, which skips a notification: this needs as many unsent messages
  as the channel holds (256 in the code) in the moment of registering. `MaxCasts` 1 lets one
  goroutine at a time stand between history and broadcast; the run passes with two as
  well (978 thousand states), but not within five minutes. The safety properties are proved for any number.
- `tabs`: `MaxSessions` 2 gives an earlier and a later session, `MaxCalls` 2 lets two
  requests overlap besides `me`, which is not counted, `MaxFaults` 1 is one lost
  answer or one refusal of a live session. A third session matters to the liveness properties,
  which speak of one session until it is replaced or ends: with `MaxSessions` 3 and
  `MaxCalls` 1 the run passes, too (167 thousand states, in more time).
- `ends`: one callback is what a user can make before the code is used; two polls
  overtake each other. One cancellation, by the button or by a window found closed; with
  two of them and one poll the run passes, too. More callbacks are covered by the proof of
  `RefusedSessionNeverSucceeds`.
- `listen`: mailboxes, instances, listenings and lost requests multiply, so each
  behaviour has one record of `SmallBounds`: two instances and two added mailboxes
  with the random address; two instances, or two listenings, with a lost request;
  one listening among two mailboxes. Each record was searched for the cases that
  matter (two chains, a chain of a removed mailbox, a hand-over to a dead instance, a crash)
  and has those it is for. A mail is stored under either account, first in the answer or
  behind as many newer ones as there is room for; with two accounts, an address is
  searched in its own, in the first, or in all. The two invariants are proved without any bound.

The liveness run `stop` has a single interval and no status requests, so no `mu` is
lost in it. With those the properties do not hold: `UpdateConfigComesBack` is
violated, and a lost `mu` keeps Stop waiting. The run shows that nothing else does.

Fairness. `GoroutineFairness` is weak fairness of each goroutine's own step,
which is what the Go scheduler gives and the assumption that timers fire and that
fetches, queries and token refreshes return. It is strong in three places:
`ContextDone`, because a `select` whose cases are ready over and over chooses each
of them; `UpdateConfig`, because `sync.RWMutex` does not let a waiting writer
starve; `WaitReturns`, because a `WaitGroup` releases `Wait` the moment it reaches
zero. Clients, the cleanup, statistics and the caller of Stop are under no
obligation. After a panic nothing is.

In the browser and the hub all fairness is weak, and in `Notifications` it is one condition,
that something of what is due (`Obliged`) happens as long as anything is: breaks, notifications
and frames come to an end there, so nothing due can be put off for ever. Event handlers and timers run,
effects follow a render, requests are answered, fail or time out (the client of
the API gives up after a minute), a goroutine that can go on does, and a closed connection
is noticed. A user, the network and another tab are never obliged, with two
assumptions in `WebSession`: the content of a main page that is shown goes on making
requests (`Fetch`; the mailbox view does so every second while an account is selected,
other content when the user uses it; a page nobody uses may show a dead session for
as long as it likes), and a document is replaced once `location.href` is
assigned. In `MailPickup` the timeout of
every listening passes: the field for it cannot hold 0.

## 4. Findings

1. `updateSyncConfig` says it writes only the times and the status of a row; it
   saves all the columns of the struct it read, so a change of the settings in
   between is lost (`per_account_sync_manager.go:739`).
2. `UpdateConfig` resets the timer when the interval changes by a call that locks
   the mutex it holds: the caller blocks for ever, and with it the account's lock or
   the manager's event loop (`per_account_sync_manager.go:816`).
3. Recovery says that it makes the manager restart the account's syncer. The
   syncer that disabled the account has stopped itself and is still in the
   map, so `UpdateSubscription` only replaces its settings: nothing runs until the
   cleanup removes it. `RecoveryRestartsSyncer` forbids just this, a recovery whose
   account's entry is a syncer whose `stopper` has fired (`per_account_sync_manager.go:1115`).
4. When a reconnection attempt fails, the toast schedules no other one: the ref
   still holds the handle of the timer that started it, and only an opened socket clears
   it. A toast whose server is away for ten seconds stays silent until the page
   is loaded again (`notifications/email-notification-toast.tsx:192`).
5. The success page closes the window and leaves the rest to the polling. The interval
   that watches a window opened by the button takes this for the user's
   cancelling, and the server sets a session that has succeeded to cancelled. Only
   cancellations sent after the success and for a window that is gone count: in the
   trace the success page closes the window and the interval finds it closed
   (`oauth2/oauth2-popup-auth.tsx:146`).

## 5. Proofs

The assumptions are `ConstantsOK` and `NoRowOK`: finite sets of accounts and
syncers, at least one permit, kinds of goroutines that are disjoint and null values
outside the sets they extend. TLC evaluates them in every run. Nothing else is
bounded: accounts, syncers, callers, intervals and permits are arbitrary.

`PerAccountSyncProofs`:

- `TypeCorrect`: `TypeOK` is inductive. Besides the range of each variable it says which
  program counters hold an account, a row or a target; without that a save could
  write a null row.
- `LostMuSafe`, `ManagerFreezes`: inductive together with `OnlyCancelledExit`, as
  `LocksInv`. Two facts carry them: a lost `m.mu` lets no entry leave the map, so
  the syncer that holds it up stays there; and no section is entered under a
  lost `mu`, nor is a syncer that lost its own ever reused.
- `PermitsCorrect`: by the set of the holders. `AcquirePermit` adds one element to it,
  `EndRound` takes one, and all other steps leave it, whatever else they do.
- `LockGuards`: by `EditsInv`, that a request between the first read and the save of an
  edit has the lock of its account, and that a lock's holder runs for that account. The
  second is also what makes the first inductive: a goroutine that returns frees every lock
  that names it, and when it begins the next request none may be left. All actions but `Request` and `Return` leave the locks alone (`LocksKept`).
- `Refinement`: each step of `Next` is a step of `SyncerRegistry` or changes none of its
  variables. `StartRefines` and the removal of a set of entries carry the weight;
  `OnlyCancelledExit` gives the guard of `End`.
- `OneLoop`, `ActiveCorrect`, `EntryLeft`, `EntriesEnd`: properties of the abstract
  registry, brought back along the refinement, so that the proof of them never
  looks at locks, rows or program counters.

`SyncerRegistryProofs`: `RegistryCorrect` proves `RegistryInv`. `OneLoop` alone is
not inductive: one needs that no syncer is entered twice (`EntriesDiffer`), or a
removal would also take the entry of another account; `CountIsExact` needs the
cardinality of the set of occupied accounts with one more and with a subset less.

`NotificationsProofs`: assumptions `LinkConstantsOK` (finitely many connections),
`HubConstantsOK` and `ToastConstantsOK`.

- `ChannelsOpen`, `CountCorrect`: by `HubInv`. The count alone is not inductive: one
  needs that a connection still being dialled is not in the map, which follows from the
  browser using only connections that the server has forgotten.
- `OneSocket`: by `SocketInv`. That at most one socket is live is not inductive, since
  the timer opens a socket without looking for others. Stronger: at most one socket is not
  closed, and none is while the timer is armed, for only an `onclose` arms it.
- `TypeCorrect`: besides the ranges, that what is on its way (in channels, in frames, in a
  replay, in the history, shown) has been broadcast (`FlowInv`), and that history and list
  keep their lengths.
- `ShownExpire`: what is shown has a timer (`ShownNotificationsExpire`), by `ScreenInv`. A
  notification that is sent again is in the list several times; the first of its timers
  removes all copies, and a message brings its own timer, so copies need not be counted.
- `ShowsOnlyWhatWasAnnounced`: each step maps to a step of `NotificationService` or to a
  stutter. `FlowInv` gives that what is shown was announced, `ScreenInv` that an unmounted toast
  shows nothing, `FirstShownCuts` the bound of the list.

The list is filtered by a recursive function, `Kept`. `KeptDefined` shows by induction that the
recursion defines a function, `KeptFilters` that the filter removes the one notification
and keeps all others. The induction is on sets of numbers: a set of counterexamples
that is not empty has a least one (`Least`, from `NatLessThanWellFounded` and
`WFMin`), and `SetInduction` states it once.

`WebSessionProofs`: assumption `SessionConstantsOK`. `TypeCorrect` and `KeysAgree` are
inductive; `ShownUserCorrect` is an action property over `TypeOK`: `ShownUserStep` goes through the
steps that change the user, the stored session, the page or `loading`, and finds that a
tab which did not show another user's name comes to it only in the three ways of the property.

`OAuth2PopupProofs`: assumptions `MaxCallbacksOK` and `PopupConstantsOK`, which only the types need.

- `TimersCorrect` needs beside it that a component not shown yet is not waiting.
- `WindowHasCloser`: by `CloserInv`. A window has someone to close it because the cleanup of a
  component that is shown closes it (`CleanupCloses`), a poll that ends the polling of a
  hidden one leaves a timer, and nothing is opened before the start is answered, which
  sets the polling going. The last is what is not in the property: a start that
  fails, or whose window is blocked, stops the timers and leaves a window open if there is one.
- `RefusedForGood` proves a property with a nested temporal operator: the set of states
  `Refused` is closed under every step, from whatever state it is entered.
- `TypeCorrect`: in four parts, each inductive (`SessionStep`, `WindowStep`, `PollsStep`, `ShownStep`).
  The hard ones are that at most one interval is referred to, and that the polls outstanding
  stay within `MaxPolls`: the first poll has room because none is made before it.

`MailPickupProofs`: assumption `PickupConstantsOK`.

- `NoAddressTwice`, `SavedIsRestorable`: `PickupInv` says of every list that some closure still
  holds, the shown one, the saved one and those of the random address requests, that it has no
  address twice, and of what is saved that it contains the selected mailbox. One lemma
  per operator on lists (`MapGood`, `AddedGood`, `BecomesGood`) carries all steps.
- `TypeCorrect`: by `PickupParts`. The bounds on instances and ids hold because an instance gives
  at most one id of its own (`CountsOK`); a callback that is live belongs to an open tab
  whose flag is set (`PageOK`).
- `ListenedToIsPolled`: an action property over `PickupParts`. `PolledKept` covers the steps that
  leave the checks of an address alone, `BeginsPolled` the starts. In `PollingStep` a check
  that goes on is followed by another; one that finds nothing to go on for belongs to an
  address that is not listened to; one that ends past the timeout is none the
  address counts on; and what else ends a check is a lost request.

Every invariant and every action property of a passing run is proved, and both refinements.
Only model-checked: the liveness properties (no prover here handles fairness; their safety
parts are proved where they have one: `ShownExpire` under `NotificationsGoAway`,
`WindowHasCloser` under `WindowIsClosed`, `LockGuards` under `AccountLockIsReleased`), and
the five violations.

## 6. Plan

In this order, each module with its runs, its mutants and, where it says so, proofs.

1. *Done:* `SyncerRegistry`, `PerAccountSync` and their proofs.
   *Done:* the notification hub with the toast and its abstract specification, `WebSession`,
   the OAuth2 session with its popup, `MailPickup`, and proofs of all their invariants.
2. Row writers: one abstract specification of what each writer of a row may change,
   with lost updates over all of them (the syncers, the fetch, recovery, the batch
   handler); the error counters and the limits of recovery with their boundaries.
3. `GmailHistory`: the fetch by history id, the duplicate check, the saved id and
   the stored mails, with crashes; no mail lost, none stored twice. Composed with a
   round of the syncer. Proof: the invariant of the stored mails.
4. `Subscriptions` with the fetch scheduler and the worker pool: an abstract
   subscription (open, delivers, closed) and its implementation; distribution
   against Unsubscribe, cleanup against a new Subscribe, Stop of the pool. Proof: index
   and map agree.
5. `TokenRefresh`: OAuth2 locks, cache and rotation. Proof: one refresh at a
   time for each account.
6. The mails tab: loads that overtake each other, pages of an account no longer
   selected, pending data cleared after five seconds; the accounts tab with its batch
   verification. Composed with the main page of `MailPickup`.
7. The activity logger's queue. Triggers: subscriptions of enabled triggers, statistics
   saved from stale structs.
8. If there is room: the triggerv2 task queue, though nothing constructs it.

## 7. Not modelled

- Most of the frontend is markup, styles, texts and forms around a
  single request; there is no state in them whose order of changes matters. The
  mails tab and the accounts tab are the exception (their loads overtake each
  other) and are planned.
- Extraction of codes from mails, AI prompts, conditions of triggers: functions of
  their inputs with no concurrent state.
- Administration of users, settings, statistics pages: one statement per request.
- `triggerv2` and `OptimizedIncrementalSyncManager`: nothing runs them.
- Protocols of the providers (IMAP, Gmail, OAuth2): their outcomes are choices.
