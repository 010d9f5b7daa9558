# A TLA+ model of AutoIRC2P

AutoIRC2P is a web chat in front of an IRC network that is reached through an
embedded I2P router. Every signed-in user has an IRC connection of their own over
their own I2P identities; one shared, read-only connection (account zero, the
*observer*) reads all rooms, and what it hears is the only thing the server ever
stores as history. A message a user posts is translated on request, written once to
the user's IRC connection, and reported as confirmed when the observer hears it
come back.

This directory models the parts of the program whose correctness depends on the
order in which goroutines, callbacks, crashes and messages meet, checks them with
TLC on small instances, and proves what matters most with TLAPS for all instances.

    tlc -config MCSendDuplicates.cfg MCSendRequests
    tlapm SendRequests_proofs.tla
    tlapm NickServ_proofs.tla
    tlapm Server_proofs.tla
    tlapm Backup_proofs.tla
    tlapm Outgoing_proofs.tla
    tlapm Translator_proofs.tla
    tlapm IrcAccounts_proofs.tla
    tlapm IrcSession_proofs.tla

Paths are relative to the repository; `sends.go`, `server.go`, `websocket.go`,
`rooms.go`, `http.go` and `security.go` are in `internal/server`, `manager.go`,
`prewarm.go`, `router_runtime.go`, `session.go` and `nickserv.go` in `internal/irc`,
`backup.go`, `open.go` and `query.sql` in `internal/store`, `auth.go` in
`internal/auth`, `api.ts` and `+page.svelte` in `web/src`.

## 1. The system

### Components, their state and their operations

| Component | State | Operations | What is hard about it |
| --- | --- | --- | --- |
| **Send pipeline** `sends.go`, `server.go`, `query.sql` | table `send_requests` (state, echo_consumed, message_id, payload_purged, dismissed, wire_text, times), `pendingSends`, `stopping` | `POST /api/messages`, `finish`, `expireSends`, `dismissSend`, the message case of `receive`, `RecoverSends`, payload retention | at most one IRC write per request identifier over retries, failures and crashes; the echo may come before, after or without the end of the write |
| **IRC account connections** `manager.go`, `destination_pool.go`, `identity.go` | `accounts`, per connection leases, idle timer and epoch, closing flag, destination slots | `Acquire`, `Retain`, release, idle callback, `runAccount`, `finishAccount`, `Close` | timers that fire while they are stopped, connections that close while they are acquired again, slots created concurrently with shutdown |
| **Prewarmed destinations** `prewarm.go` | `warm`, per warmup claimed and closing flags, the slot | `Prewarm`, `runPrewarm`, `finishPrewarm`, match, claim, cancel | the claim races the end of the warmup; private keys and endpoints change owner |
| **Embedded I2P router** `router_runtime.go`, `resolver.go` | `routerReady`, the ready channel | `runRouter`, `closeRuntime`, name lookup | the channel is replaced when a router is lost |
| **IRC session** `session.go`, `protocol.go`, `membership.go` | one wire connection, joined and unavailable rooms, read buffer | registration, PING/PONG, paced JOIN, numerics, keepalive, `Send` | joins, keepalive, sends and the reader share a connection that any of them may close |
| **NickServ** `nickserv.go` | mask, server, verified, queried, sent and done flags | `accept` | credentials may only go to a verified service, and each command once |
| **Rooms and subscriptions** `websocket.go`, `rooms.go`, `server.go` | subscribers, their queue, cursors, last room states; account and network status | subscribe, snapshot, broadcast, refresh, markRead, close | the snapshot must precede and not lose live frames; a slow reader is closed |
| **Translation jobs** `server.go`, `http.go` | job queue, set of queued jobs | enqueue, four workers | deduplication against a job that just ends, a full queue |
| **Translator** `translate.go`, `provider.go` | flights, recent failures, gate, models, next call time | `Translate`, `run`, `generate`, `attempt` | callers share a flight and may leave it; pacing and cool-down across models |
| **Limits** `security.go`, `ratelimit.go` | token buckets, socket counts, authentication windows | `allow`, `acquire` and release, sweep | a bounded table that must not forget a bucket that is not full |
| **Accounts and identities** `internal/auth` | users, sessions, observer, identity pools | register, login, logout, `Account`, `Observer` | two first logins initialise the same identity pool |
| **Store** `internal/store` | SQLite database, schema version | queries, migrations, `Prune` | batches that fail half way |
| **Backup and restore** `backup.go`, `publish_*.go` | a staged directory | `Backup`, `Restore`, publish | files that are replaced while they are copied, an interrupted publication |
| **Browser** `web/src` | rooms, messages, outgoing requests | `subscribeRoom`, `mergeOutgoing` | history and live frames overlap; answers and frames may arrive out of order |
| **Command line and wiring** `cmd/autoirc2p`, `internal/config` | none of its own | start, shutdown order, configuration | the order in which parts stop |

### How they interact

* A browser opens a WebSocket. The handler admits it (`Limits`), loads the account
  (`Accounts`), leases the IRC connection (`Acquire`) for as long as the socket lives,
  registers a subscription, writes a snapshot and then live frames.
* A browser posts a message. The handler claims a row, holds the connection with
  `Retain`, asks the `Translator`, writes once with `Manager.Send` and records the
  result. Progress goes to the user's subscriptions as frames.
* The workers of the IRC manager report to the server over one channel of events
  (`Server.Event`), which one goroutine (`Server.Run`) takes one at a time: status,
  membership, registration, and what the observer hears. That goroutine stores a
  message, confirms the request it echoes, refreshes rooms and starts translations,
  and once a second expires requests that wait for an echo.
* Retention runs beside all of it. Shutdown stops the HTTP server, the event loop and
  the workers, closes the IRC manager and then the database.

### What makes each part correct

* *Send pipeline*: a request identifier is written to IRC at most once, whatever is
  retried, fails or crashes; what is reported as failed was not written; a confirmation
  is final and belongs to one message of the user's own text; every request settles.
* *Connections*: a leased connection is stopped only by shutdown; an unleased one is
  stopped after the whole grace period; a caller of `Acquire` never waits for ever; an
  identity is never published twice; endpoints are closed by their last owner; statuses
  of an account arrive in order; `Close` returns.
* *Prewarm*: keys of a claimed warmup belong to the connection; warmups never make an
  active account exceed the capacity of the router.
* *Session, NickServ*: a message is written only to a joined room of the current
  connection; credentials only go to the verified service, each once.
* *Subscriptions*: a subscriber sees the snapshot first, then every later change, or is
  closed; what it was last told agrees with the truth when nothing moves.
* *Translator*: one call at a time; no call before the time the provider asked for; a
  text is not translated twice at a time; a caller that leaves does not disturb others.
* *Limits*: no client gets more than a burst and its refill in any stretch of time, also
  when its bucket was forgotten, at rates whose buckets recover within a minute and, but for
  a bounded excess, at all others; a full table is no ban for ever.
* *Identity pools*: all who ask for an account get the pool the database keeps.
* *Backup*: what is found under the name of a backup is complete, belongs together and
  opens with its key; nothing is published over something else.
* *Outgoing requests of a page*: what the page says of a request is true; a message is
  sent again only after the user was warned; a deleted entry stays away; a quiet page
  agrees with the server.

## 2. Plan

The order is by what a user would lose if it were wrong.

1. `SendContract`, `SendRequests` and the proofs about it: done.
2. `IrcAccounts` (connections, prewarm, router readiness): done.
3. `Translator` (flights, failure table, gate and pacing): done.
4. `RoomFeed` (event loop, history, subscriptions, snapshot and live frames, cursors,
   translation jobs and the browser's merge): done.
5. `IrcSession` (reader, join worker, keepalive, senders, room states and status) and
   `NickServ` (credentials and deadlines): done.
6. `Outgoing`: the page's list of outgoing requests over `SendContract`, and the proofs
   about it: done.
7. `Limits` and the proofs about it: done.
8. `Identities` and `Backup`: pools initialised concurrently, backup and restore beside a
   running server, crashes at any step: done.
9. Left: the observer's row and its pool, authentication windows and the admission of
   sockets, several tabs of a page that share cursors, retention against histories.

Abstract specifications: `SendContract`, which `SendRequests` implements and on which
`Outgoing` is built (done); for `Translator`, a flight as one atomic answer to all who
wait.

Theorems, in this order: the claim of `SendRequests` and what follows from it (done);
`CredentialsOnce` and `NoFurtherCredentials` of `NickServ` (done); `LimitKept` and
`RefusedWhenBusy` of `Limits` (done); `BundleWhole`, `KeptInPlace` and `OnePool` of
`Backup` (done); `PageTruthful`, `CopiesWarned`, `DeletedStaysHidden` and `PageConverges`
of `Outgoing` (done); attribution of echoes (`EchoesMatched`, `EchoAttributed`), the
answers and the step simulation towards `SendContract` (done); `RegisteredOwned` of
`NickServ` (done); the flights and the pacing of `Translator` (done); every safety
property of `IrcAccounts` (done); `SessionInv` and `ToldTheTruth` of `IrcSession` (done);
`FeedInv` and `BadgeExact` of `RoomFeed` (done).  Every safety property that a run checks is
now stated by a theorem; the `Translator` as an atomic answer per flight is left.

## 3. Modules and code

| Module | Models | Kind |
| --- | --- | --- |
| `SendContract` | what a sender of messages is promised | abstract specification |
| `SendRequests` | `sends.go`, the message case and the ticker of `server.go`, `query.sql` rows of `send_requests`, payload retention, shutdown and crashes | component |
| `SendRequests_proofs` | theorems about `SendRequests` | proofs |
| `IrcAccounts` | `manager.go` without `Send`, `prewarm.go`, `destination_pool.go`, the readiness channel of `router_runtime.go` | three components composed |
| `IrcAccounts_proofs` | theorems about `IrcAccounts` | proofs |
| `Translator` | `translate.go`, `provider.go` | component |
| `Translator_proofs` | theorems about `Translator` | proofs |
| `RoomFeed` | `server.go` (store, publish, jobs), `rooms.go` (room frames, cursors), `websocket.go`, the history handler, `web/src/lib/api.ts` and the badge of `+page.svelte` | composition of server and page |
| `IrcSession` | `session.go` without NickServ, `membership.go`, `Send` and `wireConnection` of `manager.go`, the status and membership cases of `receive` with `refreshRoomStates` | composition of account, server and network |
| `IrcSession_proofs` | theorems about `IrcSession` | proofs |
| `NickServ` | `nickserv.go`, the deadlines of `serveConnection` | component with its environment |
| `NickServ_proofs` | theorems about `NickServ` | proofs |
| `Outgoing` | `receiveSends`, `submitMessage`, `checkSend`, `recoverSend` of `+page.svelte`, `mergeOutgoing`, `refreshSends` and the socket of `api.ts`, the handlers of `sends.go` as `SendContract` | composition of a page and the contract |
| `Outgoing_proofs` | theorems about `Outgoing` | proofs |
| `Limits` | `requestLimiter` and `tokenBucket` of `security.go` | component |
| `Server_proofs` | theorems about `RoomFeed` and `Limits`, the two parts of `internal/server` between which nothing is shared | proofs |
| `Identities` | `Register`, `Account`, `loadIdentityPool` of `auth.go`, `config.Key`, `NewSQLite` | component |
| `Backup` | `backup.go` beside `Identities` | composition of commands, server and operator |
| `Backup_proofs` | theorems about `Backup` and `Identities` | proofs |
| `MCSendRequests`, `MCIrcAccounts`, `MCTranslator`, `MCRoomFeed`, `MCIrcSession`, `MCNickServ`, `MCOutgoing`, `MCLimits`, `MCBackup` | model values, descriptors, symmetry | TLC instances |

### SendRequests

One request identifier is one `(user_id, request_id)`, a body one
`(room, text, original)` and a text one `(room, nick, wire text)`: what the code
compares as a whole. `row` is the table, `call[h]` and `pc[h]` are the local variables
of a handler, one action per stretch of `server.send` between two points where another
goroutine can get in:

| Action | `sends.go` | |
| --- | --- | --- |
| `Admit` | 139-186 | `stopping` and `pendingSends` under `sendMu` |
| `Lookup` | 187-208 | `GetSend`, body compared |
| `Check` | 209-227 | readiness and `Retain` |
| `Claim`, `Load` | 228-253 | the insert that decides, the read that may fail |
| `Translate` | 282-308 | may fail, may take the whole window |
| `Prepare`, `Recheck`, `Write` | 309-350 | the row in `sending`, the last checks, `bridge.Send` |
| `Finish` | 255-281 | `FinishSend`, or the row somebody else settled |

`Receive` is the transaction of `server.receive` for a line of the observer, `Lose` a
line that never gets there (the observer is away, the transaction fails).
`ExpireSends`, `DismissSend`, `Prune` are the statements of the same names.  `Stop` and
`Restart` are the deferred part of `Server.Run`, `Crash` stands for the end of the
process between any two steps followed by the recovery on the next start.
`bridge.Send` has three outcomes: refused before anything was written, written, and
unknown (the line may be on IRC or not).  A statement that fails may have been
committed or not (`StoreMayFail`).  `sent` is a history variable, the refinement
mapping to `SendContract` reads `row` and `sent`.

### IrcAccounts

Each connection an account ever had is a record of `conn`, `accounts` maps an account
to the present one; each warmup is a record of `warm`.  The mutex `m.mu` makes each of
its critical sections one action.  `Call`, `AcquireStep`, `Retain`, `Release` are the
callers; `TimerFires` and `IdleCallback` are separate because `time.AfterFunc` starts a
goroutine that has to take the mutex, so a timer that has fired can be too late to be
stopped and meets a newer epoch.  `WorkerStep` walks through `runAccount` and
`finishAccount`: waiting for the warmup, starting the slots, attempts in turn, and four
steps at the end, since `finishAccount` unlocks, closes endpoints, reports `stopped` and
locks again.  `WarmStep` is `runPrewarm` and `finishPrewarm`.  The router is its
readiness channel, a number that changes when a new one is made.  The inside of a
session is the stage `serving`, which ends at any time.

### Translator

A flight is one shared computation of `run`; callers wait on it (`caller[c].on`).  The
map of flights is `current`, the failure table `failed`, the gate the flight that holds
it.  `CallEnds` has the outcomes of `attempt`: an answer, a failure, a quota refusal
with and without `Retry-After`, the end of the context during the call.  Times are
countdowns in ticks; `Tick` ages all of them.  `rest` and `hush` are history variables
(the time since the last call and what the provider has last asked for) that only
properties read.

### RoomFeed

`loop` is `Server.Run` in the middle of `receive`: stored, gathering subscribers,
refreshing each, broadcasting, enqueueing.  A subscription has its bootstrap (frames
written with `cursorMu` held) and its queue; `inbox` is what is on its way to the page.
A page is the state of `subscribeRoom`: its messages, what came in during a history
request, whether another request is due, cursor and badge.  History requests are
handlers of their own that read rows and then enqueue translations one by one.  Jobs
are the sets `queued` and `waiting`.

### IrcSession

`reader` is the goroutine of `runAccount`: it dials, serves and dials again.  What it
does about a line, events and writes in their order, is its list `todo`, one step per
entry, since the queue of events can be full and a write can fail.  `joiner` and `keeper`
are the goroutines that `serveConnection` waits for.  `Send` is two steps: the connection
and the room are read under the mutex (`Look`), the line is written later (`Send`), when
that connection may have been closed or replaced.  `account` is what `accountConnection.mu`
protects; `told` and `status` are what the event loop made of the events.  A failed write
closes the connection, and its line may have got through or not.  `net` is the network's
side: whom it admitted to which rooms, in which a message counts as `stray` if the account
never entered its room on this connection.

### NickServ

One session after the other, each line one step.  A notice is one of the kinds that
`accept` tells apart, and who said it.  `Late` is the passing of the deadline that counts
at the time: of the registration before the welcome, of NickServ after it.  Past the
deadline of the registration no more lines arrive, though what was buffered is still read.
`owner` is the record of the nickname at NickServ, which others may register too.

### Outgoing

All requests carry one message: the first is composed, each later one is a resend.  The
server is the contract of `SendContract` with what the handlers tell the page: answers
of POST, status, deletion and list, and one frame per change of a row (`publishSend`).
Answers arrive in any order, frames in the order of their socket.  `shown` is `outgoing`,
`call` where `submitMessage` of a request is (`posting` until the POST is answered, then
`recovering` while the status is asked for), `act` what `checkSend` or `recoverSend` is
doing with the entry it captured when the user clicked.

| Action | Code |
| --- | --- |
| `Compose`, `PostAnswered`, `StatusAnswered` | `submitMessage`, `+page.svelte:417-453` |
| `Click`, `CheckAnswered` | `checkSend`, 367-379 |
| `Click`, `DeleteAnswered` | `recoverSend`, 381-410, with the resend it ends in |
| `Merged`, `Asks` | `receiveSends`, 214-229, with the refresh a confirmation causes |
| `FeedShows` | `onMessages`, 329-336 |
| `Frame`, `Connect`, `Break` | `connect` of `api.ts`, 285-341 |
| `ListAnswered` | `refreshSends`, `api.ts:254-262` |
| `PostArrives`, `Settles`, `PostAnswers` | `Server.send` and `expireSends` by what they promise |
| `StatusAnswers`, `DismissAnswers`, `ListAnswers` | the handlers of the same purpose in `sends.go:54-127` |

`Lost` is a call that fails on its way there or back, so that a POST whose answer failed
may still arrive; `Restart` ends handlers and sockets and settles what they left without
a frame; `Reload` is a new page that knows nothing.  The states `translating`, `sending`
and `awaiting_echo` are one, `working`: they differ in wording only, and a stale one of
them cannot undo a verdict.

### Limits

The unit of time is the time in which a bucket gains one unit; a request costs `Cost`
units, so tokens are integers.  A minute has `Minute` ticks (the requests per minute), and
`full` is what a bucket holds, chosen once in `LimiterInit` from `Fulls`: the burst is a
constant of each call site, but the requests per minute are any positive number
(`production.go:83-103`), so a bucket may take longer than a minute to fill, which is what the
`max` of `security.go:181` (`Idle`) is for.  `ReadClock` is `time.Now()` at the call site, `Allow` the body
of `requestLimiter.allow` under its mutex: sweep, room, refill, payment.  Between them lie
up to `Lag` ticks, in which other callers may overtake; the refill of a bucket whose last
stamp is newer is negative, as in the code.  `spent` and `lapses` are history variables: what
each key was admitted for since each time, and how often a sweep forgot it since then, after
it had spent something.

### Identities and Backup

`dirs` maps the data directory and the places of backups to what is in them: the
database as the rows of its accounts (by which key their secrets are sealed, which pool
they have), the key, the manifest, an identity `id` of the database file as `os.SameFile`
sees it, and which parts are on disk for certain (`safe`, `anchored`).  The server reads
or makes its key (`StartKey`), opens its database (`StartDb`), registers accounts and
gives them pools: `Lookup` reads a row, `Reread` and `Load` or `Initialize` are the steps
of `Account`, so that other goroutines get between.

A command is a record of `job`, whose field `at` is the last thing it did.  A step ends
where something else can change what the next one reads:

| Action | `backup.go` |
| --- | --- |
| `BeginBackup`, `BeginRestore` | 179-187, 109-136: the destination is free, the source has three files |
| `ReadKey`, `FindDb`, `OpenDb`, `Vacuum`, `SameDb` | 45-70: key, file found, opened, copied, still the same |
| `SealBackup` | 71-105: the same key again; in the stage: validation, key, manifest |
| `CopyDb`, `CopyKey`, `FinishRestore` | 137-175: one file after the other, then checksums and validation |
| `Publish`, `SyncParent` | 189-205: files and stage are synced, exclusive rename, parent synced |
| `EndJob` | 44, 136: an error or the end |

`VACUUM INTO` of a database whose path was taken by another file may read the wrong log:
its copy is `Broken`, and validation may or may not notice.  The operator moves
directories away (`Remove`) and starts a server where nothing is; a disk loses the key
(`LoseKey`) or spoils a file of a backup (`Wear`); `PowerFails` takes every process,
every name whose directory was not synced, and every part that was not.

## 4. Runs

| Run | Instance | Question |
| --- | --- | --- |
| `send_duplicates` | two posts of one request, two bodies, store that works, one crash or shutdown | is a post answered for another body, anything written after a verdict; does every request settle |
| `send_echoes` | two posts of one or two requests that may carry the same text, failing store, one crash or shutdown | can a request be written twice or settled wrongly; do echoes confirm once, finally, and only a request of their own text; is the contract implemented |
| `irc_leases` | two callers, reader and two accounts with room for one, a router lost once | leases, idle timers, capacity, statuses in order |
| `irc_stops` | two callers, an account whose identity changes, one warmup | endpoints and keys change owner correctly; everything that waits goes on |
| `translator_flights` | two callers, two texts, two models, quotas, attempts of one tick | sharing and leaving a flight, pacing, rotation, the gate is handed on |
| `room_feed` | one page, two connections, two messages, a queue of three | nothing is lost over a reconnection; the badge is exact |
| `room_settles` | one page, two connections, one message under translation | translations arrive, and no connection blocks the loop |
| `irc_session` | two connections, two rooms, one sender, queue of one event, one line under way | messages only where the account entered; rooms and status as last told are right; everything ends |
| `nickserv` | sessions without end, three lines under way | credentials once, to the service only and not after a verdict; no chatter holds off a deadline |
| `outgoing` | one message, two identifiers, two clicks, one loss, break, reload or restart, two frames under way | is the page right whatever overtakes what; is a copy ever sent unwarned; does a deleted entry come back |
| `limits` | two callers, two keys, a table of one, a limiter that recovers within a minute and one that does not, two sweeps | does forgetting give anybody more than the limit; does a full table stay full |
| `backup` | one account, two callers, two commands, one trouble, two databases and keys | is what is published whole and kept; does an account get two pools |

`ManagerInv`, `FlightInv`, `FeedInv` and `SessionInv` are the type invariant of their
module and the safety properties named in them: `LeasesCounted` and
`EndpointsWithinCapacity`, `WaitersServed` and `NotDisturbed`, `RecentShown`,
`SentWhereJoined`.

**Why the bounds are enough.**  Two handlers are enough for every race of a claim: the
claim is one atomic insert, so a third post behaves as the second one.  Two requests are
needed for attribution and are enough, since `PendingEcho` picks one row of a set by
age.  One restart is enough for recovery, which is a function of the row alone; two
crashes differ from one only by what happens between them, and a recovered row is
settled.  The clock runs past the windows of a send (1) and an echo (2), in `send_duplicates`
past that of retention (3) too, which `AnswersMatchBody` needs; that retention erases
nothing whose echo may still come is left to the theorem `EchoesAreAttributed`, which has
any clock.
Two connections of an account are a closing one and its replacement; a third would meet
the second as the second met the first.  One warmup meets an account of the same
identity and of another primary identity, which is all that `Acquire` waits for; another
account that needs the identity is refused, and `MCIrcShared.cfg`, which is not among the
runs, checks `OneEndpointPerIdentity` and `HandedOver` with one (the theorems have any).
Two callers are enough for a flight that is shared, deserted and replaced while it still
runs: what a third caller would find is the table entry that `WaitersServed` speaks of.
`MCTranslatorSlow.cfg`, which is not among the runs, checks the safety properties with
attempts that may last two ticks, so that a caller's deadline, a cooldown or an interval can
also end in the middle of one.  Two
sessions are the one a sender, a worker or an event belongs to and the one that replaced
it; a queue of one event blocks whoever reports a second one; one line under way waits
while the reader still reports about the one before, and a second would wait behind it (the
theorems have any number).  `nickserv` needs no bound on sessions.  A
history page of one or two rows and queues of three make every overflow of a subscription
happen with two messages.  The job queue does not overflow with the one message of
`room_settles`; `MCRoomJobs.cfg`, which is not among the runs, has two messages and a queue of
one and checks `PendingOwed`: a message that a page has pending is being translated or about
to be, so that one turned away by a full queue was reported as failed.  In `outgoing` the second identifier is the resend; two clicks are a check or a
deletion that overlaps it, or the recovery of a recovery; and two frames under way are one
that overtakes an answer while another one waits, which is all a queue of 256 can do to one
message (`Outgoing_proofs` has any bound).  `limits` runs until a bucket
that no sweep removed would be older than `RefusedWhenBusy` allows.  Of its two limiters one
holds less than the refill of a minute, so that a minute decides what a sweep forgets, and one
more, so that the time of a full refill does; with the latter a sweep that forgot after a
minute would be noticed.  In `backup` two
commands are two that publish to one name, or a restore of what the other publishes; two
databases and two keys are the old and the new one of a data directory that was replaced,
for which one trouble, its removal, is enough; a power failure on top of it is left to the
theorems, which bound nothing.  Liveness runs have bounds that the behaviours in question do not reach: the
last connection of a page (`Breakable`) is not broken by the network, and an account
has as many connections as its callers can ask for.  Deadlock is
checked in `nickserv`, which runs for ever; elsewhere it is off, because the instances
stop at their bounds or with their account.

**Fairness.**  Weak fairness of every step a goroutine takes on its own (handlers under
a deadline, workers, timers that were armed, the ticker of the server loop, translation
workers) and of the clock.  Nothing is assumed of users, of the network, of the
provider's answers or of the observer: posts, dismissals, joins and leaves, losses and
the end of a session are free to happen or not.  `Translator` assumes that a call ends,
because its HTTP request has a context with a deadline.  `RoomFeed` assumes that a page
reconnects and processes what it received, and that a subscription that was closed is
cleaned up.  `IrcAccounts` assumes that calls into the I2P library return once their
context ends.  `IrcSession` assumes that the keepalive's next PING fails once the
connection is closed, and `NickServ` that deadlines pass.  `Outgoing`, `Limits` and `Backup` assume
none: their properties are about safety, `PageConverges` about a page for which nothing
is under way.

## 5. Proofs

`SendRequests_proofs` proves for every number of handlers, requests, bodies and texts,
any clock and any number of restarts, from `SendAssumption` alone:

| Theorem | Statement |
| --- | --- |
| `ClaimInvariant` | `Spec => []ClaimInv` |
| `TypeCorrect` | `Spec => []TypeOK` |
| `NeverSentTwice` | `Spec => []SentOnce` |
| `FailedMeansNotSent` | `Spec => []FailedNeverSent` |
| `ConfirmationIsFinal` | `Spec => ConfirmedFinal` |
| `SettledStaysSilent` | `Spec => SettledIsSilent` |
| `EchoInvariant` | `Spec => []EchoInv` |
| `EchoesAreMatched` | `Spec => []EchoesMatched` |
| `AnswersAreForTheBody` | `Spec => []AnswersMatchBody` |
| `EchoesAreAttributed` | `Spec => EchoAttributed` |
| `ImplementsContract` | `Spec => ContractSpec` |

None of the safety properties is inductive: that a request was sent once says nothing
about a handler which is about to send it.  `ClaimInv` adds what the code relies on:
a handler past its claim is the only one past a claim for its request (the insert can
succeed once, and rows are never deleted); while it is there and has not finished, the
row is in a state nobody else settles, or was confirmed by an echo; nothing was sent for
a request whose holder has not reached `Write`; what was sent carries the text of the
row; and a holder that died or finished never writes again.  Shutdown preserves it
because the handlers are waited for before rows are recovered, a crash because the
handlers die in the same step.  There is one lemma per action; frame lemmas give the
parts of the invariant that depend only on variables an action leaves alone.  TLC
accepts `ClaimInv` as an invariant of `MCSendEchoes.cfg` too.

`EchoInv` adds the echoes to the claim.  `EchoesMatched` ties a message to a request, but
that the text was prepared for that request is known only from `WiresPrepared`: what a row
carries, its holder prepared, and what was written the row still carries until retention
erases it.  `BodiesKept` does the same for bodies: a caller is answered with a row after a
comparison, and nothing but retention ever changes the body of a row.  `PurgedLate` is what
makes the order of the two windows matter: the twenty minutes in which an echo is accepted
are over before a payload is erased, so that a line which arrives in time finds the row it
was written for, unless another line has confirmed it.  For `EchoAttributed` some request
has to be the oldest of those that match; the lemma `SomePending` finds it by creation time
and then by row number.  `EchoesCounted` says that a confirmation used up a line that had
left IRC; the contract needs it, since the echo of one request may confirm another.  Each
step is summed up by what it does to a row (`EveryRowSteps`) and to a caller
(`EveryCallSteps`).

The refinement maps a step that inserts a row to `Accept`, a write that may have reached IRC
to `Transmit`, a matched echo to `Confirm`, and every other step, among them recovery and
expiry, which touch any number of rows, to one `Settle` or to a stutter
(`SettleOrStutter`).  TLC accepts `EchoInv` as an invariant of `MCSendEchoes.cfg` and of
`MCSendDuplicates.cfg` too.

`NickServ_proofs` proves for an inbox of any length and sessions without end, from
`NickServAssumption` alone:

| Theorem | Statement |
| --- | --- |
| `TypeCorrect` | `Spec => []TypeOK` |
| `ServiceInvariant` | `Spec => []ServiceInv` |
| `CredentialsCorrect` | `Spec => []CredentialsOnce` |
| `VerdictIsFinal` | `Spec => NoFurtherCredentials` |
| `OwnerInvariant` | `Spec => []OwnerInv` |
| `ReportsOwner` | `Spec => []RegisteredOwned` |

`CredentialsOnce` compares what the network received with what it said of NickServ; a
step of the reader sees neither.  `ServiceInv` connects them: a numeric 313 that is under
way or was read comes from an answer that vouches (`Vouched`); until the WHOIS has been
answered nothing is known and nothing was sent (`Uninformed`); the network welcomes once,
so that WHOIS is asked once and its answer cannot be revised after credentials were sent
(`OneWelcome`); and what was received is in `sent` (`ReceivedIsSent`).  `TypeOK` carries
the two implications of `Service`: verified only by all that WHOIS shows, sent only when
verified.  The steps of `accept` are lemmas about `Proper`, the steps of the reader two
lemmas, one for writes that carry credentials (`ReadAndAuthenticate`) and one for those
that do not (`ReadPlainly`).  TLC accepts `ServiceInv` as an
invariant of `MCNickServ.cfg` too.  `RegisteredOwned` compares what the reader last learnt
with what the network holds; between the two lies the inbox, so `OwnerInv` adds
`ConfirmedOwned`: a confirmation that is still to be read is true of the network, which
takes a registration from nobody while its session lasts.  The steps are lemmas by who moves: the reader
(`ReaderOwner`), the network (`NetworkOwner`) and everybody else (`PlainOwner`).  TLC
accepts `OwnerInv` as an invariant of `MCNickServ.cfg` too.

`Server_proofs` proves for any number of pages, messages and connections, any messages of
the user's own, any size of queues, of the table of jobs and of history pages, from
`RoomFeedAssumption` (sizes are positive, bounds are numbers):

| Theorem | Statement |
| --- | --- |
| `FeedIndInvariant` | `Spec => []FeedIndInv` |
| `FeedInvariant` | `Spec => []FeedInv` |
| `BadgeInvariant` | `Spec => []BadgeExact` |
| `NothingIsTakenBack` | `Spec => NothingTakenBack` |

`RecentShown` and `BadgeExact` speak of a page that has caught up: nothing is on its way to
it.  The inductive invariant, at the end of `RoomFeed`, says of every moment what is on its
way.  `Covers` takes each of the newest messages: while the connection serves its page, the
message is shown, or lies in the connection's queue, or is about to be published, or is in a
history answer, or a history request is under way or due, or the page shows that one has
failed, or the greeting that makes the page ask is still to come.  A message stored before a connection subscribed is in no
queue, and the greeting answers for it; one stored later is in the queue.  The request that a
page asks on the greeting may find another one under way, which read its rows earlier: it is
remembered in `again`, so that `Asks` holds from the greeting until rows are read, and an answer
covers everything that was stored when its rows were read, while what comes later was queued.
Rows that arrive are merged with what came in meanwhile, so nothing shown is replaced by less.
`Says` follows the state of the room: the last room frame in the live queue has the present count,
or there is none and the last of the bootstrap has it, or there is none either and the page knows
it already, unless the event loop still has to refresh this connection.  A snapshot is taken and
written with the queue locked, hence `Silent` during the bootstrap.  `Agrees` makes the count the
same on both sides, since a read may be at the page, on its way or at the server.  `Linked` is why
only the present connection matters: a page takes a new one when it has left the old one, and
connections are used in order (`SocketInv`), so that none has two pages.  `DataInv` bounds what
anybody can know by what is stored.

There is one lemma per action; each sums the step up by what it does to one page and one
connection and leaves the rest to a frame lemma (`OnePage`, `OneSub`, `PageAlone`, `SubAlone`,
`SilentStep`, `BroadcastStep`).  Facts about what a queue contains and says last are lemmas about
appending, taking the head and emptying it.  `NothingTakenBack` is an action property that no run
lists; TLC accepts it, and `FeedIndInv` as an invariant, on `MCRoomFeed.cfg`, and the three parts
of `FeedIndInv` on `MCRoomSettles.cfg` and `MCRoomGap.cfg`.

For the limiter, whose definitions have names of their own (`LimiterSpec`) because the module
holds the proofs of both, it proves for all keys, callers, rates, bursts and sizes of the table,
without a bound on the history, from the assumptions of `Limits`, which are about the types of the
constants and no more:

| Theorem | Statement |
| --- | --- |
| `LimiterInvariant` | `LimiterSpec => []LimitInv` |
| `BurstAndRefill` | `LimiterSpec => []LimitKept` |
| `RoomComesBack` | `LimiterSpec => RefusedWhenBusy` |

`LimitKept` bounds what was admitted in every window of time: a burst, the refill, the lag,
and for each lapse, that is each time a sweep forgot the key after it had spent, the `Excess`.
A sweep forgets a bucket after `Recovery`, which is a minute or the time of a full refill,
whichever is longer; within it the window pays for the refill, so forgetting gives away only
what that falls short of a burst and the two lags that stamps may be off.  With rates that
refill a burst within a minute less twice the lag, as the defaults do, that is nothing; with
lower rates it is at most twice the lag, and lapses are at least `Recovery - Lag` apart.  With
a minute instead of `Recovery` it would be as much as a burst.

`LimitKept` alone is not inductive, since it does not say what a key may still spend.
`Solvent` adds the tokens: spent and left together never exceed a burst, the refill up to the
bucket's stamp and the excess of the lapses, where a caller that overtook another may leave the
bucket in debt by no more than the lag.  `Forgotten` says what makes a sweep harmless: a key
without a bucket was idle for so long that the window and the excess pay for a new burst.
`LapsesRare` counts the lapses against the time they need, up to the key's last request while
it has a bucket.  `SpentFollows` ties what was spent to the stamp of the bucket, `StampsFresh`
bounds how old stamps are, `SweptRecently` how long a bucket can outlive its use, which
`RefusedWhenBusy` follows from.  TLC accepts `LimitInv` as an invariant of `MCLimits.cfg` too.

`Backup_proofs` proves for any number of accounts, goroutines, directories, commands, keys,
pools and troubles, from `HomeAssumption` (the data directory is not a place for backups)
and `FilesAssumption` (what is missing or broken is not what it stands for):

| Theorem | Statement |
| --- | --- |
| `BackupInvariant` | `Spec => []BackupInv` |
| `BundlesWhole` | `Spec => []BundleWhole` |
| `BundlesKept` | `Spec => []KeptInPlace` |
| `PoolsOnce` | `Spec => []OnePool` |

`BundleWhole` speaks of what has been published; `BackupInv` follows a command to that
point.  `Progress` holds the argument about a data directory that is replaced under a
backup: databases at `Home` are numbered and the numbers only grow (`HomeCounted`), so a
snapshot that mixed two files (`Broken`) is older than any database found at the path
later, and the second look at the file, which wants the first number, refuses it.
`Vouched` holds the one about a restore: a manifest that can be read is that of a
committed state and of a key that opens it, so that three files copied one after the
other from whatever was there belong together when the checksums agree.  `Sound` says
what is synced, which makes a power failure harmless to whatever no server has used;
`InPlace` that a finished command's directory is anchored.  `PoolsAgree` adds to `OnePool`
that a pool which a goroutine has only read is the one in the row: a pool is stored
where there was none, and no statement changes it again.  Steps in the private stage share
one frame lemma (`StepKeeps`), losses another (`TroubleKeeps`), what the server does to its
directory a third (`ServerKeepsJobs`).  TLC accepts `BackupInv` as an invariant of
`MCBackup.cfg` too.

`Outgoing_proofs` proves for any set of requests, any number of clicks, frames and troubles,
from `RequestsAssumption` (the name of the first frame is no request) alone:

| Theorem | Statement |
| --- | --- |
| `PageInvariant` | `Spec => []PageInv` |
| `PageTruthfulTheorem` | `Spec => []PageTruthful` |
| `CopiesWarnedTheorem` | `Spec => []CopiesWarned` |
| `DeletedStaysHiddenTheorem` | `Spec => []DeletedStaysHidden` |
| `PageConvergesTheorem` | `Spec => []PageConverges` |

The four speak of what the page shows; what may still reach it is in `PageInv`.  Whatever is
under way is `Current`: a row as it is or as it was, and since states only move on, it is
never too good and never too bad to be `Believable` when it arrives, in whatever order.  A
`Closed` request is dismissed or was refused, and neither the page nor anything under way
offers it again; a new page learns of it only from rows that say so.  `CopiesWarned` counts
the requests that are `Open`, that may be on IRC or may still be resent unwarned: the first
post opens one, a resend without a warning closes one before it opens another, and a resend
after the warning pays with an element of `warned`.  `PageConverges` rests on `ListsTell`: a
list of the present connection together with the frames behind it tells every state that is
settled, since a frame follows every change while there is a socket, and a list carries the
number of its connection.  Each step is first summed up by what it does to a request
(`Moves`), to what is under way and to what is shown; the parts of the invariant follow from
the sums.  TLC accepts `PageInv` as an invariant of `MCOutgoing.cfg` too.

`Translator_proofs` proves for any number of callers, texts, flights and models and any
setting of the times, from `TranslatorAssumption`:

| Theorem | Statement |
| --- | --- |
| `ShareInvariant` | `Spec => []ShareInv` |
| `FlightsShared` | `Spec => []FlightInv` |
| `PaceInvariant` | `Interval <= Cooldown` implies `Spec => []PaceInv` |
| `CallsArePaced` | `Interval <= Cooldown` implies `Spec => CallsPaced` |

`FlightInv` says what a caller sees.  That nobody gets another's cancellation depends on the
count of waiters, also of a flight that has landed: those who collect its answer stay in the
count, so that it is never too low and the last to leave is the last (`WaitersKept`, lemma
`LeaveShares`).  A cancellation then is the result of deserted flights only and is not
remembered (`CancellationsOwn`).  `CurrentAloft` says that the flight a newcomer joins is
under way and not cancelled, `FlightsNumbered` that a new flight takes a number that nobody
waits for.  The steps of a flight share one lemma (`FlightContinues`): until it lands nobody
outside sees them.  `PaceInv` has the gate (`GateHeld`: one flight between taking the gate and
the end of its call) and what the provider is owed (`PauseKept`: never more than the
translator waits for, and during a call no more than an interval).  TLC accepts `ShareInv` and
`PaceInv` as invariants of `MCTranslatorFlights.cfg` too.

`IrcAccounts_proofs` proves for any number of clients, accounts, identities, connections and
warmups, any pools and any setting of the limits and the grace period, from
`AccountAssumption` (the sets of clients, accounts and addresses are finite, there is a
descriptor, and no pool has an identity twice, which `validateIdentityPool` sees to):

| Theorem | Statement |
| --- | --- |
| `LeaseInvariant` | `Spec => []LeaseInv` |
| `LeasesAreCounted` | `Spec => []LeasesCounted` |
| `StatusesInOrder` | `Spec => StatusInOrder` |
| `StopsAreJustified` | `Spec => StopsJustified` |
| `WaitersAreReachable` | `Spec => []ChannelsReachable` |
| `WarmupsAreHandedOver` | `Spec => []HandedOver` |
| `EndpointInvariant` | `Spec => []EndpointInv` |
| `IdentitiesAreExclusive` | `Spec => []OneEndpointPerIdentity` |
| `BooksAreRight` | `Spec => []ManagerInv` |

`LeasesCounted` is about the connections in the table, and a new connection enters it with
the caller that asked for it; `TableInv` says that the one it replaces has left, that
connections are numbered in order and that exactly the live ones are listed.  `StopInv`
follows a stop: only a stopped connection's worker leaves, a closed manager has stopped all
of them, and the reader is never leased, so that it never counts down.  `TimerInv` is what
makes a late callback harmless: a timer that is armed, or a callback that still names the
present epoch, belongs to the time since the last lease ended, and then the lease count is
zero and the time it waited is the grace period.  `StopsJustified` follows, since a callback of an older epoch does
nothing.  `StatusInOrder` needs `SpokenInv`: while an account has an entry, nobody newer than
that entry has spoken, and a worker speaks before it removes the entry.

`HandedOver` says who owns an endpoint; that needs the whole life of a warmup (`WarmOK`): it
is listed until it is claimed or done, it is claimed only before it is closed, and whoever
claimed it is a worker that still waits for it (`SlotOK` has the worker's side, and that the
endpoints of a connection belong to a live worker).  `OneEndpointPerIdentity` then rests on
`ApartInv`, which no single function of the code ensures: entries of the table have disjoint
pools, listed warmups have different identities, and no listed warmup has an identity of a
connected account.  Its case of a new connection is the lemma `CreateApart`: `Crowded`,
`Clashes` and the search for warmups that block together leave no entry it could collide with.
The capacity is arithmetic on the same tables: the endpoints of users inject
into the pairs of an account and a place in its pool (`PooledBound`), a claimed warmup takes
the place that its claimer has not filled yet, and a listed one has its own
(`EndpointsFit`).  A step is first summed up by what it does to a table (`TableCases`,
`StepCases`, `ShapeCases`); `TypeOK` is part of `LeaseInv`.  TLC accepts `EndpointInv` and
`ChannelInv` as invariants of `MCIrcLeases.cfg`, `MCIrcStops.cfg` and `MCIrcShared.cfg` too.

`IrcSession_proofs` proves for any list of rooms, any senders, any number of connections and
queues of any length, from `IrcSessionAssumption` (the queues hold something, and there is a
room to join, since `strings.Split` in `config.go` returns at least one name):

| Theorem | Statement |
| --- | --- |
| `SessionInvariant` | `Spec => []SessionIndInv` |
| `SessionsCorrect` | `Spec => []SessionInv` |
| `SubscribersToldTheTruth` | `Spec => []ToldTheTruth` |

`SentWhereJoined` compares a message with what the network did, which the account knows only
from lines that were on their way.  `JoinInv` follows a room from the network through the
inbox to `account.joined` and on to the senders: whoever looked up the present connection,
while it is open, looked up a room entered on it.  A sender with an old connection is
harmless because connections are numbered in order, so that it never becomes the present one
again; a new session is not taken for the old one because `PhaseInv` says that a session leaves
nothing behind: outside of one there are no joined rooms, no open connection and no worker.
`ToldTheTruth` is about a moment when nothing is on its way; `TruthInv` says of every moment
that each room was told as it is or that something which makes the server look again is in
the queue of events or in the reader's list, and that after a session the last thing in the
queue, if not already heard, is its end.  The latter is kept by the join worker, which may
report an error at any time while it runs, only because `PhaseInv` rules out workers after a
session (`joins.Wait`).  The reader's steps are shared between a lemma for steps within
a session (`TruthServing`) and one for the ends of attempts and sessions (`TruthEnds`).  TLC
accepts the four parts of `SessionIndInv` as invariants of `MCIrcSession.cfg` too.

Only model-checked: all liveness, which is out of the prover's reach together with ENABLED and
fairness (`RequestsSettle`, `AcquireReturns`, `UnleasedStops`, `CloseCompletes`, `GateHandedOn`,
`PendingSettles`, `LoopAdvances`, `SessionEnds` and `DeadlinesHold`); `PendingOwed`; and `ConfirmedWasSent`,
`QuotaHeeded` and `GapCovered`, which do not hold (below).

## 6. Where the documentation says more than the code does

Four times a comment or the README says what the code does not keep.  The configurations
below are no part of the runs above; under each TLC prints the behaviour.

* `tlc -config MCSendMisattributed.cfg MCSendRequests`, `ConfirmedWasSent`: `PendingEcho`
  (`query.sql:48`) takes the oldest request with the same room, nick and text among those
  in `sending`, `awaiting_echo` and `unconfirmed`.  `sending` is set before the write, so
  with two posts of the same text an echo can confirm the one that was not written;
  `README.md:87` says that successful writes wait for their echo.
* `tlc -config MCTranslatorQuota.cfg MCTranslator`, `QuotaHeeded`: `attempt` returns before
  its accounting when the flight's context is done (`provider.go:98`).  A quota refusal of
  a flight that was deserted in that moment neither cools the model down nor postpones the
  next call, which the comment at `provider.go:109` says must not happen.
* `tlc -config MCTranslatorCooldown.cfg MCTranslator`, `CallsPaced`: the configuration
  admits a `TRANSLATION_COOLDOWN` below `TRANSLATION_INTERVAL` (`config.go:122-129`).  Then
  a quota refusal without a `Retry-After`, which sets `t.next` to the end of the cooldown
  (`provider.go:110`), makes the next call come sooner than after any other answer;
  `README.md:138` recommends the interval against exactly these refusals.  The attempt to
  prove `CallsPaced` found it; the theorem assumes `Interval <= Cooldown`.
* `tlc -config MCRoomGap.cfg MCRoomFeed`, `GapCovered`: after a reconnection the page loads
  the newest history page and merges it with what it shows (`api.ts:226`).  When more
  messages arrived in between than a page holds, the messages shown have a hole in the
  middle; `README.md:95` says that the gap is covered.

## 7. What the models leave out

* *SendRequests*: the limiters before `Admit`; readiness and the caller's context are
  free at each check; an IRC nick belongs to one user; other people's lines carry other
  nicks and are left out; the frames `publishSend` sends to pages.
* *IrcAccounts*: the inside of a session; events reported to the server are delivered;
  reasons for a failed attempt; backoff times (an attempt may come at any time); caller
  contexts and failures to restore keys are one action, `CallerGone`; the order in which
  Go walks a map is free.  `DestinationCapacity` is the sum computed by `New`.
* *Translator*: validation of the input, prompt and placeholders, parsing of answers;
  deletion of old translations; the saturation of `Retry-After`.
* *RoomFeed*: one room and one language; switching accounts and the identity check of
  the page; several tabs that share cursors; deletion of old messages; room states,
  network status and outgoing requests, which use the same queue.
* *IrcSession*, *NickServ*: messages of channels and of services, their redaction, CTCP;
  parsing, partial and malformed frames (the end of a session); PING in `IrcSession`; the
  guest's random nickname; accounts without a password in `NickServ`; the last refresh of
  rooms after an account is removed.  One write is one step, because `writeMu` is held.
* *Outgoing*: one room, one account and one user's page; drafts; the expiry of what is
  shown; several pages of one user, which the server tells the same; the limit of 50 rows
  of a list; rows whose text retention has cleared.
* *Limits*: `DisableRateLimits`; clocks that go back; the authentication windows of
  `ratelimit.go` and the counters of socket admission; the rounding of floating point.
* *Identities*, *Backup*: the observer's row, which follows the same two statements as a
  user's; sessions, messages and migrations, which are part of a committed state as a
  whole; a file of the same inode put back between two checks of a backup; SQLite's own
  recovery from its log after a crash, which is taken to work.
* Not modelled at all, see `PROJECT.json`: migrations, configuration, retention of
  messages, the HTTP perimeter, prompts, and the rendering of the web interface.
