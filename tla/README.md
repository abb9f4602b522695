# elivagar in TLA+

A verification project for the elivagar monorepo: a Discord music bot
(`apps/sayho-bot`), an authentication service (`apps/auth`), a notification service
(`apps/notification`) and the libraries they share (`libs/*`). TLA+ modules model the
code, TLC checks them on small instances, and TLAPS proves the safety properties that
matter most for every instance. Every definition that stands for code names its lines in
`PROJECT.json` under `map`.

Contents: [1 Inventory](#1-inventory) · [2 Modules](#2-modules) ·
[3 Reading the models](#3-reading-the-models) · [4 Runs](#4-runs) ·
[5 What the code does differently from what it says](#5-what-the-code-does-differently-from-what-it-says) ·
[6 Proofs](#6-proofs) · [7 Not modelled](#7-not-modelled) · [8 Plan](#8-plan)

## 1 Inventory

All processes are Node.js: single-threaded, code runs without interruption up to its next
`await`. What makes it hard is therefore not threads but *awaits*: state that is read
before one and used after it, several async functions in flight on the same maps, and
callbacks (player events, timers, Kafka messages) that come in between. No process
installs an `unhandledRejection` handler, so a rejection nobody catches ends the process.
Whether it is then started again is left to the deployment: the repository has no
supervisor of the services (`docker/compose.local.yml` has only backends and their UIs).
Where a model lets a process start again, it says what it assumes of that.

### The music bot (`apps/sayho-bot/src`)

| Component | State | Operations | Talks to | Hard, and what makes it correct |
|---|---|---|---|---|
| **PlayMusicUseCase**, LeaveChannelUseCase, HandleVoiceStateUseCase | `idleTimers` per guild; the local variables of running `playNext` calls | `play`, `playNext`, `skip`, `stop`, stream recovery, player callbacks, idle disconnect, bot alone | everything below | many `playNext` run at once and share the queue, the player and the connection. A guild never claims to play with nobody to move it on; flag and idle timer keep step; an idle bot leaves |
| **QueueState** / QueueStateManager / ManageQueueUseCase | per guild `songs`, `isPlaying`, `volume` | add, remove head, clear but current, shuffle | use cases, commands | the head at the time of an event need not be the song the event is about |
| **VoiceConnectionAdapter** | `connections`, `pendingConnections` per guild | get or create, destroy, subscribe | @discordjs/voice | joins take up to 30 s and are shared; stop, reconnect and time-out race them. No connection out of reach, no waiter without a promise |
| **GuildInfraStateManager** | per guild player, now-playing message, delete queue of search menus | set and delete player and message, track and clear menus | use cases, commands | a player outlives its registration while it holds a stream; a menu is on display before it is tracked |
| **CommandHandler**, **EventHandler**, DiscordService, the error and context aspects | the login of the client | text and slash commands, menu selections, `voiceStateUpdate` | use cases, search | every await may throw under nested aspects that swallow or rethrow; an interaction is acknowledged once; self-deletions reject unhandled |
| Song search, **stream provider**, **PoTokenAdapter** | token, `isRefreshing`, `window` and `document` of the process | search, stream with a retry, refresh at the start and by cron | YouTube | refreshes overlap, fail or hang; clients take the token as it is |
| **SongService** | `song` table | count a play, list | PostgreSQL | a read-modify-write of the counter in overlapping transactions |
| Message sender, Discord client | client session | send, edit, delete messages | Discord | every send may fail |

### The services and the libraries

| Component | State | Operations | Talks to | Hard, and what makes it correct |
|---|---|---|---|---|
| **GrpcThrottleGuard** (auth) | `store`, `lastCleanup` | `canActivate` | clock | window boundaries and the clean-up inside a request. It limits what it says, refuses no one early, and forgets old peers |
| **AuthService**, **JwtService** | user table, signed tokens | register, login, validate, refresh | PostgreSQL, Kafka | look-up, create and event around one transaction: one account per e-mail, a welcome for it |
| **AuthGuard**, AuthEventListener (libs/auth) | validated tokens in Redis | validate and cache, drop on revocation | gRPC, Redis | the answers of the cache and of the service arrive late; a token is not accepted for ever |
| **Request context, filters, interceptors, logger** (libs/core) | the CLS store of each request | guards, interceptors and the exception filter around a handler | – | every request sees its own context; what a guard or the serializer throws is an unhandled rejection |
| **CacheService.wrap, CacheAspect** (libs/cache) | `inflightRequests`, Redis | coalesced, cached calls | Redis | the table is consulted after an await. One request in flight, nobody waits for a finished one |
| **KafkaService** (libs/kafka) | `_state`, `pendingMessages` | connect with retries, emit, drain, disconnect | Kafka | emissions during the drain; lost answers; redelivery |
| **Lifecycle** (libs/core): registry, readiness gate, grace period, bootstrap | registered connections and their states | connect, wait for ready, listen, shut down | the connections, NestJS | a sweep of health checks with awaits between; a signal in the middle of bootstrap |
| **NotificationService** | notification table | create on event, list by page, mark read, remove | Kafka, PostgreSQL | redelivered events; operations that overlap |
| **Migrations** (libs/mikro) | schemas and journals of one shared database | up, up of all services, down | PostgreSQL | a migration of one service changes what the others own |
| gRPC client and generated code (libs/grpc), ORM configuration | – | – | – | no state |

The hazards, each at its line, with the properties that look for it, are in
`PROJECT.json` under `hazards`.

How they interact: the bot's commands search YouTube, call the use cases, which share
queue, player, connection and timers of a guild; `playNext` takes a stream (made with the
PO token) and records a play. The auth service registers users and emits an event, from
which the notification service makes a welcome. HTTP services let a request in through
AuthGuard, which asks Redis and then the auth service by gRPC (so far every HTTP route is
`@Public()`, and no route uses that way: `notification.controller.ts:28`,
`sayho-bot.controller.ts:33` and `39`, `song.controller.ts:10`). Every process connects to
its backends through the lifecycle library, and Kafka, Redis and the database are shared.

## 2 Modules

| Module | Models | Kind |
|---|---|---|
| `QueueState` | the song queue and what may be done with it | operators |
| `VoiceConnection` | the adapter's two maps and the library's connection | component: variables, parts of steps |
| `IdleTimer` | the idle-disconnect timers and their callbacks | component |
| `GuildInfra` | registered player, dropped players, now-playing message | component |
| **`PlayMusic`** | the use cases, commands and events of one guild; composes the four above | specification |
| `PlayMusicProofs` | theorems about `PlayMusic` | TLAPS |
| `Answers` | what a payload gets back: replies, acknowledgements, menus and the delete queue, reports | component |
| **`Commands`** | the command and event handlers, await by await; composes `Answers` | specification |
| `CommandsProofs` | theorems about it | TLAPS |
| `PoToken` | refreshes of the PO token, the streams made with it | component |
| `Songs` | `SongService.create` in overlapping transactions | component |
| **`Playback`** | streams and recorded plays of several chains; composes the two above | specification |
| `PlaybackProofs` | theorems about it | TLAPS |
| **`SingleFlight`** | the cache aspect and the in-flight table for one key | specification |
| `SingleFlightProofs` | theorems about it | TLAPS |
| `FixedWindow` | what a fixed-window limiter promises | abstract specification |
| **`GrpcThrottle`** | the throttle guard, which implements it | specification, refinement |
| `GrpcThrottleProofs` | theorems about it, the refinement among them | TLAPS |
| `AuthService` | registration and its transaction | component |
| `KafkaTopic` | producer, topic and consumer group of the user-created event | component |
| **`NotificationService`** | the table of notifications and its operations | component and specification |
| **`Accounts`** | a registration's way to its welcome; composes the three above | specification |
| `AccountsProofs` | theorems about it and about the operations of `NotificationService` | TLAPS |
| `TokenService` | login, validation and refresh of tokens | component |
| `AuthGuard` | the guard with its cache, the revocation listener | component |
| `RequestLog` | the lines a request leaves in the log | component |
| **`HttpRequests`** | requests through guards, interceptors and filter; composes the three above | specification |
| `HttpRequestsProofs` | theorems about it | TLAPS |
| `ManagedConnection` | connect, disconnect and health of Kafka, Redis and the database | component |
| **`Lifecycle`** | bootstrap, readiness gate, shutdown, another start; composes it | specification |
| `LifecycleProofs` | theorems about it | TLAPS |
| **`Migrations`** | the migrations of the services in their shared database | specification |
| `MCPlayMusic`, `MCGrpcThrottle`, `MCAccounts`, `MCLifecycle` | symmetry, functions and sequences for constants | for TLC |

Components are joined by `EXTENDS`. Each has its own variables, a type predicate and an
initial predicate, and the parts of steps that touch those variables; the composing module
says which parts make a step.

## 3 Reading the models

### PlayMusic

One guild. An action is what the program does between two awaits of one async function,
with everything it calls in that turn: `Play(n)`, for instance, is the `/play` handler
from the search result to `playNext`'s first await, with `addSongs`, the flag and
`clearIdleTimer`.

**Chains.** A call of `playNext` is a chain in a slot of `Task`. `chain[t].at` says what
it awaits, `song` which song it captured *before* the await, `by` who called it, which
decides what a rejection does: under `play` the flag is taken back, under `skip` the
command's error aspect logs it, under a player callback nobody awaits the promise and the
process dies (`Restart`).

| `at` | awaits | source (`play-music.usecase.ts`) |
|---|---|---|
| `stream` | the audio resource | 82, 194 |
| `failReport`, `emptyReport` | the messages of the recovery | 201, 211 |
| `join` | a pending voice connection | 95 |
| `connected`, `rejected` | nothing: it is ready to run | 97, – |
| `nowPlaying` | the now-playing message | 138 |

`Settled` in a guard says that no chain is ready to run. When a join settles, every chain
that shares its promise runs before the next event; they run in any order in the model,
in the order of their calls in the code.

**What the library does** (`@discordjs/voice`, seen from the code that uses it): a guild
has at most one connection that is not destroyed, and `joinVoiceChannel` returns it again
when it lost its channel; `destroy()` of a destroyed connection throws (`StopThrows`); a
player whose connection is destroyed pauses by itself and never becomes idle through
playing, but its stream may still end or fail, so a dropped player that holds a stream
(`orphans`) still raises events; a stream error raises `error` and then, in the same turn,
the change to idle (`OnErrorThenIdle`); `buffering` is one with `playing`.

**Left out, on purpose.** `playNext` tests for an empty queue first (70–80), but each of
its callers has just seen a song in the same turn, so those branches are unreachable and
not modelled. Volume and embeds carry no control. The answers to commands are in
`Commands`, the plays that are recorded in `Songs`.

### Commands

Two payloads, each a text message, a slash command or a selection in a menu of a search.
`pc[p]` names the await a handler is at, which tells what aspects a throw passes.
Every awaited call may throw (`CallFails`); what the error aspect does with it is `Report` and `Settles`. `Timer(p)` is the `setTimeout` that deletes a
reply: nobody catches its rejection (`TimerRejects`), so the process ends and its
in-memory delete queue is gone while the menus stay on display (`strays`). A moderator
may delete a reply or a menu at any time. `Login` may fail: the adapter swallows it and
the process stays deaf. Music operations are one await that succeeds or throws.
`MissingInput` is the set of kinds of payload that may come without the input of a `/play`:
texts only, since the slash command is registered with its option required
(`discord.service.ts:60`) and Discord sends none without it. `parsePlayCommand` has a branch
for that (`command.handler.ts:200-206`); if it were reached, `play` would reply a second time
(240). That is the mutant of `AcknowledgedOnce`.

### Playback

`PoToken` counts time in ticks of which `Interval` make the cron job's period and `Ttl` the
token's life. A refresh is three awaits; it may hang in each of them for ever, and the
globals it replaced stay replaced. A tick of the run is two hours: a period of 4 h and a
life of 6 h, as in the code. A chain creates a client with the token as it is, retries once,
and its song's play is recorded in a transaction of two requests (`Find`, `Flush`), at
READ COMMITTED and without a lock; nothing makes a URL unique.

### Accounts, NotificationService

A call of `Register` is a constant and so is the user it creates. Its row is visible from
its commit; the unique constraint decides between two flushes of one e-mail. The event is
emitted when the method returns, before the flush. `KafkaTopic`: a send whose answer is
lost may be appended twice, or never; the consumer's position advances when a handler
settles and is committed later; a crash falls back to the last commit, and a group without
one starts at the end of the topic. That the consumer is started again is an assumption
about the deployment. `NotificationService` has an own specification for what clients do to
the table: a reader asks for one page after another, of all its notifications or of the
unread ones (`unreadOnly`), while rows come and go and are marked as read. The list is
ordered by `createdAt`, taken to be strict in the order of the commits: rows of one
millisecond, which PostgreSQL orders as it likes, are left out.

### HttpRequests

Tokens are records that nobody stores; the clock is a counter. A request's guard awaits
the cache, the auth service and the cache again, and each answer is a step. The order of
guards is NestJS's: those of the application before those of `CoreModule`. Around the
handler are `RequestLogInterceptor`, the serializer and `ResponseInterceptor`, from outside
in. What the handler throws the last one makes a `GeneralException`, which the filter answers
(`HandlerThrows`). Everything else reaches an async filter that rejects, and the process ends
and takes the requests in flight with it (`Restart`, `cut`): what a guard or the router throws
(`Refuse`), and what is thrown by `catchError` itself, which reads `err.message` of a
rejection with nothing, by the serializer outside it, by the writing of the response after its
line in the log, or by the filter's own answer with a status no response can have (`Crash`).
`RequestLog` puts a line in a request's log where the interceptors, the guard and the filter
do; the value of a line is whose id it carries. The revocation event has a listener but no
emitter: it is an input. That `AsyncLocalStorage` keeps the stores of requests apart is
assumed of Node.js; what is at stake is what is put into a store, and from which entry of the
cache. `CacheHit` reads and answers in one step: how long a read of the cache takes is outside
the bound of `AcceptanceIsBounded`.

### Lifecycle

One process with Kafka, Redis and a database, which the notification service and the bot
have, in the order of their `onModuleInit`: the global Kafka module, the cache, the root
module's `MikroConnectionService`. `phase` is how far `bootstrap` is, `shutdown` how far the
hooks are; both go on at once when a signal comes early. What `bootstrap` throws ends the
process, and it may be started again (`Restart`). `BackendChanges` loses a backend or brings
it back; these and servers that cannot start are `MaxFaults` in all, however often the process
is started. Kafka's `isHealthy` only looks at the state, the others ask the backend.
The drain waits until nothing is pending or gives up; emissions made when it has ended are
in `late`. `Dispose` is taken to end, though the close of the gRPC and HTTP servers waits for
calls that are open.

### SingleFlight

One cache key, any number of calls in one process. A request to the store takes effect and
is answered at different moments (`ReadMisses`, then `MissArrives`), which is the await
that the in-flight table has to survive. A promise of `wrap` is named by the call that
made it; `Settle` is the `finally` clause together with everyone it releases.

### GrpcThrottle

`canActivate` has no await, so a request is one action: clean up, then open a window,
count, or refuse. Time is a counter that does not run backwards (`Date.now()` is assumed
not to). `admitted` is a history variable: the requests of the last window's length.

The model is of the guard, which is what its unit test calls. As the service is wired no call
reaches it: it is an `APP_GUARD` of the auth service (`auth.module.ts:38`), the gRPC server is
connected without `inheritAppConfig` (`abstract-main.ts:225`), so global guards do not apply
to it, and what comes by HTTP it lets through (`grpc-throttle.guard.ts:22-24`).

### Migrations

Each service has one table, whose *shape* is the number of its migrations applied, and a
journal in its own schema. A command of `package.json` is a step, `migration:up:all` one
step per service, in its order, that stops at a failure. MikroORM runs what is pending in
one transaction (`transactional`, `allOrNothing`), so a refused statement changes nothing
but may leave the journal's table, which is made before.

## 4 Runs

| Run | Question | Bounds | States |
|---|---|---|---|
| `music_safety` | every interleaving of commands, chains, player, voice and timer events, with voice losses | 3 songs, playlists of 2, 3 chains, 2 timers | 545 052 |
| `music_liveness` | songs move on, an idle bot leaves | 3 songs, 2 chains, 1 timer, no voice loss | 82 482 |
| `commands` | handlers that interleave at every await, with calls that fail and timers that end the process | 2 payloads | 187 494 |
| `playback` | refreshes of the PO token against streams; overlapping records of plays | 2 chains, 2 songs, 4 plays, a retry, period 2, life 3 | 2 843 748 |
| `single_flight` | one request, no lost waiter, every call ends | 4 calls, called again and again | 10 759 |
| `throttle` | the limiter's promises and the refinement | 2 handlers with limits 2 and 3, windows of 4 and 3 ticks, clean-up every 3, clock up to 12 | 60 113 |
| `accounts` | one account and one welcome for two registrations of an e-mail, with crashes and redelivery | 2 calls, 2 messages, 1 restart of the consumer | 135 484 |
| `notifications` | clients that send, read, remove and page at once | 2 users, 2 removals, pages of 1, all or unread, 3 rows | 399 757 |
| `http` | requests with tokens through guards, interceptors and filter | 2 requests, 2 users, 4 tokens of life 1 or 2, cache entries of life 2, latency 1, clock up to 4 | 953 674 |
| `lifecycle` | start, readiness and shutdown with backends that come and go | 3 connections, 2 attempts, 2 sweeps, 3 faults, 2 emissions | 168 142 |
| `music_error_skips_two`, `migrations_up_all` | section 5 | 3 songs, 3 chains; none needed | – |

**What the properties say.**

- `PlayingIsDriven`: `play` starts `playNext` only when `isPlaying` is FALSE, so a guild
  whose flag is up with nobody to lower it is deaf to `/play`. The property says there is
  always a chain before its playback, or the stream of the registered player.
- `TimerFollowsFlag`: flag and timer are written by many handlers, and a timer's callback
  deletes the map entry after an await, whoever made it. While `isPlaying` is TRUE no timer
  is registered, and a registered one still fires. That is not to say that a guild that plays
  is never counted down: a chain may play on with the flag lowered, see section 5.
- `NoLeakedConnection`: a connection in use is one `destroyConnection` reaches, and never
  played on by a player that `stop` let go of.
- PlayMusic's `TypeOK` includes that a tracked now-playing message is one on display.
- `HeadMovesOn`, `IdleBotLeaves`: liveness, see below.
- `AcknowledgedOnce`: on every path, an interaction is replied to once, deferred before it
  is edited, and its reply is fetched only when there is one, given that no `/play` comes
  without its required option. `EndsTold`: no command ends
  without an answer or a report, through three levels of aspects of which some rethrow.
  `NoMenuLost`: a menu on display is in the delete queue or about to be put there.
- `GlobalsRestored`: `window` and `document` are the process's own whenever no refresh is
  running; `isRefreshing` is what keeps two refreshes from saving each other's.
  `StaleOnlyWhenMissed`: nobody asks `isTokenValid`; a token older than its life is in use
  only if a refresh was missed. `CountsArePlays`: the rows of a song never count
  more than its plays, and exactly those unless a write of the song overlapped another (one
  such write may lose several plays, which takes four to happen).
- `OneFlight`, `JoinedFlightIsLive`, `CallsEnd`: single-flight; its `TypeOK` says that the
  table only holds a promise that has not settled.
- `BurstBound`: no interval of a window's length sees two full windows;
  `RefusalsAreEarned`: whenever a request would be refused, a full window was admitted in the
  window's length before; `IsFixedWindow`: with its lazy expiry and its clean-up, the guard implements a
  limiter that has neither.
- `OneAccountPerEmail`; `PhantomOnlyAfterRollback`: a welcome for a user without an account
  is left only by a registration that passed the look-up; `NoWelcomeLost`: no message is
  skipped between two lives of the consumer, but before its group's first commit;
  `CopiesAreRedeliveries`: one notification a message and one more a restart at most;
  `WelcomeSettles`: every event of an account ends as notifications or as logged failures.
- `PagesShowAll`: a client that pages through its list misses a row only if one left the list
  meanwhile: deleted, or read when it lists unread ones; `ReadStaysRead`: a removal does not write back what it read before.
- `ContextIsOwn`: the user, the id and the log lines of a request are its own.
  `AcceptanceIsBounded`: an expired token is let in no longer than a cache entry lives after
  the last validation was written, a refresh token never.
- `GateIsRight`: when the servers start, a backend that is down was lost during the last
  sweep. `DrainKeepsItsWord`: a client that was drained closes on no emission made before
  the drain ended. `ShutdownEnds`: a signal ends the process. `Recovers`: a process that
  is started again whenever it ended, whose backends are back for good and that nobody stops,
  comes to serve and goes on serving.

**Why the bounds are enough.** Three chains are needed for the worst the code does: two
that one stream error starts, beside one in flight. Three songs tell apart the head, the
next and the song that is heard. Two timers are needed for a new one while an old
callback is still awaiting. With four calls of a cached method one may fly, one wait and
two miss late. The throttle's clock runs over three windows or more, of which one
kind is longer than the clean-up interval and the other, as in the code, equal to it.
An age is only compared with the token's life, so ages need not go beyond it (`MaxAge`).
Two payloads are enough for a menu and whatever reaches it: a `/leave`, a click, another
search. Two refreshes at once are all there can be (the start and one cron job; a second job
is refused while the first runs). Two registrations race for one e-mail, one restart makes
a redelivery and tells it from a second delivery of a message that was appended twice.
Three rows with pages of one are the shortest list in which a page can skip a row. Two
requests are a request and the one that reads its store, its cache entry or its process
away; four tokens are a pair for each user; the clock passes the life of a token, of the
cache entry made at its end and of the refresh token. Three faults lose and restore a
backend and lose another one in a sweep.

**Bounds by name.** `MaxSongs` (entries ever requested), `MaxBatch` (longest playlist),
`Task` (chains at once), `Timer` (timer handles at once), one farewell at a time
(`BotAlone`), `Caller`, `Payload`, `MaxTime`, `MaxPlays`, `MaxAge` (ages from here on are
one), `MaxTopic`, `MaxRestarts`, `MaxRows`, `MaxTokens`, `Latency`, `MaxFaults`,
`Message`. An action that finds its bound reached does not happen.

**Fairness.** `PlayMusic!Fairness` is what the platform owes: every request to YouTube or
Discord ends, well or not (they have time-outs, `entersState` one of 30 s); armed timers
fire; a song that is heard on a ready connection ends; `handleBotAlone`'s message is sent
or fails. Users, voice losses and faults owe nothing. `music_liveness` assumes that an
established connection is not lost (`MayDrop = FALSE`): with losses `HeadMovesOn` is
false, since a bot that never gets its channel back keeps a paused player and its flag.
`SingleFlight!FairSpec`: the store answers or fails, the method ends. `Accounts`: a hash
and a flush end, kafkajs answers or gives up, the consumer polls and is started again;
nobody has to register, and no crash has to stop; that somebody starts the consumer again is
an assumption about the deployment. `Lifecycle`: bootstrap and the hooks go on; nobody has to
start an ended process, no backend has to come back and no signal to come (`Recovers` names
the starts and the backends it speaks of). `HttpRequests`, `Commands`, `Playback`,
`Migrations` and `NotificationService` state no fairness, and nothing says that their calls
end: `validateToken` awaits its answer without a deadline (`auth-grpc-client.service.ts:30`),
the client of the cache queues commands while Redis is away, and a refresh of the token may
hang for ever.

**Deadlock** is checked unless a system may stop by itself: when all requests, payloads,
registrations or plays that the bounds allow have ended (`accounts`, `notifications`,
`http`, `commands`, `playback`).

## 5 What the code does differently from what it says

Two are runs with one property that TLC violates; the quotes are in `PROJECT.json`.

1. **A stream error skips two songs** (`ErrorSkipsOneSong`,
   `apps/sayho-bot/src/discord/README.md:143`): `error` and idle both remove an entry and
   start `playNext`.
2. **`migration:up:all` leaves two services without a schema** (`UpAllBuildsEverySchema`,
   `README.md:152`): `createSong`'s `up` also drops the tables, journals and schemas of
   auth and notification, and it runs last. On a new database the command ends without an
   error and only the bot has its table. The second `up:all` repairs it: the journals are
   gone too, and createSong is not run again. Migrating the bot later drops what users and
   notifications the others have.

Others were met on the way. The models reach them, and no run states them:

- The idle timer may cut off a song. When the stream of the first of two songs fails, the
  chain of `onError` plays the second, and that of `onIdle` finds the queue empty, lowers
  `isPlaying` and arms the timer. Its callback looks only at queue and flag (`play-music.usecase.ts:231`), disconnects
  the bot in the middle of the song, and says "Disconnected from channel due to inactivity"
  (236).
- `/leave` during a join: `destroyConnection` looks only at established connections; the
  pending join goes on and the bot enters the channel after it was told to leave
  (`apps/sayho-bot/src/discord/README.md:113`).
- When the stream of the last song fails, the queue empties on a path without
  `handleQueueEmpty`: no countdown (`apps/sayho-bot/src/discord/README.md:323`).
- When `/skip` overtakes a `playNext` that awaits its stream, the song that is heard is not
  the head of the queue, which its end removes (README.md:142).
- `/leave` while a stream is prepared does not stop the chain, which joins and plays with
  `isPlaying` FALSE; likewise when only the now-playing message fails (README.md:189). The
  next `/play` then starts a second chain over the song that is heard.
- The callback of an idle timer deletes the map's entry after its await, which may be that of a
  newer timer: that one stays armed, nobody can clear it, and it may disconnect the bot sooner
  than 180 s after a later queue has emptied (README.md:175).
- Two chains may both pass `deleteCurrentInfoMessage` before either message is sent: the
  first is never deleted (README.md:153).
- When a single-flight request fails, all who joined it run the method at once
  (`libs/cache/src/cache.decorator.ts:13`).
- `connectMicroservice` is called without `inheritAppConfig`, so global filters do not apply
  to Kafka and gRPC handlers of the hybrid applications, against the comment in
  `kafka.module.ts:114`; `HandlerFails` allows for both.
- `AuthEventListener` is a provider, on which NestJS binds no `@EventPattern`, and nothing
  emits its event; `validateToken` does not look at revocations.
- For the same reason no gRPC call of the auth service is throttled: its global guard is not
  asked (section 3, GrpcThrottle).
- Exceptions of guards, unknown routes, the serializer and the writing of a response, and
  what `catchError` throws when it reads the message of a rejection with nothing, reach the
  async exception filter unconverted, which rejects: an unhandled rejection (`Refuse`, `Crash`
  in `HttpRequests`).
- A token that is revoked while a request awaits its validation is cached again.
- `lifecycle.interface.ts` has the grace period as a delay "before starting shutdown"; as a
  `beforeApplicationShutdown` hook it runs after every connection was closed.
- A registration that is rolled back after its event leaves a welcome for nobody (the TODO
  in `auth.service.ts`), and a message that is delivered again a second one. A welcome of
  more than 255 characters always fails.
- A list that is paged while notifications are deleted skips rows, and so does one of unread
  notifications when those on a page are marked as read before the next is asked for; two removals of one
  notification both report success.
- The `catch` clauses of `event.handler.ts` (64, 161) are not reached by what a command
  throws, since its aspect swallows it. An error in the handlers of `/play` is reported
  twice. The text `p` without an argument gets two replies. A failed login leaves a
  process that is ready and deaf.
- `isTokenValid` has no caller. A refresh that hangs refuses all later ones; a stream may
  be started before there is a token.
- The downs of `createUser`, `createNotification` and `createSong` drop a schema that holds
  the journal, without cascade, and that of `changeIdToUuidAndAddType` alters a column to
  `serial`: PostgreSQL refuses them all, so `migration:down` (README.md:146) takes back
  three of the seven.

## 6 Proofs

`tlapm` checks every step; nothing is assumed but the named assumptions on constants, which
TLC evaluates on each run. Most only give a constant its kind (a number, a set, a value
outside a set). Four say more: `PeriodAssumption` that a token lives longer than the cron
job's period, as in the code (6 h and 4 h; with equal times a refresh in progress already
makes the token stale, so `StaleOnlyWhenMissed` needs it), `LifecycleAssumption` that
every connection belongs to a module, and `AccountsAssumption` and `ChainAssumption` that
an event, a user and a registration have one name, and so have a chain and its stream.

**PlayMusic** (`PlayMusicProofs`), for any number of songs, chains and timers:

| Theorem | Property |
|---|---|
| `TypeCorrect` | `TypeOK` |
| `TimerFollowsTheFlag`, from `RegisteredTimerArmed` and `NoTimerUnderFlag` | `TimerFollowsFlag` |
| `ConnectionNeverLeaks` | `NoLeakedConnection` |
| `WaitersAreReleased` | `WaitersHaveJoin`: a chain waits for a join exactly while a promise is pending that releases it, also when `stop` destroys the connection under it |
| `NeverWedged` | `PlayingIsDriven` |

The specification has twenty-eight actions over seventeen variables. To keep the
proof linear in them, `NextSteps` shows once that every step either restarts the process
or consists of *one part per component* (one operation on the connection, one on the
timers, ...); types and the timer's registry then follow from the operations alone.
`NoTimerWhilePlaying` is inductive with that: a step that touches flag or timer lowers the
one or clears the other. `NoLeakedConnection` and `WaitersHaveJoin` are inductive only
together (`VoiceInv`): that a released chain finds the connection which
`destroyConnection` reaches depends on the promise it waited for, and that the promise is
there depends on the connection. `PlayingIsDriven` needs no strengthening: each step keeps
the drivers, starts one, hands over to the player, or lowers the flag.

**SingleFlight** (`SingleFlightProofs`): `TableHoldsLivePromise`, `SingleFlightHolds`,
`JoinedIsLive`, for any set of calls. `OneFlight` is strengthened to *a promise that is
not settled is the one in the table* (`InTable`).

**GrpcThrottle** (`GrpcThrottleProofs`): `ThrottleType`, `ThrottleForgets` (`StoreForgets`: while
no clean-up is due, no entry is there that expired a clean-up interval ago), and
`ThrottleRefines`: the guard implements `FixedWindow`, for any keys, limits, windows and clean-up interval. The
refinement maps an entry that is missing or over to a closed window; the invariant it
needs is that an entry in the store outlives the last clean-up.

`ThrottleBurst` (`BurstBound`) and `ThrottleEarns` (`RefusalsAreEarned`) count a history. Its
invariant is that of windows: each admission is numbered within its window, and `WindowInv`
says that there is a time at which the last window began, that two admissions of one window
have different numbers, and that of the window before it at least the first is forgotten.
So the history maps into the numbers of two windows but one, and cardinalities follow. The
time is not a function of the store, since an expired entry may have been cleaned up, hence
the existential quantifier.

**Accounts and NotificationService** (`AccountsProofs`), for any registrations, topic, restarts,
users and rows:

| Theorem | Property | Strengthened by |
|---|---|---|
| `AccountsUnique` | `OneAccountPerEmail` | nothing: the unique constraint decides |
| `AccountsType` | `TypeOK` | – |
| `AccountsPhantom` | `PhantomOnlyAfterRollback` | `EventsAreEmitted`: an event, wherever it is, comes from a call that was past its look-up |
| `AccountsNoWelcomeLost` | `NoWelcomeLost` | `DoneIsSettled`: the same of the position, which the offset follows, and of a handler that has ended |
| `AccountsCopies` | `CopiesAreRedeliveries` | `CopiesBounded`: a message has a row for each restart, and one more only when the running consumer has passed it |
| `NotificationReadStays` | `ReadStaysRead` | – |
| `NotificationPages` | `PagesShowAll` | `PagingInv`: a row the reader has not seen has at least as many newer ones in its list as the pages hold that it was given |

`NotificationPages` needs that a place of the list which has rows behind it is taken, i.e. that
in a finite set of rows each rank has its row. That is an induction over data; the library's
induction theorems cannot be used, but a least counterexample exists by the
well-foundedness of the naturals, and the lemmas `Smallest`, `Largest` and `RankExists` go
through it.

**Playback** (`PlaybackProofs`), for any chains, songs, periods and retries: `PlaybackGlobals`
(`GlobalsRestored`) from `OneRefresh` (a refresh in progress is the only one, and it saved the
process's own globals); `PlaybackStale` (`StaleOnlyWhenMissed`) from `FreshToken` (unless a
refresh was missed, the token is no older than the last cron job); `PlaybackType`
(`TypeOK`); `PlaybackCounts` (`CountsArePlays`) from `SongsCounted`: there is a ledger of the
plays that were committed through each row, which sums up to the song's plays, and no
row and no pending write counts more than its row's ledger. The proof found the property
wrong: it used to say that each overlapping write loses one play, which three
plays cannot refute and four do.

**Lifecycle** (`LifecycleProofs`), for any connections and modules, attempts and time-outs:
`LifecycleType` (`TypeOK`, with `InTime`: a sweep begins before the time-out), `LifecycleGate`
(`GateIsRight`) from `FoundAnswers` (what the sweep found ready answers or was lost in it), and
`LifecycleDrain` (`DrainKeepsItsWord`) from `DrainedAll` (the same whenever the drain is done).

**HttpRequests** (`HttpRequestsProofs`), for any requests, users, tokens and times:
`HttpRequestsType` (`TypeOK`, with `Bears`), `HttpRequestsContext` (`ContextIsOwn`) and
`HttpRequestsAcceptance` (`AcceptanceIsBounded`) from one invariant, `RequestsInv`: each entry
of the cache is of the user of its token and outlives it by no more than latency and lifetime,
a token that is about to be cached was valid when it was looked at, and a request that was let
in has its own store and lines, those of an error that ends the process
included.

**Commands** (`CommandsProofs`), for any payloads: `CommandsType` (`TypeOK`, where three answers
and three reports are the most a payload gets), `CommandsAcknowledged` (`AcknowledgedOnce`),
`CommandsTold` (`EndsTold`) and `CommandsMenus` (`NoMenuLost`). `CommandsAcknowledged` rests on
`MissingInput`, that is on Discord enforcing a required option. The first three need
`HandlersFit`: for each await of a handler, what it can have acknowledged, answered and
reported when it gets there. `NoMenuLost` is inductive by itself.

TLC checked `HandlersFit`, `PagingInv`, `SongsCounted` and `RequestsInv` on the
instances of the runs before they were proved.

Every safety property of a passing run is thereby a theorem. Only model-checked: the
liveness properties, since liveness under fairness is out of the prover's reach
(`HeadMovesOn`, `IdleBotLeaves`, `CallsEnd`, `WelcomeSettles`, `ShutdownEnds`, `Recovers`),
and the two violations of section 5. `Migrations` has no theorem: its one
property is such a violation.

## 7 Not modelled

- **gRPC client and generated code**: codecs without state and a wrapper; a call is an await
  of its caller that is answered or fails.
- **Configuration**: of the ORM, of modules, of webpack and linting; Swagger and security
  headers in `abstract-main.ts`; hot module replacement.
- **`migration:create` and `migration:fresh`**: the first writes a file, and the second
  drops the schema as MikroORM sees it, which the repository does not determine.
- **No caller**: `pause`, `resume`, `setVolume`, `getConnection` of the voice adapter;
  `incrementCount` of songs; sorted sets and `delByPattern` of the cache; `unregister` and
  the state listeners of the registry. `@Cache` itself is applied nowhere in the
  repository; it is modelled for what it offers. Its path without single-flight shares
  nothing but the store, and the key it builds from arguments is a model's one key.
- **Reading only**: lists of songs, `findOne` of a notification, health controllers.
- **The consumer of ErrorOccurred**, which sends a report to a webhook and swallows its
  failures; embeds, wording, colours, sampling and layout of messages and of the log.
- **Signing and hashing**: a token is what it was signed for, and no password is wrong.
- The rate of the clock and its steps backwards; volume.

`@Transactional` is taken to find the EntityManager of its repository, and PostgreSQL to
run at READ COMMITTED.

## 8 Plan

Done: (1) PlayMusic, SingleFlight and GrpcThrottle with their proofs; (2) registration to
welcome (`Accounts`) and the table of notifications; (3) `Lifecycle`; (4) tokens, guard,
context and log (`HttpRequests`); (5) PO token and plays (`Playback`), commands and menus
(`Commands`); (6) `Migrations`; (7) proofs of every safety property of the passing runs.

Left, in this order:

1. Safety consequences the liveness properties rest on, as theorems: nobody waits for what
   is over in `Lifecycle` (a hook in progress always has a step).
2. An abstract specification of `SongService.create` and of the delivery of a topic, with
   their refinement proved as that of the throttle is.
