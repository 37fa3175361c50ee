# TLA+ models of the auth service

The repository is a NestJS monorepo: one service, `apps/auth`, which registers users,
signs them in and recovers their passwords over PostgreSQL, Redis and RabbitMQ, and the
libraries under `libs/` it is built from. This directory models the parts with state that
concurrent requests, messages or timers share, checks them with TLC on small instances,
and proves the main invariants, action properties and both refinements with TLAPS for every
instance.

Everything below is read from the source; `PROJECT.json` maps every definition to its lines.

## 1. Inventory

| component | state it keeps | operations | talks to |
|---|---|---|---|
| account operations (`processors/users_operations/*`, `processors/users`) | none of its own; rows of `users` and `users_operations` | `create`, `apply` of sign-up, recovery, password change, address change; `_close`, `_checkoutEmail`; `authData`, `create`, `update` of a user | PostgreSQL through TypeORM, sessions |
| auth service and controller (`routes/v1/auth`) | none | sign-up, confirm, sign-in, resend, recovery, recovery confirm, refresh | processors, sessions, notifications |
| entities, repositories (`database/`, `libs/utils/src/base.repository.ts`) | tables, a pool of connections | `findOne`, `save`, `remove`, query builders | PostgreSQL |
| sessions (`processors/sessions`, `caches/sessions`) | keys `session:<user>:<uuid>` in Redis, with a time to live | `set`, `get`, `update`, `delete`, `dropAll` | cache service |
| tokens, strategies, guards (`auth/`) | none | sign a pair of tokens; validate an access or refresh token | sessions, `users` |
| notifications (`processors/notifications`, `broker/producers`) | none | broadcast a mail for an operation | broker client |
| broker client (`libs/broker`) | one `_connection`, one `_channel` per process | `_init`, `send`, `subscribe`, `close`, `isConnection` | RabbitMQ |
| queue restart (`libs/queue_restart`) | none; Bull's failed sets in Redis | `handle` on an interval, `restartQueue` | Bull |
| cache service (`libs/cache`) | Redis | `set`, `get`, `del`, `flushAll` | Redis |
| rate limiting (`routes/rate_limit`, `auth/guards/throttler.proxy.guard.ts`) | one record per counted request in Redis, until it lapses | the throttler's `getRecord`, `addRecord`; `getTracker`, `skipIf` | Redis |
| the way of a request (guards, `libs/utils` pipe, interceptor and exceptions filter) | none | refresh guard, validation, `ResponseInterceptor`, `AppExceptionsFilter` | rate limiting, controllers |
| health checker (`libs/health_checker`) | none | `check` with its six indicators | database, memory, disk, Redis, broker client |
| tasks, local storage | none that the service uses | start-up calls | |
| utilities, crypto, payload types, configuration, generators | none | computation on values | |

**What is hard.**

* Every handler is a sequence of awaits, and several reads that a decision rests on are not
  made in the transaction that acts on them: the address check before the sign-up
  transaction, the lookup of a token, `_close`'s `findOne`, `_checkoutEmail`'s count and
  `UsersProcessor.update`'s read all go to *another* connection of the pool. So handlers
  act on stale rows, and a transaction that holds a connection waits for a second one.
* TypeORM's `save` writes only the columns that differ from a read of its own: what a stale
  entity overwrites depends on two reads at different times.
* Mails are sent after the commit and their failure is swallowed.
* The broker client opens its connection lazily with no lock; it never notices that a
  connection has ended, and it acknowledges on whatever channel it has at the time.
* The interval of queue restart does not wait for the previous tick; the set it pages
  through shrinks while it is paged.
* A call that Bull rejects ends a tick of queue restart wherever it is.
* The key of a session and its tokens are counted by two clocks: Redis counts from the SET,
  jsonwebtoken in whole seconds from the second of the signing.
* The rate limit counts the records and adds one in two calls to Redis; every request of a
  counted route needs Redis twice before its method runs. Whose records they are is read off
  a header that anyone may send.
* A health check reads six dependencies at different moments and reports when the last has
  answered; some may have failed or come back since they were asked.

**What makes each part correct.**

* *Accounts*: seen from outside, one event after another (`AccountLifecycle`); no two accounts with one address; no account that can neither be confirmed
  nor be sent a new confirmation; verification never lost; the password changes only
  through a token mailed to the account's owner; sessions only for verified accounts;
  every request is answered.
* *Broker client*: a queued message leaves the queue only when its handler is done; every
  send settles; once a channel exists sends succeed; the health check tells the truth.
* *Queue restart*: only old failures are put back; every failure is, eventually, while Redis
  answers; each tick ends, and before its last queue only for a cause.
* *Rate limiting*: an address exceeds the limit by no more than its concurrent requests; who
  does not pose as another is refused because of requests in its own name only; the window
  opens again however often it retries.
* *Way of a request, health*: every request is answered, whatever is down, unless its method
  waits for ever for a pooled connection; a check reports what was so of every dependency that
  held still.
* *Sessions and guards*: a session and its refresh token end together, to within a second and
  the wait for Redis; a recovery ends the sessions there were; a refresh token refreshes.

The hazards, each with its line, are listed under `hazards` in `PROJECT.json`.

## 2. Modules

| module | role |
|---|---|
| `AccountLifecycle` | what the service promises of an account: five events, no requests or tables |
| `Accounts` | tables, pool, transactions, the four operation processors and the service's requests; implements `AccountLifecycle` |
| `AccountsInvariant` | the inductive invariants of `Accounts` |
| `AccountsProofs` | `Accounts`: the shape of a request, and what the routed types promise (TLAPS) |
| `LifecycleProofs` | `Accounts`: the addresses with the routed types, and the refinement (TLAPS) |
| `OperationsProofs` | `Accounts` with any types: overlapping transactions, tokens, requests one at a time, the pool (TLAPS) |
| `MCAccounts` | instances for TLC; runs `routed`, `alltypes`, `sequential`, `pool`, `dropall` |
| `Sessions`, `MCSessions` | sessions with their time to live, the token pair, the access and refresh guards; runs `sessions`, `refresh` |
| `SessionsProofs` | the theorems about `Sessions` (TLAPS) |
| `Delivery` | what a message of the broker client is promised: four events, no connections |
| `BrokerClient`, `MCBrokerClient` | the RabbitMQ client; implements `Delivery`; run `broker` |
| `BrokerProofs`, `FaultlessProofs` | the theorems about `BrokerClient`, under faults and until the first one (TLAPS) |
| `Gateway`, `MCGateway` | rate limit, guard, validation, answers and health check around the methods; runs `gateway`, `toomany` |
| `GatewayProofs` | the theorems about `Gateway` (TLAPS) |
| `QueueRestart`, `MCQueueRestart` | the restart of failed jobs; runs `restart`, `starved` |
| `RestartProofs` | the theorems about `QueueRestart` (TLAPS) |

`Accounts` leaves out how a session ages (`Sessions`), how a mail is sent (`BrokerClient`) and
what happens to a request before its method runs (`Gateway`); each of those leaves out the
account. What one takes of another is a property of the other: that `Notify` always ends is
`EverySendSettles`, that a sign-in opens sessions of verified accounts only is
`SessionsAreVerified`.

### AccountLifecycle

Accounts, mailed tokens and sessions, and five events: `Register`, `Mail`, `Confirm`,
`Recover`, `SignIn`, each with the condition an owner relies on (the address is free, the
token was mailed for this account and for this purpose, the account is verified) and the one
column it changes. `Accounts!ImplementsLifecycle` maps `users`, the mailed tokens with their
`meta`, and the session keys to it: `Register`, `Confirm` and `Recover` are the `Commit` of a
request, `Mail` is `Notify`, `SignIn` is `OpenSession`; every other step, and a commit that
changes nothing, is a stutter. It is a promise of the routed types: `email_change`, which no
route reaches, moves accounts between addresses. No event ends a session: `dropAll` does not
(see Findings), and how they lapse is `Sessions`' part.

### Accounts

A *client* is one HTTP request at a time; `pc[c]` is the statement it awaits, `req[c]` its
payload, `loc[c]` the handler's local variables, `tx[c]` its uncommitted writes and `conn`
the clients whose query runner holds a pooled connection. One action is one await:

| action | code |
|---|---|
| `Arrive` | a controller method; a confirmation carries a token that was mailed |
| `LookupUser` | `authData` / `findOne` by address, and the guards that follow it |
| `Begin` | `startTransaction`: a connection is taken and kept |
| `InsertUser` | `UsersProcessor.create`: `save` of a new user, the unique index |
| `FindOp` | `apply`'s `findOne` of the token by type and ttl, on the pool |
| `CloseFind`, `CloseRemove` | `_close`: read on the pool, removed in the transaction |
| `InsertOp` | `_createUserOperation` |
| `CheckEmail` | `_checkoutEmail`, in `create` and in `apply` |
| `UpdateRead`, `SaveLoad`, `SaveWrite` | `UsersProcessor.update`: its read, `save`'s reload, `save`'s UPDATE |
| `DropSessions` | `SessionsProcessor.dropAll` before the commit |
| `Commit` | `commitTransaction`, and the answer or `release` |
| `Notify` | the broadcast; the mail arrives or is lost |
| `OpenSession` | `SessionsProcessor.create` |
| `Fail` | any statement rejects: rollback, release, error answer |
| `Expire` | the ttl of an operation passes |

The database is PostgreSQL at READ COMMITTED as the code uses it: writes are visible after
`Commit`; a row written by an open transaction blocks other writers (`UserLocked`,
`closeRemove`'s guard), the unique index makes a second writer of an address wait and then
fail (`EmailPending`, `EmailTaken`), the foreign key blocks an insert against an update of
the referenced key (`ReferenceLocked`, `Referenced`). Statements that do not use the query
runner need `PoolFree`. E-mail addresses are spellings with a function `Lower`, since some
paths lower-case what they are given and some do not. Uuids are fresh.

### Sessions

`until[id]` is when Redis lets the key of session `id` lapse, `pair[id]` the expiries of the
two tokens handed out for it. The two are written one await apart (`SetSession`, `Sign`), so
they start to age at different moments. The clock `now` counts ticks, `Second` of them to a
second: Redis counts the time to live from the tick of the SET, while jsonwebtoken knows
whole seconds only (`NumericDate`), both for `exp`, the truncated second of the signing and the
lifetime, and when it verifies. `Access`, `GetSession`, `GetUser`, `DropSession` are the
access guard and `JwtAccessStrategy.validate`, an await each; `Refresh` is `GET /refresh` as far
as it gets. That a sign-in has seen a verified account is `Accounts`' part; here it picks an
existing user. `RemoveUser` is external: nothing in the service deletes a user, but the strategy
provides for it.

### BrokerClient

`connection`, `channel` are the two fields; `live`, `chans` are what is really open; a
process is a concurrent `send` or the module's own `onModuleInit`/`onModuleDestroy`. `at[m]`
follows each message: sending, on the wire, in the queue, delivered but not acknowledged,
done; or refused, or lost. One action per await of `_init` (`Connected`, `ChannelMade` and
their failures), of `send` and `subscribe` (`AssertQueue`, `Resume`), of the consume callback
(`Deliver`, `HandlerEnds`), of `close` (`Close`, `Closed`), and the faults: a refused call,
a dropped connection, the death of the process. `close` reads the two fields when it is called
and awaits afterwards, so `Closed` clears what a send may have set meanwhile, and closes the
connection `Close` found.

`Delivery` knows neither connections nor channels: a message is sent, refused, on the wire, lost,
queued or done, and a handler may settle only for a queued one. `Stage` maps `at` to it, a
delivered message that is not acknowledged being queued still. `Settle` is every way a call
rejects, a message arrives, or a connection or process ends with several of them at once.

### Gateway

A *client* is one HTTP request at a time, of the sender at `Origin[c]`, directly or through the
proxy, with `Header[c]` in `x-forwarded-for`: any address or, unless it comes through the proxy,
none. The guard believes it, so `Tracker(c)` may be somebody else's address. `records` is the throttler's storage in Redis, `up` the dependencies that work.

| action | code |
|---|---|
| `Arrive` | a request; routes of `skipIf` pass the throttler by |
| `GetRecord`, `AddRecord` | the throttler counts the live records of `getTracker`'s address on the route, refuses with 429, or adds one in a second call |
| `StorageFails` | either call rejects while Redis is away: 500 |
| `RouteGuard` | `handleRequest` of the refresh guard, either way |
| `Validate` | `AppValidationPipe.transform`, on a payload that validates or not |
| `Handle` | the controller's method ends, with the exceptions its service throws; a mail may open the broker's connection; a method that needs a connection of the pool (`Pooled`) may never end |
| `StartCheck`, `Indicate` | `HealthCheckerService.check`: all indicators are called at once; Redis, memory and RabbitMQ answer of what they find then, database and disk one by one later |
| `Lapse` | a record reaches its time to live in Redis |
| `Fail`, `Recover` | a dependency stops or starts to work |
| `Restart` | the process dies with its requests; Redis keeps the records |

The answers are `ResponseInterceptor`'s and `AppExceptionsFilter`'s: a value, or a status with
the message `catch` derives from what the exception carries. The throttler is a library; how
it counts is modelled from how the module configures it (`storage`, `limit`, `ttl`, `skipIf`).
How long a record lives is not counted: it lapses at some moment, which allows every length of
the window. The two memory indicators (heap and resident set) are one dependency. `found`,
`asking` are the findings of a check under way; `changed` is a history variable for its
property. RabbitMQ is no dependency that fails: its indicator reports a field of the client,
which no drop resets (`BrokerClient!HealthyMeansUsable`).

### QueueRestart

A *tick* is a call of `handle()`. `failed[q]` is Bull's failed set, newest first; `Read` is
`getFailed` with both ends included, `Skip`, `Retry`, `RetryThrows` (the job is not failed any
more) the outcomes for a job of the page, `TurnPage` the next round of the loop. `answers` is
FALSE while Bull rejects what ticks call, because Redis fails or the job is locked: then
`ReadFails` and `RetryFails` end the tick, the job left failed or, when only the answer is lost,
put back. `RedisTurns` may turn it at any moment, so any single call may be the one that is
rejected. Which jobs are *old* is a set that
grows by `Age`; a tick goes by what it read with its page, so `stale` holds the jobs of the page that another
tick has put back since, and whose failure the tick still sees as old.

## 3. Runs

| run | instance | what it shows |
|---|---|---|
| `routed` | 2 clients, 5 requests, 2 users, one address in 2 spellings, 2 passwords, 4 uuids, types `su`, `pr` | every interleaving, failure and expiry of the routes the service has is a behaviour of `AccountLifecycle`; the safety properties; `RoutedInv`, which contains the types, and `AddressInv` are what the proofs use |
| `alltypes` | 2 clients, 4 requests, 3 addresses, all four types | `UniqueEmails` with address changes; accounts still change only by their own token; `WritersInv`, what the proofs with all types use |
| `sequential` | 1 client, 6 requests | what `_close` promises when requests do not overlap: one open operation per type, a token works once; `SequentialInv`, what their proofs use |
| `pool` | 2 clients, 2 connections, 3 requests, fair | requests can block for ever, but only because transactions hold every connection and one of them needs another; otherwise every request is answered; `PoolInv`, who holds a connection |
| `dropall` | 1 client, 5 requests | **violation**: a recovery leaves the account's sessions alive |
| `sessions` | 2 clients, 2 users, lifetimes of 1 and 2 seconds, a second of 2 ticks, clock up to 7 ticks | an access token is refused only once it has expired or its user is gone; a session and its refresh token end together, but for less than a second and the wait for the SET; the guard ends no session but an orphan's |
| `refresh` | as `sessions` | **violation**: the refresh guard refuses good refresh tokens |
| `broker` | 2 senders, 4 connections; with a subscription 2 messages and 2 faults, without one 3 messages and no fault | what becomes of a message is a behaviour of `Delivery`, so acknowledgement follows handling under drops, crashes and shutdown; sends settle; one connection with a subscription; without one the first sends race to open connections and later sends still succeed |
| `restart` | 2 ticks, queues of 2 and 1 jobs, page limit 1, calls rejected at any time | no job is lost or doubled (`RestartInv`); a tick ends early only when Bull rejects a call or over a job another tick put back; each ends; while Redis answers the first queue is served, and once ticks stop overlapping as well every failure is put back |
| `starved` | 1 tick, a queue of 3 jobs, limit 1 | **violation**: with more than limit + 1 failed jobs the oldest may never be put back |
| `gateway` | 4 clients of 3 senders, limits 2 and 1, one fault; four scenarios: resends, one of them in another's name, sign-ins, a sender with and without a header, a health check beside other routes | the count and the record of the rate limit in two steps; refusals in one's own name only; the window opens again; every request is answered while Redis or the database fails, unless it waits for the pool; torn health checks |
| `toomany` | as `gateway` | **violation**: the answer 429 carries no message |

The type invariant of a module, where it has no line of its own, is the first conjunct of the
inductive invariant its run checks.

**Bounds.** `MaxRequests` is the only bound on the length of an `Accounts` behaviour. The
longest stories need sign-up, confirm and a recovery with its confirm, with one more request
beside them: five. Two clients suffice for the races, since each is between a read and one
other commit, and two are enough to hold both connections of `pool`. In
`Sessions` the lifetimes are small but keep the order the configuration gives them, with
room for the answer to a `SET` (`MaxDelay`, a second); a second of two ticks is enough
for an `exp` that loses a part of it, and seven ticks let every expiry pass. Two users and two
addresses make every conflict on the unique index, four uuids let `routed` hold three
operations and a session. In `BrokerClient`, `MaxFaults = 2` lets a fault hit what the first
one left (a drop, then a crash of the process that tries again); a process without a
subscription has no fault but three messages, so that a later send meets what two racing ones
left; four connections are more
than two sends, the module and a restart keep in use, and a connection becomes fresh again
when nothing refers to it. In `QueueRestart` the pages are short instead of the queue long:
what matters is that a queue has `Limit` + 1 jobs (served) or more (`starved`). In `Gateway` the limits are 2
and 1 instead of 5 and 1: two concurrent requests counted for one address reach both, and
both can be overrun. Two of the clients are one sender, who names another in the header or
nobody. A scenario fixes which routes are asked for, so that the records of the rate limit and
the steps of a check do not multiply; nothing but the throttler's storage and the dependencies
is shared between routes. One fault is a failure of Redis between count and record, of a
dependency during a check, or a restart between the two.

**Deadlock.** `CHECK_DEADLOCK FALSE` is said where the system may stop: every request was
answered and none is left (`Accounts`), time is at its bound (`Sessions`), or every message was sent and the process runs on
(`BrokerClient`).

**Symmetry** is used in safety runs only.

**Fairness.** `WF_vars(Step(c))`: the event loop runs each continuation, and PostgreSQL and
Redis answer each statement, by success or by error. Failures and expiries are not fair. A
step that waits for a lock or a connection is enabled when that is free and, the locks being
released by transactions that end, stays so often enough for weak fairness; TLC confirms
it. `Notify` always ends although it goes through the broker client; that it does is
`EverySendSettles` of `BrokerClient`, under the same kind of fairness. In `QueueRestart` time
passes (`Age`), the interval fires (`Begin`) and a tick's next step runs (`Work`), and that
is all: jobs may fail for ever or never, and Redis may reject for ever. A tick's next step runs
because each call of Bull is answered or rejected; that Redis answers from some time on is
not assumed but a premise of `FirstQueueIsServed` and `EveryFailedIsRetried`. In `Gateway` each
request's steps are fair as above
(each storage call answers or rejects, the database indicator gives
up after a timeout, the disk is local), and so is `Lapse`, since Redis lapses every record. Of
the methods only those of `refresh` and `health` are sure to end; the others may wait for ever
for a connection (`Accounts!StuckOnlyByPool`), so their `Handle` is not fair. Failures,
recoveries, restarts and new requests are not either.

## 4. Properties that took care

* `ImplementsLifecycle`: every decision of the code rests on reads that may be stale when the
  commit makes it true, so that a commit is *one* legal event of *one* account is what the
  locks, the unique index and the column-wise `save` add up to.
* `AddressInv`: of two sign-ups that both found an address free, the second fails on the index
  or waits for the first; no open registration holds an address that an account has.
* `NoStrandedUser`: an unverified account always has a stored sign-up operation. `_close`
  removes one and `create` inserts another in one transaction; `apply` removes one and
  verifies the account in one transaction.
* `VerifiedForGood`, `UnverifiedKeepsPassword`, `ChangedByOwnToken`: consequences of what
  `save` writes from a stale entity. They hold because the password column is not selected
  (so a stale entity has none) and because a recovery is created for verified accounts only.
* `SessionsAreVerified`: sign-in checks and opens the session one await apart; safe because
  verification is for good.
* `RefusedForCause`: a key in Redis starts to age before its tokens do; the access token still
  never outlives it, because the access lifetime and the wait fit in the refresh lifetime.
* `StuckOnlyByPool`: the only cycle is through the pool: no row or index lock closes one
  (`LockWaitsEnd`). `Deadlocked` says what each request waits for, from the guards of the
  actions; `Halted` says that no step is enabled. The first can be proved about; the liveness
  property uses the second.
* `EndsEarlyForCause`: a tick that ends early leaves the queues after it unserved; besides a call
  that Bull rejects, only a job which another tick has just served can end it.
* `SessionEndsWithRefresh`: two clocks and two moments. The key may outlive the refresh token,
  by what the truncated second of the signing leaves out, and the token the key, by the wait
  between the SET and the signing. An order of the two, either way, would be false.
* `SurvivingTokenHadSibling`: `apply` closes an operation found by user and type. When two
  overlapping creates left two open, the wrong one may be closed and the used token stays.
* `ImplementsDelivery`: a send that was refused stays so: no connection that ends, and no process
  that starts again, brings its message to a handler. What was written may be lost before the
  server has it, and the sender is not told: the client uses no confirms.
* `QueuedUntilHandled`: holds although acknowledgements may go to the wrong channel; what
  that causes is a repeated delivery, never a lost message.

* `LimitedOverrun`: the throttler's limit is not exact; an address for which n requests are
  counted at once gets n - 1 more through, never n. It is the address the guard tracks: who
  varies the header is counted for as many.
* `RefusedInOwnName`: would fail if the tracker were the address of the proxy. It is said of
  clients that send no header but their own address, and allows a refusal for requests that
  carried that address, whoever sent them.
* `EveryRequestEnds` of `Gateway`: nothing before or after a method holds a request for ever; the
  method itself may wait for ever for a connection of the pool, which is `Accounts`' part.
* `WindowReopens`: holds because a refused request adds no record, so retries do not extend it.
* `HealthTellsTruth`: a check that answers 200 may be wrong only of what changed while it ran.

Observed while modelling, and kept as the *limits* of properties, not as findings (no doc or
test says otherwise): two overlapping creates leave two open operations of one type
(`OneOpenOp` is checked without overlap only); two overlapping confirmations with one token
both succeed (likewise `AppliedTokenIsClosed`); a stale `update` can revert a concurrent
address change (only `email_change`, which no route reaches, writes addresses; `alltypes`);
whoever sends another's address in `x-forwarded-for` uses up that one's limit (the guard
takes it from any client, see the TODO at `throttler.proxy.guard.ts:6`);
racing first sends leave connections nobody closes; the broker client never reconnects after
a drop, and reports itself healthy; a queue after the first can be starved by ticks that
overlap; `startTransaction` stands outside the `try` that releases its connection
(`auth.service.ts:70`), so that a `BEGIN` which the server rejects might keep it.

## 5. Findings

* **`dropAll` drops nothing** (`session.service.ts:60`, run `dropall`). Given a number,
  `delete` builds the key `session:<id>:*` and hands it to `DEL`, which takes no pattern. A
  password recovery therefore leaves every session that was opened with the old password.
* **Old failures can wait for ever** (`queue.restart.abstract.ts:22`, run `starved`). Bull's
  `getFailed(start, end)` takes a last index; the code passes `offset, limit`. The second
  page is one job and the third is empty: a tick sees the newest `limit + 2` positions at most
  and a tick that puts jobs back sees fewer.
* **A refused request is told nothing** (`app.exceptions.filter.ts:68`, run `toomany`). The filter
  replaces the message of every 429 by `response.message`, for a response that has one; the
  throttler's exception carries a string, so the answer's message is `undefined`.
* **No token refreshes** (`jwt-refresh.strategy.ts:26`, run `refresh`). The strategy accepts
  `RS256` only, the tokens are signed with a string secret, which is `HS256`. Every
  `GET /refresh` is refused by the guard, against what the controller's test expects.

## 6. Proofs

All safety properties the runs check are theorems.

`AccountsProofs` proves, for every finite or infinite choice of clients, users, addresses,
passwords and uuids and every pool size and request bound, under the named assumptions of
`Accounts`:

| theorem | assumption on `Types` | says |
|---|---|---|
| `ShapeCorrect`, `TypeCorrect` | any | `Spec => []ShapeInv`, `Spec => []TypeOK` |
| `RoutedInvariant` | routed | `Spec => []RoutedInv` |
| `NobodyStranded` | routed | `Spec => []NoStrandedUser` |
| `VerifiedSessions` | routed | `Spec => []SessionsAreVerified` |
| `MailsForAccounts` | routed | `Spec => []MailsAreForAccounts` |
| `VerificationIsForGood` | routed | `Spec => VerifiedForGood` |
| `UnverifiedPasswordKept` | routed | `Spec => UnverifiedKeepsPassword` |

*The argument.* None of the properties is inductive: `NoStrandedUser` is about committed
rows, and what a commit writes was decided many steps earlier from reads that may be stale.
`ShapeInv` (with any types) says for each client, per step, what its locals and its
transaction are: whose operation it holds, that a transaction deletes and inserts only
operations of its own user and type, that a create has found a committed user. It uses only
facts about the tables that stay true once true, so that one client's step keeps the
invariant of all others: an operation row never changes (`meta`), a user never disappears.
`RoutedInv` adds what the routed types give: users inserted by open transactions are distinct
and not committed (`FreshInv`), recoveries exist for verified users only (`RecoveryInv`), and
`VerifiedInv`: an entity about to be saved is verified, and a sign-up confirmation that
reaches its commit either verifies the account or finds it verified. From this, the commit
that removes a sign-up operation is one that leaves its user verified, or inserts another.
TLC checks `RoutedInv` in `routed`, and `ShapeInv`, a conjunct of `WritersInv`, in `alltypes`.

`OperationsProofs` proves, for any types, so with the address change and the password change
that no route reaches:

| theorem | assumption | says |
|---|---|---|
| `WritersInvariant` | none | `Spec => []WritersInv` |
| `AddressesStayUnique` | none | `Spec => []UniqueEmails` |
| `ChangesNeedToken` | none | `Spec => ChangedByOwnToken` |
| `SurvivorsHaveSiblings` | none | `Spec => SurvivingTokenHadSibling` |
| `SequentialInvariant` | requests do not overlap | `Spec => []SequentialInv` |
| `OneOpenOpPerType` | requests do not overlap | `Spec => []OneOpenOp` |
| `TokensWorkOnce` | requests do not overlap | `Spec => AppliedTokenIsClosed` |
| `PoolInvariant` | none | `Spec => []PoolInv` |
| `LocksNeverCircle` | none | `Spec => []LockWaitsEnd` |
| `OnlyThePoolStops` | none | `Spec => []StuckOnlyByPool` |

*The argument.* `WritersInv` is what transactions that overlap may have written. With the address
change a committed account can move to the address of an open registration, so the address of
*every* uncommitted write of that column counts (`AddressLockInv`), and the row locks enter: two
open transactions never write the same row (`RowLockInv`). A token that an open transaction
inserts is stored, mailed and inserted nowhere else (`TokensInv`), so a mailed token that has
left the table never comes back; hence an apply whose token survives had `_close` remove another
row, and that row is of the same user and type (`ApplyWrites`). A password is dirty only in the
entity of a recovery or of a password change, since the column is never read.

Without overlap there is more: from `_close`'s read on, what is stored for the request's user and
type is what it found, and from its removal on, what the transaction deletes (`ClosingInv`). With
two requests neither is true, which is why `OneOpenOp` and `AppliedTokenIsClosed` need the
assumption that `Clients` has at most one element; it is the run `sequential`.

For the pool, `PoolInv` pins down who holds a connection: exactly the requests between
`startTransaction` and commit, rollback or release, with the sign-up that notifies before
`release`. Then the waits: whoever has written a row of `users` waits for no lock
(`UpdatersRun`), since an update is the last statement before `dropAll` and the commit, and a
sign-up, which inserts first, shares its new user with no other request (`NobodyElsesUser`). So
a request that is waited for and waits itself has only removed an operation, and who waits for
it is a `_close` at its removal, which has written nothing yet, so nobody waits for that one
(`SecondInLine`): chains of lock waits have at most two links. The last request of a chain holds a
connection, so if it waits at all, it waits for another one, and then the pool is exhausted by
transactions.

`LifecycleProofs` proves, for the same constants with the routed types:

| theorem | says |
|---|---|
| `AddressesInvariant` | `Spec => []AddressInv` |
| `AddressesAreUnique`, `AddressesAreLowerCase` | `Spec => []UniqueEmails`, `Spec => []LowerCaseEmails` |
| `AccountsImplementLifecycle` | `Spec => ImplementsLifecycle` |

*The argument.* Unique addresses are not inductive: an insert that is not committed yet counts.
`AddressInv` says that the address of every open registration is no account's and no other
open registration's, and that no apply under way moves an account's address. `InsertUser`
establishes it, since the index sees committed rows and makes it wait for pending ones; a
commit turns the open registration into the account. The refinement then goes through the
actions: `NextMaps` shows that each step is an event of `AccountLifecycle` or leaves the three
mapped variables alone. `CommitAccount` (what a commit does to its account, by the
columns that are dirty) is where `ShapeInv`, `RoutedInv` and `AddressInv` are all used.

`SessionsProofs` proves, for any clients, users, uuids and lifetimes with
`InTicks(AccessLife) + MaxDelay <= InTicks(RefreshLife)`, and any length of a second:

| theorem | says |
|---|---|
| `SessionsInvariant`, `SessionsTypes` | `Spec => []SessionInv`, `Spec => []TypeOK` |
| `SessionsEnd` | `Spec => []SessionEndsWithRefresh` |
| `AccessIsKept` | `Spec => RefusedForCause` |
| `SessionsAreKept` | `Spec => EndsByLapseOrOrphan` |

*The argument.* `SessionInv` adds to the types that a session id is private to one client
until its tokens are out (`PrivateUntilSigned`), so that no other request writes or drops it
meanwhile; what each step has learnt and may still rely on (`StepKnows`), with how long ago
the key was stored while the tokens are being signed; and what follows for the three expiries
once they are: the access token is the first to end (`AccessEndsFirst`), key and refresh token
end together but for the two margins of `SessionEndsWithRefresh`. What is left out of a second
enters by `DateFacts`: `now` is at least `InTicks(NumericDate)`, and less than a second more.
TLC checks it in `sessions`.

`BrokerProofs` and `FaultlessProofs` prove, for any senders, connections and messages and any
bounds on sends and faults:

| theorem | says |
|---|---|
| `BrokerInvariant`, `BrokerTypes` | `Spec => []BrokerInv`, `Spec => []TypeOK` |
| `QueueIsKept` | `Spec => QueuedUntilHandled` |
| `BrokerImplementsDelivery` | `Spec => ImplementsDelivery` |
| `FaultlessInvariant` | `Spec => []FaultlessInv` |
| `OneConnection` | `Spec => []SingleConnection` |
| `HealthIsTrue` | `Spec => []HealthyMeansUsable` |
| `WarmSendsAreSent` | `Spec => WarmSendsSucceed` |

*The argument.* `QueueIsKept` holds under every fault. It needs that a send at work has a message
nothing else has touched (`SendersWork`, `OwnMessages`), so that its failure takes no message
out of the queue, and that the connection which closes has no channel, so that what comes back
to the queue was unacknowledged (`ClosingGone`, `HandlersApart`). The refinement maps each step
to an event of `Delivery` or a stutter (`NextMaps`, `SettleMaps`); a second delivery may settle after
the first was acknowledged, so `HandlersApart` also says that what is done with was handled. The
other three are about a
process in which nothing has failed yet. `CalmInv` gives the reason the racing first sends do
no lasting harm: each that comes back overwrites the connection, then the channel, with one
that is open, and nothing closes the ones before it, so a channel that is set is open and a
send that found one can go on with it. `SingleInv` says that with a
subscription the module's own start opens the connection while no send is at work
(`QuietStart`). TLC checks `FaultlessInv`, which contains `BrokerInv`, in `broker`.

`GatewayProofs` proves, for any finite set of clients, any origins and headers, limits above 0 and scenarios:

| theorem | says |
|---|---|
| `GatewayInvariant`, `GatewayTypes` | `Spec => []GatewayInv`, `Spec => []TypeOK` |
| `OverrunIsLimited` | `Spec => []LimitedOverrun` |
| `RefusalsHaveOwnCause` | `Spec => RefusedInOwnName` |
| `ChecksTellTruth` | `Spec => HealthTellsTruth` |

*The argument.* The bound on a window becomes inductive when the requests that have counted and
are about to add are counted with the records (`OverrunInv`): a request joins them only while
the records are below the limit, and then the others are at most the address's other requests.
An honest request is tracked at its origin (`HonestTracker`), and whatever is tracked there
came from there or named it (`TrackerNamesSender`).
`CheckInv` says of every indicator that has answered that its finding is still so unless the
dependency has changed since the check began. TLC checks `GatewayInv` in `gateway`.

`RestartProofs` proves, for any ticks, queues, jobs and page size:

| theorem | assumption | says |
|---|---|---|
| `RestartInvariant` | none | `Spec => []RestartInv` |
| `EarlyEndsHaveCause` | none | `Spec => EndsEarlyForCause` |
| `LoneTickReachesLastQueue` | ticks do not overlap | a tick ends at its last queue, or because Bull rejects its call |

*The argument.* A failed set is a sequence that others shorten and lengthen between a tick's reads,
so the invariant relates it to the jobs (`JobsInv`: each job is busy or failed, once, in its own
queue) and says of a page only what stays true (`PageInv`): its jobs are of the queue the tick is
at, without repetition, and each is failed or known to have been put back (`stale`). The third
page starts behind its own end and is therefore always empty, so offsets stop at `2 * Limit`. A
retry that Bull does not reject throws for a job that is no longer failed, and by `PageInv` that
job is in `stale`; with one tick nothing enters `stale`.

*Not proved, only checked:* liveness, that is `EveryRequestEnds` of `Accounts` (its `Halted` uses
`ENABLED`) and of `Gateway`, `WindowReopens`, `EverySendSettles`, `EveryTickEnds`,
`FirstQueueIsServed` and `EveryFailedIsRetried`; liveness under fairness, `ENABLED` and induction over data
are beyond the provers used. What the four violation runs refute is, of course, not provable.

## 7. Not modelled

* The rules of the payloads, formatting of mails and errors, password hashing, encryption, the
  string helpers: computation over strings; passwords are values that compare equal or not.
* The query builders of `base.repository.ts` and of the repositories: SQL text for `getOne`,
  `getMany`, `updateFrom`, which no modelled operation calls.
* The branches of `create` that take an id or an entity instead of an address: no route
  passes one.
* Tasks (no task is declared), local storage (unused by the service), the request context,
  configuration, seeds, generators and the wiring of modules.
* What `GET /refresh` does behind its guard: no token gets there. `SessionService.update`, the
  `NX` variant of the cache's `set`, `flushAll` and `close`: no caller among the requests.
* Jobs that are removed from Bull's sets by hand (`job.retry()` then rejects, as for a job that
  is not failed): nothing in the repository removes one.
* The access guard is modelled (`Sessions`) though no route uses it and no module registers its
  strategy. The index locks of `Accounts` leave out that an UPDATE which changes an address
  makes others wait for its old one, too: only `email_change`, which no route reaches, does so.
* How long a rate limit's record lives (see `Gateway`), and the health indicators' internals.

## 8. Plan

1. Done: `Accounts`, `AccountLifecycle`, `Sessions`, `BrokerClient`, `Delivery`, `Gateway`, `QueueRestart`
   with their invariants; every safety property of a run, and both refinements, proved.
2. What `AccountLifecycle` and `Delivery` imply by themselves (who signs in has confirmed, who
   recovered was mailed), carried over by the refinements.
3. `updateFrom` as a pure algorithm: how `_queryParamsAssign` substitutes the parameters of
   two statements one after the other, against the substitution PostgreSQL would make. The
   remaining operations of the cache service.
