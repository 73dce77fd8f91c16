# TLA+ models of the exchange services

The repository holds three services of a stock exchange: a **wallet service** (NestJS, Prisma,
Postgres), a **user service** (NestJS, Prisma, Kafka) and a **risk service** (C++, gRPC, hiredis).
This directory models what in them is concurrent, can fail in the middle or converts numbers,
checks the models with TLC, and proves with TLAPS every safety property the runs check.
Run the tools in this directory; `PROJECT.json` lists the runs, maps every definition to the
source lines it models, and lists the hazards of the code with the properties that cover them.

    tlc -config MCWallet.cfg MCWallet.tla     # one run
    tlapm WalletProofs.tla                    # one module of proofs

## 1. Inventory

Paths below are under `src/`. "Status" says what is modelled now.

### Wallet service (`wallet-service/`)

| component | state | operations | status |
|---|---|---|---|
| deposits and withdrawals (`modules/deposit`, `modules/withdraw`) | tables wallets, wallet_transactions, idempotency_keys; row locks, unique index, snapshots | `deposit` (READ COMMITTED), `executeWithdrawal` (SERIALIZABLE), each several SQL statements | Wallet, WalletLedger |
| consumer of user events (`modules/withdraw/kafka`) | group offset, position of the runner, attempts | start, handle, skip, throw, restart of the consumer, automatic commit | UserEvents |
| list of transactions (`modules/transection`) | reads wallet_transactions | `findMany` with filters and offset, then `count`, per page | Transactions |
| reading a wallet (`modules/wallet`) | none | one query | Transactions (`GetWallet`) |
| producer of wallet events, start and stop (`modules/withdraw/kafka`, `prisma`, `main.ts`) | connections of the clients, the producer's sequence numbers | connect, publish, disconnect | Messaging; publish has no caller yet and is called from any request |

`WithdrawModule` is not imported by `app.module.ts`; `Wallet` models its service as it runs when it
is.  Deposits and withdrawals meet only in the database: the wallet row and its lock, and the
ledger.  They are correct if no interleaving, failure or retry loses an update, overdraws a wallet,
withdraws twice for one key, or answers with what is not in the tables.

### Risk service (`risk-service/`)

| component | state | operations | status |
|---|---|---|---|
| Redis connection pool (`cache/redis_client.cpp`) | list of contexts, stack of available ones, mutex, condition variable, shutdown flag | construct, `execute` (acquire, wait, command, release), destroy | RedisPool, ConnectionPool |
| order rate limit (`cache/rate_limit_cache.cpp`) | a sorted set per user in Redis, with an expiry | `checkAndRecord`: one Lua script | RateLimit |
| gRPC server (`server/grpc_server.cpp`) | `server_`, `running_` | start, wait, shutdown, destructor | GrpcServer |
| CheckPreTrade and GetRiskProfile (`server/risk_service_impl.cpp`) | none across calls | validate, convert, evaluate, answer | PreTrade |
| fixed-point numbers (`types`) | none | `Fixed8::parse`, `fromWhole` | Fixed8 |
| client of the wallet service (`client/wallet_client.cpp`) | none across calls | `getBalance` with a deadline | WalletClient |
| position and price caches | none | one GET through the pool | not modelled |
| risk pipeline and checks | - | - | not modelled: only headers name them, there are no bodies |
| configuration (`config/config.cpp`) | none | read and validate the environment once | not modelled, see section 5 |

The C++ sources are modelled as they are meant to be compiled.  `risk_service_impl.cpp` does not
compile as it stands: it names the enums of `risk.proto`, which are top-level, as members of the
messages, and the domain enums of `risk.types.hpp` have the same names in the same namespace.

The server's handlers call the pipeline, which uses the rate limit, the caches and the wallet
client; the rate limit and the caches use the pool.  What is hard is the pool's wakeups and
shutdown, calls that reach Redis in another order than their timestamps, and the races of start,
wait, shutdown and the destructor.

### User service (`user/`)

| component | state | operations | status |
|---|---|---|---|
| API keys (`modules/api-key`) | table api_keys, audit_logs | create, revoke, revoke all, list | ApiKeys, ApiKeyList |
| sessions (`modules/session`) | table sessions, audit_logs | create, revoke, revoke all, list | Sessions, SessionList; the two revocations have no caller yet and are called from any request |
| accounts, login, seeds (`modules/auth`, `prisma/seeds`) | tables users, roles, permissions, grants | register, login, the seed script | Accounts; seedAdmin is never reached, see section 5 |
| Kafka producer, start and stop (`modules/kafka-module`, `prisma`, `main.ts`) | connections of the clients | connect, publish, disconnect | Messaging; the shape of its events in UserEvents |
| Nest modules, controllers, DTOs, guards | none | wiring, validation | the DTOs a property is about, in the modules of their requests; otherwise what they let through is the models' input |

No operation of the user service but the seed script uses a transaction; every handler is a row of
queries between which other requests commit.

## 2. Modules

Every module has one action per statement, query or critical section, so that an action is what
the program does without letting another actor in between.  `pc`-like variables hold the *next*
statement of each actor.  A definition marked `Mutant:` is a plausible bug; it is not used by the
specification, and `PROJECT.json` ("mutants") says which property finds it.

**WalletLedger** is the abstract wallet service: a deposit, a withdrawal or a change of a wallet's
status is a single step on the three tables.

**Wallet** runs each request as its handler does.  `Send` is the client; a request that is sent
again, after an error or after a timeout while the first attempt still runs, is another request of
the same form, as the service tells them apart by nothing but their key.  `Reply` and `LoseAnswer`
end a handler whose commit or lookup is done; `Fail` is the roll-back at any statement
(the process dies, Prisma's timeout, Postgres cancels).  `DepositFindKey`, `DepositLock`,
`DepositUpdate`, `DepositRecord` and `Commit` are the statements of
`deposit.service.ts`/`deposit.repository.ts`; `WithdrawFindKey` (which takes the snapshot),
`WithdrawFindTransaction`, `WithdrawInsertKey`, `WithdrawLock`, `WithdrawCheck`, `WithdrawUpdate`,
`WithdrawRecord`, `WithdrawFinishKey` and `Commit` those of `withdraw.repository.ts`.  Row versions
a transaction wrote wait in `writes` until `Commit`.  What Postgres does is modelled from how the
code relies on it: `FOR UPDATE` waits for the row's lock; an insert waits for an uncommitted insert
of the same unique key and fails on a committed one; at SERIALIZABLE a statement sees `snap`, and
an update of a row that changed since (`stale`) is a serialization failure; DECIMAL(30,8) overflows
at `MaxBalance`.  Amounts are small integers, since the code only adds, subtracts and compares
them.

**RedisPool** has the steps of `acquire`, `wait`, `release` and the destructor at the grain of
`poolMutex_` and `poolCondition_`, spurious wakeups included; a command may break its context for
good.  The destructor frees the contexts and then the mutex and the condition variable without
waiting for the threads that use them: when such a thread goes on, or waits, the behaviour ends as
undefined (`UseFreed`), and the properties say nothing of what comes after.  **ConnectionPool** is the
abstract pool: contexts that are free, leased or gone.

**RateLimit** has one action for each way through the Lua script, which Redis runs atomically, and
lets calls wait between taking their timestamp (`Begin`) and reaching Redis (`EvalRetry`,
`EvalReject`, `EvalAdmit`).

**GrpcServer** has the owner's thread (start, wait, and the destructor, which calls `shutdown` like any
thread and may run without a wait before it), the threads in `shutdown` and the calls.  A destructor
that loses the exchange of `running_` frees the members while the winner waits in them; once it has,
the next step of that thread or of a handler is undefined.

**UserEvents** is one partition, the group's offset and a process that starts, handles, commits and
dies.  A handler that throws gets its message again `Retries` times (`Throw`); then kafkajs starts the
consumer again in the same process (`GiveUp`), at the committed offset, or at the end of the log if
there is none.  **ApiKeys** has one action per query of create, revoke and revoke all.

Nine parts share no state with any other:

* **Accounts** - the seed script, statement by statement, interrupted and run again, and the
  registrations and logins beside it, from the DTOs to the claims of the token.
* **Sessions** - requests that create sessions of one user, and callers of the repository's
  `revoke` (`RevokeFind`, `RevokeUpdate`) and `revokeAll`, each query an action.  A query fails
  without effect (`Fail`), or takes effect while its reply is lost (`ReplyLost`): then the handler
  throws all the same, and a session that was created is left active.
* **SessionList**, **ApiKeyList** - one `listSessions`, one `listApiKeys`: the query, then each part
  of the answer with its own look at the clock.
* **Transactions** - a client that reads its wallet and then the list of transactions page by page,
  with each filter, while rows are committed.
* **Messaging** - one process of either Nest service.  Each feature module provides a PrismaService
  of its own (`Features`); the Kafka module is global.  Nest orders the hooks by module: the global
  module's `onModuleInit` come first, and its `onModuleDestroy` last, behind those of the databases,
  and the hooks of one module run side by side.  A disconnect of Kafka that fails is caught
  (`DisconnectLogged`), the `$disconnect` of a database is not (`DisconnectThrows`): no hook behind it
  runs.  The user service enables shutdown hooks before it listens, so a signal can stop it half
  started; the wallet service has none and is stopped only by `app.close()`.
  Requests publish to one topic.  The wallet's producer is idempotent: each attempt carries the next
  number of its partition, the broker takes a number it has seen for a retry, whatever the attempt
  holds, and a send whose attempts all time out gives its number back to the next one (`number`).
  That kafkajs (2.2, of the lock file) has at most one attempt of an idempotent producer under way
  for each broker, and that the partitions of the topic do not move, is assumed.
* **Fixed8**, **PreTrade**, **WalletClient** - the conversion of decimals, one call of the risk
  service, one call of the wallet service by the risk service.

**MCParts** instantiates all of them with variables of their own and lets the initial state choose
which one takes the steps.  Since no action of one reads or writes what another has, a behaviour of
the nine together is an interleaving of one behaviour of each, and an invariant of one part holds in
all interleavings iff it holds in that part alone; so one part at a time is enough.

**MCWallet**, **MCRedisPool**, **MCRateLimit**, **MCApiKeys** and **MCAccounts** only add the
symmetry sets or constants their configurations name.

## 3. Runs

| run | what it asks | distinct states |
|---|---|---|
| wallet | ledger chain, conservation of money, no overdraft, one withdrawal per key, keys that resolve, true answers, true refusals, lock order, only active wallets move, refinement of WalletLedger | 290,442 |
| wallet_live | every request is answered | 13,989 |
| redis_pool | exclusive leases, no lost wakeup, calls return, refinement of ConnectionPool | 29,734 |
| rate_limit | the set keeps the limit and forgets nothing that counts; retries are admitted; what delays take from the window | 547,388 |
| api_keys | by how much the limit of keys is exceeded, true audit log, revocations stay | 579,454 |
| grpc_server | the flag, the server and the handlers agree; shutdown brings the server down | 51,661 |
| user_events | nothing skipped, restarts keep what lies behind a committed offset, clean events are handled | 48,330 |
| parts | the nine parts of MCParts | 1,833,935 |
| wallet_deposit_retry, api_keys_limit, user_events_envelope, rate_limit_late | one violated claim each, see section 6 | |

### Properties worth a word

* `LedgerChain`: each entry's balance before is the balance after of the one before it, and the
  wallet holds what the last one left.  A lost update breaks it, and so does a balance read in one
  statement and incremented in another without the lock.
* `ImplementsLedger`: with the tables as they are and everything else hidden, `Wallet` refines
  `WalletLedger`; `Commit` is the step, all others stutter.
* `RefusalsAreTrue`: at the moment a withdrawal is refused none is posted under its key, by an attempt
  whose answer was lost either.  The refusal is not final: a first attempt that still runs may yet
  post, if a deposit comes in between; nothing in the code excludes it.
* `NoLostWakeup`: while a thread sleeps, every available connection has a thread that is going to
  take it or to wake one.
* `CallsReturn`: every call returns or throws, *if* threads do not keep calling an open client for
  ever.  The code has no queue: a thread that has just arrived may take each connection before the
  thread that was woken for it, and one that sleeps may starve.
* `NoHandlerOutlivesServer`: after `wait` no handler executes.  A destructor that wins the exchange of
  `running_` waits for the handlers like any `shutdown`; one that loses it does not, and this is the
  one way to free the service under a handler.  `GraceGranted` (section 6) is what the code promises.
* `OverrunBounded`: `api-key.service.ts` counts and inserts in two queries.  The limit can be
  exceeded, by at most the number of requests that run at once, less one.
* `TracksWindow`: the sorted set holds the very requests admitted in the current window, whatever
  other threads' purges and the expiry of the key have removed.  `WindowLessDelay`: calls are stamped
  before they wait for a connection, so `SlidingWindow` is false (section 6); but no window shorter
  than `windowMs` by the longest delay ever admits more than the limit.
* `NothingSkipped`/`CleanEventsHandled`: at least once and in order; a restart before the first
  commit, of the process or of the consumer behind a message it cannot handle, starts at the end of
  the log (`fromBeginning: false`) and is the one way to lose an event.  `EventsKept`: once an offset
  is committed, no later restart passes a message behind it that was not handled.
* `ImplementsPool`: with the stack of available contexts as the free ones and `lease` as it is,
  RedisPool refines ConnectionPool: a context comes back however `execute` ends, no context is lost,
  and none is leased once the destructor has begun, though the flag, the stack and the notification
  are changed in steps of their own.
* `RevokedAsAsked`: `revoke` finds and updates in two queries and `revokeAll` updates what it meets;
  whatever races, and whichever replies of the database are lost, what was to be revoked is, nothing
  else is, and a caller that was told of a session has it.  A creation that failed may have left one.
* `ListCoherent`: `listSessions` looks at the clock many times, so its two counts may overlap, by
  the sessions that expired meanwhile, but never miss a session.  `KeyListCoherent` is stricter,
  since `listApiKeys` takes both counts from one look.
* `StartsWholeStopsInOrder`: a service serves with every client connected or not at all; its stop
  refuses a publish, and closes the server, only after all databases were disconnected; and a stop
  that a database cuts short leaves Kafka connected, which is what the code does and not what one
  would wish.
* `OnceUnlessDisplaced`: an idempotent producer, its retries and the userId as the key put the wallet's
  events into the log once, and those of a request in the order it published them, unless a number
  that was given back is used twice: then an attempt that timed out may have the place of a later
  event, which is acknowledged and dropped.  The property says that this is the only way to lose or
  repeat one.  Of the user service's producer only that a publish that succeeded is in the log.
* `ParsesExactly`: `Fixed8::parse` against the value the text denotes; the cut-off in its loop
  rejects no number that fits.

### Bounds, and why they are enough

* Wallet: three concurrent requests for one wallet under two keys (`CrowdForms`): an attempt, the same
  one sent again, and a third that moves the balance between them, which is what a refused retry of a
  withdrawal that still runs needs.  `wallet_live` has two requests of every form.  `MaxBalance = 4`
  with `Opening = 2` lets deposits overflow and withdrawals be refused.  The safety properties are also
  proved for every value of the constants, here as in every other module (section 4), so the
  bounds limit only what is said of liveness and what the violations need.
* RedisPool: three threads on two connections is the smallest pool in which one thread sleeps
  while two release, which is when a wakeup can be lost.  Threads call as often as they like.
* RateLimit: a limit of 2, a window of 3, a clock to 7 and delays to 2, so that calls overtake each
  other by most of a window, the key expires and is made again, and a window less the delay is left.
* ApiKeys: three of four requests at once with a limit of one, so that the bound on the overrun is
  reached and a fourth request sees the overrun.
* GrpcServer: three threads in `shutdown` beside the destructor, and three calls; proved for any number.
* UserEvents: four messages of every kind, two attempts at each, and two crashes: one before the first
  commit and one after.
* MCParts: two registrations or logins; two creations and two revocations, which give every pair
  of racing queries; lists of up to two rows whose expiry lies on either side of every look at the
  clock; three transactions in pages of one; two feature modules, so that one database can fail before or
  behind another; two requests that publish two events, each tried twice, into two partitions, so
  that an event can displace another's and a late attempt its successor's (features, requests and
  partitions are symmetric); texts of up to five
  characters for an 8-bit number with one decimal (the smallest in which the whole part, the
  fraction and the sign each reach the limit), every request and every reply.

Clocks, queues, attempts and crashes are cut off by a guard on a constant (`MaxTime`, `MaxDelay`,
`MaxMessages`, `MaxCrashes`, `MaxEvents`, `MaxRetries`), each marked as a bound where it is declared;
`Retries` of UserEvents is the code's own.  `CHECK_DEADLOCK FALSE` stands where the system may stop
because everybody is done; the wallet runs check deadlock.

### Fairness

* Wallet: weak fairness of each request's own statements.  The event loop and the database go on
  executing them; `Fail` and `LoseAnswer` end them too and need no fairness.
* RedisPool: weak fairness of each thread's own step and of the destructor once it has started;
  strong fairness of taking the mutex, since spurious wakeups of other threads may take and release
  it for ever.  That a running command ends is an assumption: the code has no command timeout.
  Nothing is assumed about who gets a connection; `CallsReturn` states its condition itself.
* GrpcServer: weak fairness of a thread that is inside `start`, `wait`, `shutdown` or the destructor,
  and of handlers.  Nothing is assumed about who calls `shutdown`, or about the grace period.
* UserEvents: weak fairness of the start and the runner, whose retries and restarts are its steps; none
  of the commit or the producers.

## 4. Proofs

Eight modules hold theorems; `PROJECT.json` lists the ones to know.  Together they state every
safety property and action property of the passing runs, and both refinements, for every value of
the constants that satisfies the `ASSUME` of the module: the constants' types, that sets of requests,
threads or ids are finite where something is counted, and that `Null` is no value.  The one
assumption made beyond that is `TtlFits` of RateLimitProofs, below.  Every `IInv` below was also
checked by TLC, with the bounds of section 3, before it was proved.

**WalletProofs.**  `Invariance` proves `TypeOK` with the inductive invariant `IInv`, which says
what each statement relies on because of those before it: between `FOR UPDATE` and the end the row
is locked by this request, ACTIVE and as it was read (`RowInv`); a withdrawal's snapshot is the
committed row unless it is stale, and it is not stale once the row is locked (`SnapInv`); it holds
the only insert of its key (`KeyInv`); the versions it wrote are those its request asks for
(`EntryInv`).  None of the table properties is inductive without this: `Commit` publishes versions
written several steps earlier, and only the locks make them still right.

* `NeverOverdrawn` follows from `IInv`, and so does the action property `ActiveWalletsOnly`.
* `TablesConsistent` proves `LedgerChain`, `KeyRecordsResolve`, `WithdrawOnce` and a fourth fact
  together, that a posted withdrawal has used up its key (`PostedUsesKey`); each needs the others.
* `BooksKept`: the balance is the sum of the entries.  The sum is a recursive function; that a commit
  adds the new entry to it is shown by taking the first partial sum that would be wrong (see below).
* `NoDeadlock`: a row lock belongs to a request that waits for nothing more and a key lock to one
  that waits for a row at most (`LockInv`), so waiting ends after two steps and has no cycle.
* `AnswersTrue` needs the past of each request: `HistoryInv` says that the ledger holds only what
  requests asked for, and what a request has answered or is about to answer.  `RefusalsTrue`:
  a withdrawal that has inserted its key keeps the slot of that key unused by others until it ends,
  and a key without a row has no withdrawal (`PostedUsesKey`); one that finds a key in its snapshot
  finds its transaction there too.
* `Refinement`: an initial state is one of WalletLedger's, `Commit` is its `Deposit` or `Withdraw`,
  `SetStatus` is its `SetStatus`, and every other step leaves the tables alone.

**RedisPoolProofs.**  `IInv` says where each thread is by what it holds (`ThreadInv`) and how far the
owner is by what is in the vectors and what has been freed (`OwnerInv`).  `Exclusive` follows: a
context in the stack is in it once and leased to nobody.  `Wakeups` is inductive with it: a release
wakes a sleeper if there is one, and a thread that is awake and finds a connection takes it, so that
each available connection keeps a thread of its own.  `Refinement` maps the stack to the free
contexts of ConnectionPool.

**RateLimitProofs.**  `Limited` (`WithinLimit`) assumes nothing more.  `Tracked` and `Retried` assume
`TtlFits`, that twice the window fits 64 bits; without it they are false, as
`MCRateLimit_overflow.cfg` shows, and the configuration of the service does not enforce it.  Under
it the key outlives everything that counts (`ExpiryInv`).  `ShorterWindowKept` proves
`WindowLessDelay` for every delay: what the run `rate_limit_late` shows to be lost of a window is at
most the time calls wait between their timestamp and their execution.

**GrpcServerProofs.**  `IInv` ties the owner's place, the server, `running_` and the threads in
`shutdown` together: the exchange of `running_` lets exactly one thread through, and that one takes
the server through draining; a destructor that frees a server whose handlers execute has lost
it to another thread.  `RunningServes` and `HandlersFinish` follow.

**ApiKeysProofs.**  `OverrunIsBounded` rests on the cardinality argument that a request passes the
check only if there is a free place, and that all requests that passed it are among those that
run.  `AuditTellsTruth` needs that rows are never deleted (`RowsStay`) and that a revoked row stays
revoked (`RevokedStays`), which is also `RevocationIsForGood`.

**UserEventsProofs.**  `AtLeastOnce` (`NothingSkipped`) with `OffsetsInv`: committed offsets lie
behind the group's start, and the runner's position is forgotten when the consumer or the process
starts again.  `KeptBehindOffset` (`EventsKept`) is temporal: from the first commit on, the start of
the group never moves again.

**UserPartsProofs** and **ServicePartsProofs** are about the parts of MCParts.  Each invariant is
proved of the module of its part; a lemma `...Alone` shows that a behaviour of MCParts is, seen
through the part's variables, one of that module, and `PartsConstants` gives the part its
assumptions.  This is the argument of section 2 for exploring one part at a time, proved.

* Sessions and accounts (`Revocations`, `Outcomes`): what each query may rely on because of those
  before it (`JobInv`, `WebInv`), and that the tables keep what a query has done though its caller was
  not told.
* Lists (`SessionsListed`, `KeysListed`): that the counts cover everyone is a statement about sets:
  there are sets of positions, A counted as active and R as revoked, whose cardinalities the counts
  are and whose union is everything up to the position reached (`Tallied`, `Counted`).  Rows expire
  between looks but never come back, so A contains what is active now.
* `Pages`: a row the client asked for and has not seen lies behind the pages it has read (`Ahead`):
  rows are never removed, so its rank never falls.
* `StartAndStop`: `ProcessInv` says what each client is by how far the stop is.
* `Events`: `EventsInv` says that each event in flight or in the log was sent by the request it names
  to the partition of its user; `NumbersInv` that the producer's next number is the broker's or one
  behind it, the latter when what stands last in the log came from an attempt that timed out and was
  not acknowledged, and that every number before was acknowledged once.  That is why an event can be
  displaced only by one whose answer was lost.
* `Verdicts`, `Balances`: a case analysis of one call.
* `Parses`: parse returns the number a text denotes.  `IInv` of Fixed8 relates what the loop has
  gathered to the value of the digits it has behind it.  A whole part beyond the cut-off only grows
  with more digits (`ValueGrows`), and scaled it is beyond both ends of the range (`CutOff`); a place
  value is exact because the power of the digits read, times that of those missing, is SCALE
  (`FractionGrows`).

*Induction over data.*  Sums, powers, values of digits and counts are defined by recursion, and the
provers cannot use the library's induction theorems, which take a predicate as a parameter.  Where a
proof needs induction it argues by the least counterexample instead: `LeastNumber`, proved from the
well-foundedness of strict inclusion on finite sets, gives the least element of the set of
counterexamples, and the step from the one before it is a contradiction.

Only model-checked: liveness (`Served`, `CallsReturn`, `ShutdownStops`, `CleanEventsHandled`), which
the proof system does not reach.  The properties with `expect: violation` are false and have no
theorem.  `TypeOK` is a property of the runs `wallet` and `api_keys`; in the other
modules it documents the variables, and is proved where a proof needs it.

## 5. What is not modelled

* The configuration of the risk service: one thread reads the environment and compares single values
  with limits before anything else runs.  What it lets through are the models' constants.
* The position and price caches: one GET each through the pool, no state of their own.
* `seedAdmin`, the last step of the seed script: the step before it fails in every run, so no run gets
  there (section 6).
* The pipeline of checks and the checks: only headers name them.  PreTrade lets the pipeline return
  or throw anything.
* Wiring, guards, Swagger, CORS and cookies of the Nest services: they decide which requests arrive.
* What no code does: nothing completes or reverses a PENDING withdrawal, nothing reads `expiresAt` of
  an idempotency key, nothing reconnects a broken Redis context, nothing joins the callers of a Redis
  client or of `shutdown` before the destructor.

Within modelled components: the wording of messages; the arithmetic of DECIMAL (values are integers
with an upper limit); bcrypt and the signatures of JWT, which only take time between two queries or
yield opaque values; the validation of JSON beyond the kinds of message `UserEvents` distinguishes;
the parsing of the Redis URL.  A second member of the consumer group, or a second process of a
service beside the first, does not occur: the wallet runs cover it, as requests meet only in the
database there.

## 6. Where the code and its words disagree

Four runs have `expect: violation`; each checks one statement of the repository.

* `wallet_deposit_retry` - the deposit service answers a repeated idempotency key from a row that
  nothing ever writes; a retried deposit is booked twice (`DepositOnce`).
* `api_keys_limit` - the limit of active keys is exceeded by two creations at once (`LimitHolds`).
* `user_events_envelope` - an event in the envelope the user service declares makes the wallet
  service's consumer throw.  kafkajs tries again, restarts the consumer and, once the group has
  committed an offset, comes back to it for ever; the events behind it wait (`EventsHandled`).
  Without an offset the restart jumps to the end of the log instead and loses them.
* `rate_limit_late` - the "sliding window" purges by the caller's timestamp; a late call is
  admitted into a full window (`SlidingWindow`).

Seven more are found with configurations that are not among the runs, as they change what a run
assumes:

    tlc -config MCGrpcServer_early.cfg GrpcServer.tla   # EveryShutdownStops
    tlc -config MCGrpcServer_grace.cfg GrpcServer.tla   # GraceGranted
    tlc -config MCAccounts_seed.cfg MCAccounts.tla      # SeedCompletes
    tlc -config MCWallet_migrated.cfg MCWallet.tla      # CastsResolve
    tlc -config ApiKeyList_room.cfg ApiKeyList.tla      # RoomShownIsRoom
    tlc -config Transactions_page.cfg Transactions.tla  # PerPageServed
    tlc -config MCRateLimit_overflow.cfg MCRateLimit.tla  # TracksWindow

* `shutdown` between `BuildAndStart` and `running_ = true` has no effect.
* a destructor that runs while another thread is in `Shutdown` returns from its own `shutdown` at once
  and frees the server and the service under the calls of the grace period.
* the seed script grants permissions to a role `USER` it does not create, and fails every time, so the
  administrator is never created.  The run `parts` uses the same roles: registrations and logins are
  checked beside the script as it is.
* the raw SQL casts to `"Currency"` and `"WalletStatus"`, the migrations create `currency` and
  `wallet_status`.  The other wallet runs give the database the names the SQL uses (`DbTypes`).
* the list of API keys does not count expired keys as active and shows the limit beside the count;
  the creation of a key counts them.  A user is shown room and refused.
* the wallet service has no ValidationPipe, so the DTO's perPage is neither checked nor made a
  number: every query that names a page length fails.
* the configuration accepts any positive window; twice a window above half of the 64-bit range is
  negative, the key is deleted at once and the limit never holds.

## 7. Plan

Done: the wallet service with its abstract specification; the pool with its abstract specification,
the rate limit and the server of the risk service and both its calls; API keys, sessions, their
lists, accounts and the consumer; the start, publishes and stop of the Nest services; the conversion
of decimals; the proofs of every safety property of the passing runs and of both refinements.

Left: a composition of RateLimit with RedisPool, in which a call holds a lease from `Begin` to
`Eval`, so that delays come from waiting for a connection, and a broken connection is a lost answer.
