# A verification project for nestjs-service-template

Specifications in TLA+ of the service in this repository, instances of them that
TLC model-checks, and theorems about them that TLAPS proves. Paths below are
relative to the repository; `core/` stands for `packages/nestjs-core/src/` and
`identity/` for `src/identity/`.

To check an instance: `tlc -config <run>.cfg <module>` with the pairs of
[Runs](#runs). To check proofs: `tlapm <module>Proofs.tla`.

## The system

The service is a NestJS application over Fastify, PostgreSQL (node-postgres and
drizzle) and a small framework, `core/`. It is one process; everything that
happens concurrently is asynchronous: requests interleave at every `await`, and
their statements at the database.

| component | state | operations | how it meets the others |
|---|---|---|---|
| User aggregate, `identity/domain/entities/user.entity.ts` | one account and its ways to sign in, in memory | `register`, `setPassword`, `linkOAuth`, `unlink`, `verifyEmail`, `suspend`, `committed` | built and saved by the repository |
| Users write path, `identity/operation/register-user.handler.ts`, `identity/infrastructure/persistence/drizzle-users.repository.ts` | three tables; a transaction per request | `execute`, `findByEmail`, `findById`, `save` | on the transaction's connection, through `@Transactional()` |
| Users read path, `drizzle-users.queries.ts` and its handlers | none of its own | `list`, `byId`, `methodsOf` | on the pool, a connection and a snapshot per statement |
| Request context, `core/context/`, `core/http/fastify/` | the declaration; a store, an id and log bindings per unit of work | `defineContext`, the middleware, `set`, `headers`, `inject`, `runWithContext` | read by the logger, sent to other services, named by Fastify |
| HTTP contracts, `core/http/`, `core/errors/` | the registry of error contracts, filled at boot | the scanner, two filters, the request log | endpoints declare, filters answer |
| Connection pool and shutdown, `core/database/database.module.ts`, `src/main.ts` | connections and who waits for them | a connection asked for, granted, refused, timed out, closed, broken; the shutdown hooks | everything that reads or writes |
| Health probe, `src/health/health.module.ts` | none | `check` | one statement on the pool |
| Password hashing, `identity/infrastructure/hashing/` | the promise of a dummy hash | `hash`, `verify`, `needsRehash`, `verifyDummy` | inside the registration's transaction |
| Logger and request log, `core/logger/`, `core/http/logging/` | a pino instance made at import; what hooks keep on a request | calls of Nest and of classes, redaction, access lines | reads the bindings of the context, configured by `main.ts` |
| Contracts and OpenAPI, `core/contracts/`, `core/openapi/` | none | schemas, a document | generated from the declarations |
| Configuration, `src/config/` | the environment, raw and validated | read once each at boot | decides what is logged; constant afterwards |

What is hard here:

* two requests that work on one user, statement by statement: an aggregate is
  read by three statements and written by four or more, and the one guard
  against the other request is a predicate on a version;
* locks of unique indices, held until a transaction ends, by saves that delete and
  re-insert rows: deadlocks;
* a COMMIT whose answer is lost; a statement, a hash or the process that fails in
  the middle;
* reads on several snapshots, and offset pages over a table that grows;
* one id and one set of fields told to three libraries, the log and other
  services, at different times and with different trust;
* what endpoints declare one by one and the registry makes one table of, in the
  order of a scan;
* a pool at its limit, timeouts while others hold connections, connections that
  break, and a signal that comes in the middle of it;
* a log that is built before the configuration is validated, is spoken to before it
  is in use, and must never show what its redaction cannot match by path;
* hashes that are verified, found weak, made again and saved in four steps, by
  processes of different releases.

What makes each part correct is stated by the properties below. `PROJECT.json`
lists the hazards by line, with the properties that cover each.

## Modules

| module | what it is |
|---|---|
| `UserAggregate` | the methods of the aggregate, as operators on a user |
| `AtomicAccounts` | the abstract specification: a unit of work on a user happens at one instant |
| `UsersWritePath` | the detailed one: every statement, lock, commit and failure |
| `UsersWritePathInvariant` | its inductive invariant, `WritePathInv` |
| `UsersReadPath` | reads between the units of work of `AtomicAccounts` |
| `RequestContext` | the request context over services that call one another |
| `HttpContracts` | boot scan, replies and which lines are written of them |
| `RequestLog` | the log from the boot to its access lines: configuration, both interfaces, payloads, redaction |
| `ConnectionPool` | who holds a connection, who waits, what breaks, and the shutdown |
| `PasswordHashing` | the hasher in a fleet of processes, and the sign-in its port describes |
| `MC*` | instances: the values TLC is given |
| `*Proofs` | the theorems about the module of that name; those about `AtomicAccounts` open `UsersReadPathProofs`, which builds on them |

They compose along the code: `UsersWritePath` and `AtomicAccounts` use the
operators of `UserAggregate`; `UsersWritePath` implements `AtomicAccounts`
(`INSTANCE ... WITH accounts <-` the rows put together), which is why
`UsersReadPath` can extend `AtomicAccounts`: a reader sees committed rows only.
The other modules share no state with them or with each other. `HttpContracts`
says which replies leave a line, `RequestLog` what a line shows; `PasswordHashing`
has the version check of the write path as one step, `SaveUpgrade`.

Operators named after a bug, with a comment that begins "Bug:", are not used by
the specifications. Each is what a definition would be with a plausible mistake
in the code it stands for, and shows that some property notices.

### UserAggregate, AtomicAccounts

A user is a record; a method is an operator that gives the next record, or a
reason to refuse (`LinkRefusal`, `UnlinkRefusal`). `Successors` is what one call
can make of a user, `Reach` what a unit of work can commit. Timestamps are left
out, apart from whether `emailVerifiedAt` is null; accounts are a set. A profile
*vouches* if the provider has verified an address and it is the user's.

`AtomicAccounts` has one variable, the committed aggregate of each id, and two
actions, `RegisterUser` and `ChangeUser`.

### UsersWritePath

| variable | code |
|---|---|
| `users`, `passwords`, `oauthAccounts` | the committed rows of the three tables |
| `pc`, `userId`, `user` | where a request is in its handler, and the aggregate it holds |
| `tx` | what its transaction has written: rows others do not see, locks they wait for |
| `base`, `outcome` | history: the aggregate as loaded, and how the unit of work ended |

The actions follow `load` (`LoadUser`, `LoadPassword`, `LoadAccounts`: three
statements, three READ COMMITTED snapshots), the handler (`CallMethod`, or the
two parts of a registration), `save` (`InsertUser` or `UpdateUser` for the
upsert with its version predicate and their failures, `SavePassword`,
`DeleteAccounts`, an `InsertAccount` for each row, `FinishSave` with
`committed(next)`) and the end of the transaction (`Commit`,
`CommitAnswerLost`, `Fail`, `AbortDeadlock`).

The only handler of the service that writes is `RegisterUserHandler`. The other
units of work are what the repository's interface and
`docs/v1-architecture.md:43-48` are for: load a user, call a method of the
aggregate, save it, once or twice. The model of PostgreSQL is external: row
locks, unique values held until a transaction ends, a detector that breaks
cycles of waits.

### UsersReadPath

`Page`, `Matching` and `Rank` are the SELECT of `list` with its WHERE, ORDER BY,
LIMIT and OFFSET; each statement is answered by a step of its own, on the users
of that moment. Rows that sort alike come in either order (`Ties`). The walk
through the pages is a client: it asks for page after page until one is short.
`methodsOf` has no caller in the service yet and is modelled from its interface.

### RequestContext

A unit of work arrives from outside or is the outbound call of another; its
transport names it (`Receive`, with Fastify's `genReqId`), the middleware fills
its store, bindings and response headers (`Populate`), and then fields are set
and calls made. The declaration is a variable that never changes, so one run
goes over every declaration. `drawn` and `tainted` are history: which random
values exist, and which fields hold what somebody outside chose.

### HttpContracts

`ScanResponse` is one iteration of `onApplicationBootstrap`'s loop, in any order
of the endpoints; `FinishScan` is the warning and the start of the server.
`HandlerReturns`, `HandlerThrows`, `CatchDomain`, `CatchUnhandled` and
`OnResponse` are the run time. The fields of a response are a set of keys, and
a contract is the keys it requires. An error is parsed against its contract by the
filter; a success leaves as its handler returns it, as `SerializeOptions` is metadata
and the interceptor that would read it is bound nowhere.

### ConnectionPool

A request sends one statement, or two at once (`list`, whose `Promise.all`
answers at the first failure); a registration's transaction is one statement
that goes through `Step`s with the connection in its hand. The queue of the pool
is what was waiting when a statement was sent (`ahead`); `idle` counts the open
connections nobody uses. The database may refuse a new connection (`ConnectFails`),
which fails the first statement of the queue. Nobody listens to the errors of the
pool or of a connection in a transaction, so `ConnectionBreaks` there ends the
process; one that breaks under `pool.query` fails its statement. `Signal`,
`CloseServer`, `EndPool`, `PoolEnds` and `Exit` are the shutdown in Nest's order:
`app.close()` waits for the requests Fastify took, then
`onApplicationShutdown` ends the pool, then the process gets its signal again.

### RequestLog

`ImportLogger` is `config/logger.ts`, evaluated while `app.module.ts` is imported;
`Validate` is `ConfigModule.forRoot`; `Buffer` and `Serve` are `bufferLogs` and
`app.useLogger`; then `Receive`, `HandlerLogs`, `Send` (the `onSend` hook, which
keeps the payload on the request) and `OnResponse`. A payload is the set of paths
at which it has a value and its form: JSON, a text, a stream. A line holds the
leaves that no pattern of `DEFAULT_REDACT` covers, by the rule of pino: a path, with
`*` for one key. A text is one leaf, whatever is written in it: a reply that is not
JSON, the body of a `text/plain` request, the URL, and the message with the URL in it.
`Promotes` is the
convention of Nest's `LoggerService`, by which a trailing string is the context.

### PasswordHashing

`MakeDummy` is `this.dummy ??= hash(...)`, and `DummySettles` the promise's end, good
or bad. `Verify`, `Hash` and `NeedsRehash` are the hasher's own; any call of the native
library may throw, and a `verify` that throws is false at once: `verification` tells
that (`"threw"`) from one that has cost what a verification costs (`"verdict"`). A hash is the password it is of and the parameters it was made
with; `Corrupt` is a row the library cannot read, and `Foreign` parameters are those
`PARAMS` does not match. Nothing in this service signs anybody in yet, so the client
is the one that `password-hasher.ts` and `argon2-password-hasher.ts:46-50` describe:
verify, and hash again if the stored hash is weak. `Replace` is a release, a rollback
or a crash: the promise and the sign-ins of a process go with it.

## Runs

Passing runs:

| run | module, cfg | instance | shows |
|---|---|---|---|
| `two_users` | `MCUsersWritePath`, `TwoUsers` | 2 requests, 2 users, 2 addresses typed in several forms, a blocked and a malformed one, 2 providers of which one vouches; links and unlinks | an address and a provider account name one user, nobody is locked out, no torn load is current, no update and no verification is lost and success is stored, no conflict is false, only account inserts deadlock; the write path implements `AtomicAccounts` |
| `liveness` | `MCUsersWritePath`, `Liveness` | 2 requests that exchange provider accounts of 2 users | every unit of work ends, although saves deadlock |
| `read_path` | `MCUsersReadPath`, `ReadPath` | a client, 3 users, 3 searches, pages of 1 and 2, both sorts; links and unlinks | walks skip nobody and are exact on a quiet table, a 404 is true, torn sign-in methods are the mark of a change |
| `context` | `MCRequestContext`, `Context` | three services that call each other, the last without Fastify, every declaration of a field beside the id | contracts kept, nothing forged, one id everywhere and over hops, bindings fresh, what was told stays true |
| `http_coherent` | `MCHttpContracts`, `HttpCoherent` | 3 endpoints, 3 codes, every coherent way to document them | documented statuses, the warning at boot, errors hold what is documented, 5xx logged |
| `connection_pool` | `MCConnectionPool`, `ConnectionPool` | 2 registrations and a list on 2 connections that fail, time out and break | the queue never waits for itself, every request is answered unless the process crashes, none meets an ended pool, the exit cuts nothing short and comes |
| `request_log` | `MCRequestLog`, `RequestLog` | 9 environments, the repository's redaction list, 2 requests with JSON, oversized, text and stream bodies, and a token in a query | secrets in a line only by a URL or a text body, payloads off in production, lines of one request only, nothing said at boot is lost |
| `password_hashing` | `MCPasswordHashing`, `PasswordHashing` | 2 sign-ins, 2 processes, 2 releases, corrupt and foreign hashes | one dummy hash, only throws refuse cheaply, upgrades upgrade and are of the stored password, every sign-in ends |

Runs that find a violation, of what a text of the repository says:

| run | cfg | what happens |
|---|---|---|
| `registration_race` | `RegistrationRace` | two registrations of one address: the second gets a 500 from the unique index and not `EMAIL_ALREADY_REGISTERED` |
| `context_rejections` | `ContextRejections` | a malformed inbound id is replaced by `genReqId` and `onRejected` is not called |
| `http_request_log` | `HttpRequestLog` | a request with `/docs` in its query leaves no access line |
| `http_serializer` | `HttpSerializer` | a handler returns `passwordHash` beside what its contract names, and it leaves: nothing strips successes |

`PROJECT.json` quotes the texts under "findings". All four are of the application as
it is; of the last one, what this service returns today is what its mappers name
(`responses.ts:33-46`), so the run needs a handler that returns more.

### Bounds, and why they are enough

* Write path: `MaxVersion` is where no unit of work starts any more; 3 lets a
  user be registered, changed and changed again, so that a request meets a version
  that is no longer current and two saves in one unit of work need the version that
  the first one left. A unit of work saves a loaded user at most twice
  (`CallAnotherMethod`), which is what `committed(next)` is about, and calls one
  method per save. Two providers with one account each are the least that can
  deadlock, and two requests the least that can race or tear a load. One provider
  vouches and the other does not, so that a user may be verified between the load and
  the save of a request that leaves it unverified. `linkOAuth` and `unlink` are the
  methods that meet in several tables; three requests, or the other methods in
  between (a suspension among them: `NothingStoredIsTakenBack`), are left to the
  proofs. Requests, users and accounts are symmetric in the safety run and not in
  `liveness`.
* Read path: clients do not see each other, so one is enough. Two of three ids
  are drawn in the same millisecond, so ties occur. Searches are sets of
  addresses: all, one that a later registration may match, and a single address.
  Pages of one and of two cut three users at every place. A user changes once, by one
  save or two, which is what can tear a list of methods; nobody is verified
  twice or suspended and linked here, so that changes take nothing back
  (`NothingIsTakenBack` of `AtomicAccounts`) is proved and not a property of this run.
* Request context: three units of work, because the properties relate a unit to its
  caller and to its caller's caller; three values that satisfy their contract, so
  that the units may draw different ids, and one that does not; two fields, the id
  and another. Random draws give values nobody has, and a run ends when there are
  none left.
* HTTP: one request, as requests share nothing but the registry, which does not
  change once the server listens.
* Pool: as many registrations as connections, so that they can hold all of them,
  and a list with two statements. `read` requests are lists of one statement and
  are left to the proofs. A crash may come at every step.
* Request log: an environment of each kind (a laptop, the image of the `Dockerfile`,
  a switch set to a true value that is not `'true'`, each way to be malformed); two
  requests, because the hooks keep payloads between them; of the payloads one per
  rule (JSON, too large, text, stream), with a secret at the top and one a level down;
  of the URLs one with a secret in its query. Each call is made once.
* Hashing: the two policies are ones that OWASP calls equivalent, each weaker than
  the other in one parameter, so that rollbacks make upgrades go both ways. Two
  sign-ins on one user race with each other and with `ChangePassword`, which
  `MaxVersion` bounds; two are also the least that meet in `verifyDummy`.
* Deadlock is checked in the write path. `CHECK_DEADLOCK FALSE` is said where the
  instance ends by its bounds (units of work, requests, ids or versions used up)
  or, in the pool, where the process has gone.

### Fairness

* `UsersWritePath`: a request that waits for nobody takes its next step (weak
  fairness: the event loop and the database go on). A statement that waits for a
  lock is granted it if the lock is free again and again (strong fairness:
  PostgreSQL queues waiters). The deadlock detector acts while a cycle lasts
  (weak). Nothing is assumed of failures, and no new unit of work has to start.
* `ConnectionPool`: handlers, grants, answers and the steps of the shutdown are
  weakly fair; a statement that has a connection is answered, well or badly. This
  is an assumption about the database: the code sets no `statement_timeout`.
  Timeouts, refusals, breaking connections and the signal are not fair: the liveness
  properties hold if no timer ever fires. A queue whose head is refused a connection
  moves on to the next.
* `PasswordHashing`: the thread pool of the library answers, well or badly, and the
  event loop goes on (weak fairness of a sign-in's steps and of the dummy's promise).
  Nobody has to sign in, and no process has to be replaced.

The other modules have no liveness property.

## Theorems

Proved for every value of the constants, under the `ASSUME`s of the modules.

* **The aggregate** (`UserAggregateProofs`): every method makes of a sound user a
  sound user, and what it leaves alone. Sound: a way to sign in, one account per
  provider, distinct ids. Cardinalities are of any finite set of accounts.
* **The abstract specification** (in `UsersReadPathProofs`): types, nobody locked
  out, nothing taken back, identities unique. `Inv` (types and soundness) is
  inductive by the lemmas above.
* **The write path** (`UsersWritePathProofs`): `WritePathInv` is inductive. None of
  the safety properties is by itself: that a save replaces what was loaded
  depends on a request that holds the row lock having a version that is still
  current (`WritesInv`), which depends on a load with the stored version being
  untorn (`LoadingInv`, `ChangingInv`), which depends on no two requests holding
  one row (`RowLockInv`); that addresses and keys are unique at commit depends on
  who holds the index entries before (`EmailInv`, `KeyInv`). The proof has a lemma
  per action. From it: loads are untorn when current, no update is lost,
  conflicts are real, nobody is locked out, identities are unique, and
  `WritePathIsAtomic`, that the write path implements `AtomicAccounts`: each step
  but the commits stutters, and a commit is a `RegisterUser` or a `ChangeUser`.
  `NothingStoredIsTakenBack` brings an action property of the abstract
  specification (`ChangesOnlyMoveForward`) down to the rows, and
  `VerificationsAreNotLost` is what it says of a verification that a save races.
* **Locks** (`UsersWritePathProofs`): whoever is waited for holds its users row, as
  the upsert is the first statement of a save; who holds that row does not wait for
  one any more, only in the last statement for the key of an account, and a
  registration inserts no accounts (`RegistrationsNeverDeadlock`).
  `SavesNeverStandStill`: following who waits for whom through finitely many requests
  ends at one that moves or comes back (by the pigeonhole principle), and a cycle is
  what the detector breaks.
* **The race for an address** (`UsersWritePathProofs`): a registration fails with a
  unique violation only if another one of the same address commits between its check
  and its `INSERT` (`OnlyRacesViolate`), and never where units of work do not overlap.
* **The read path** (`UsersReadPathProofs`): for any number of users and any page
  size, a walk skips nobody and is exact on a quiet table, where no two rows that
  match sort alike. The argument: a row's place (how many rows sort before it)
  only grows, so a row that is not behind the walk stays ahead of it
  (`NobodyIsBehind`), and a page that a row comes after is full (`PagesFill`: every
  place below that of a row is taken). If nobody joins, places do not change, and
  pages cut them into pieces (`PlacesAreSeenOnce`). Also: `NotFoundIsTrue` and
  `MethodsAreWhole`.
* **The request context** (`RequestContextProofs`): over any number of services and
  any declarations with at most one id field and a codec that decodes what it
  encodes: nothing forged, nothing told is rewritten, bindings fresh; one id per
  unit of work, unless the id field is declared to change. If what satisfies a
  contract is on the wire as it is (`StringsAreTheirOwn`, as the strings of
  `config/context.ts` are): the store keeps its contracts, and one id goes over every
  hop. The argument for that follows the name that Fastify gave into the store
  (`NamesKeepContracts`) and a caller's store into what its peer received (`HopsAgree`).
* **HTTP** (`HttpContractsProofs`): documented statuses, if each business error is
  documented with one status; the warning at boot; errors within their contracts; an error line for
  each 5xx, if nobody documents one (`DocumentedFaultsAreTheClients`): then it is of
  what nobody mapped or nobody caught, and the filters say so.
* **The pool** (`ConnectionPoolProofs`): no request meets an ended pool, the exit
  cuts nothing short, only failed lists leave statements behind, for any number
  of requests and connections, wherever connections fail or break. The invariant
  ties the stages of the shutdown to each other (`ShutdownInOrder`) and statements to
  the requests that run (`SentByRunning`). Of the queue: connections stay within the
  maximum; nobody is overtaken (`LatecomersWait`); and it never stands still
  (`QueueNeverStandsStill`). For that the invariant says that what is before a
  statement in the queue has been sent and is ordered as it is itself (`QueueInv`), so
  that a finite queue has a head, the one with the fewest before it
  (`QueuesHaveAHead`); if the head cannot have a connection somebody has one, and a
  transaction that has one sends nothing else to the queue.
* **The log** (`RequestLogProofs`): for any environments, traffic and redaction list
  that names the secrets of the contracts by their paths (`SecretsAreListed`, which
  the run evaluates for the list of this repository): a secret in a line only where
  redaction has no path, in a URL or in a text body (`LeaksArePathless`); payloads
  off in production unless switched on, lines of one request, nothing said is lost.
  The invariant says of what a hook keeps that it is its request's own and only kept
  if the configuration logs it, and of each line from which call it was made.
* **Hashing** (`PasswordHashingProofs`): every safety property of the run, for any
  number of processes, sign-ins and releases. The invariant says of a sign-in that
  hashes again what it found, under the policy of a process that is not replaced under
  it, and that a row whose version is the one loaded is the row that was loaded. With
  one policy everywhere, an upgrade is of a row that nobody has saved before
  (`OnePolicyUpgradesOnce`): what one sign-in upgrades, the next does not.
  `NoCheapRefusals` is about what a refusal has cost, and that is a verification or a
  throw of the library; who gets in had a verdict.

Three of the findings have a theorem each that says when the code does what its text
denies, for all instances: `OnlyRacesViolate`, `OnlyIdsGoUnreported` (of what fails its
contract nothing but the id is discarded in silence, and that wherever the transport
decides it) and `AccessLogIsExact` (one access line at the level of the status, missing
exactly for probes and for URLs with the mark of one). What the runs show by one
counterexample is so neither more nor less. `FormatDiverges` has no run: the format of
the log is the configured one exactly if `LOG_JSON` is `true` or a false value, so it is
not where the default of `env.schema.ts:12-13` decides.

What is assumed of the constants is named where they are declared. `RequestsAreFinite`
is needed for cycles of waits and for queues, `Malformed # Absent` (in
`NothingsAreApart`) to tell a header that is not there from one that does not parse.

The invariants `TypeOK` of all modules are proved and no run repeats them.

Only model-checked: liveness (`EveryUnitOfWorkEnds`, `EveryRequestIsAnswered`,
`SignalLeadsToExit`, `SignInsEnd`), which is out of the prover's reach under these
fairness conditions. What the first two need of the states is proved: at every moment
somebody can move (`SavesNeverStandStill`, `QueueNeverStandsStill`), and who waits in
the pool's queue is not overtaken (`LatecomersWait`).

## Read with care

What reading and modelling brought up and no property claims:

* A page and its total come from two snapshots (`drizzle-users.queries.ts:34`).
  While users register, a client that stops when it has `meta.total` items may
  miss some; one that reads until a short page does not.
* `ORDER BY` has one column (`:44`): rows of one millisecond may change places
  between two pages, and one be skipped. `WalkSeesEveryone` is about walks without
  such ties.
* `methodsOf` may return a list the user never had, an empty one even, while
  methods are replaced (`:90`). It does so only if the user changed meanwhile.
* A field with `echo` and without `propagate` is not echoed: the echo is looked up
  in the outbound headers (`context.module.ts:98`).
* The id in the store is what the transport calls the request, serialized
  (`context.module.ts:88`). With an id field that is not a string the store
  would not satisfy its own type; the instances have ids like this service's.
* `options.setup` runs after the bindings are published
  (`context.module.ts:110`).
* `_` and `%` in a search are wildcards (`drizzle-users.queries.ts:28`), though
  `list-users.ts:10` calls it a substring.
* The pool has no listener for errors, and nor has a connection that a transaction
  holds (`database.module.ts:76`): a database that restarts ends the process.
* A rejected dummy hash is kept for ever (`argon2-password-hasher.ts:60`): every later
  `verifyDummy` of the process fails.
* What the library throws on, `verify` refuses at once (`argon2-password-hasher.ts:31-33`),
  and `verifyDummy` swallows at once: such a refusal is faster than a wrong password.
* A secret in a URL is logged, as it came, parsed and in the message, and one in a
  `text/plain` body, too (`request-logging.ts:197-202`, `:212`): redaction has no path
  for them. No endpoint of this service asks for a secret in either.
* Replies of success are as their mappers make them (`http_serializer`), though
  `request-logging.ts:20` says that they are stripped to their contract.
* Two endpoints that document one code with two statuses: the one scanned last
  decides for both (`error.registry.ts:16`). No endpoint of this service does, and the
  instances and theorems are of catalogs where none does.
* A 5xx that an endpoint documents, on a path the access log ignores, would leave no
  line. Nobody documents one.
* A malformed `LOG_LEVEL` ends the process in pino (`config/logger.ts:28`), before the
  validation that would name every offending key (`README.md:177-178`).
* Without `LOG_JSON=true` the logger asks for `pino-pretty`, a development dependency:
  an image that has none does not start. Only `.github/workflows/ci.yml:65` sets it.
* Of an error that Nest logs with its stack, the message and the context are written
  and the stack is not (`logger.writer.ts:48`).
* "Registered user" is logged before the COMMIT (`register-user.handler.ts:62`).
* The health probe waits in the queue of the pool it reports on
  (`health.module.ts:22`): under load it says that the database is down.
* A link of an account that belongs to somebody else, and the loser of a race for
  an address, get the database's unique violation, a 500.

## Not modelled

* AsyncLocalStorage: that it keeps contexts apart is an assumption of
  `RequestContext`. What zod, pino, swagger and terminus do inside.
* The OpenAPI document and the schemas of `core/contracts/`: generated, or pure, and
  without state. The wording of messages, the generated migrations, build files and
  scripts.
* Times, except the order of `createdAt`. Transactions whose isolation is not READ
  COMMITTED: the code asks for no other.
* `options.setup` of the context and `toResponse` of an endpoint are code of their
  callers; a handler of `HttpContracts` may return any set of keys.
* That two declarations of one business error end the process while it is imported
  (`domain-error.ts:78`), which is one test of a set.

## Plan

In the order of what matters to users of the service; the first nine are done.

1. The aggregate, its promise and the write path, with the refinement and its proof.
2. The request context, over several services.
3. HTTP contracts, from the scan to the reply.
4. The read path, over the promise of 1.
5. The pool and the shutdown.
6. The log, from the boot to the access lines, and its redaction.
7. The pool under a database that refuses and breaks connections.
8. Password hashing and the sign-in it is for.
9. That the queue of the pool is granted in order and never stands still, as theorems.
10. The write path over the pool, so that a registration's failure to get a connection
    and its unit of work are one model.
11. A sign-in as a unit of work of the write path, once the service has one.
