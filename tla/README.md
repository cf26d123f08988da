# A verification project for @nestarc/tenancy

TLA+ models, TLC runs and TLAPS proofs about the multi-tenancy library in `src/`
(NestJS, Prisma, PostgreSQL row-level security). Paths below are relative to the
repository root; its TypeScript sources are in `src/src/` as `PROJECT.json` names them,
and `src/` here for short.

- [Inventory of the system](#inventory)
- [The modules](#the-modules)
- [What is checked](#what-is-checked)
- [What is proved](#what-is-proved)
- [Disagreements between code and documentation](#disagreements-between-code-and-documentation)
- [What is not modelled](#what-is-not-modelled)
- [Plan](#plan)

## Inventory

A tenant id enters with a request or a message, is kept in an `AsyncLocalStorage`
store while the work runs, and is read wherever data is touched: by the Prisma
extension, which sends it to PostgreSQL as a custom setting, by the propagators that
put it into outgoing messages, and by the cache and key helpers. PostgreSQL's
policies compare a tenant column with that setting. A command-line tool generates the
policies and audits a database for them.

| Part | State it keeps | Operations | Interacts with |
|---|---|---|---|
| Context store, `services/` | per asynchronous chain: a stack of `{tenantId, bypassed}` frames | `run`, `runWithoutTenant`, `runInEmptyTenancyContext`, `getTenantId`, `isBypassed` | everything below |
| Prisma extension, `prisma/prisma-tenancy.extension.ts` | none of its own; a connection's setting and transaction | `$allOperations` on every model operation | store, connection pool, PostgreSQL |
| Explicit transactions, `prisma/tenancy-transaction.ts` | one interactive transaction | `tenancyTransaction` | the same |
| Extractors, `extractors/` | none | `extract` of header, JWT claim, path, sub-domain, composite | the request |
| HTTP entry, `middleware/`, `guards/`, `telemetry/`, `events/` | per request: extracted id, cross-check id, span, events | `use`, `canActivate` | application callbacks, store, `next()` |
| RPC propagation, `propagation/` | per delivery: Observable, subscription | `inject`, `intercept`, unsubscription | transport, store, diagnostics |
| Diagnostics, `diagnostics/` | policy | `report`, `reportInvalid` | events, telemetry |
| Cache and keys, `cache/`, `resources/` | none (keys into a shared cache) | `trackBy`, `create`, `search` | store |
| Doctor, `cli/doctor*.ts` | worker pool, abort controller, one client per table, its transaction and setting while it probes | `runDoctorBatch`, `runDoctor`, audit, probes | PostgreSQL, signals, a deadline |
| Command line, `cli/index.ts`, `cli/doctor-contract.ts` | arguments, what is on standard output, the exit code | `runCliMain`, `parseDoctorArgs`, `validateDoctorOptions` | doctor, check, init |
| Generators, `cli/init.ts`, `cli/templates/` | files | `init`, `generateSetupSql` | PostgreSQL, by hand |
| Static check, `cli/check.ts`, `cli/prisma-schema-parser.ts` | none | `check` | files |

What is hard about it, by part, and what must hold:

- **Extension and transactions.** Concurrent operations of several tenants share
  connections. The setting must be in the same transaction as the statement, must end
  with it, and must be that of the context the operation was called in. A connection
  returned to the pool must carry nothing. Operations must settle although a callback
  may hold the connection another operation waits for.
- **HTTP entry.** The middleware awaits up to four application callbacks, each of
  which may throw; `next()` starts a chain that runs concurrently with the rest of it.
  A handler must run for the tenant its own request named, was validated for and
  cross-checked for, whatever context the request found around it. A composite asks its
  sources one after the other, some of them asynchronously; the first that names a
  tenant decides.
- **RPC.** An Observable is subscribed, retried and unsubscribed from unrelated
  contexts. Handler and teardown must run for the message's tenant, and a late
  validator must not start a handler.
- **Cache and keys.** Tenants share one store; ids, prefixes, separators and base keys run
  together in a key, the base key may resolve later and from another chain, and the
  store fails and forgets. Nobody may be served what was made for another tenant.
- **Doctor.** Workers share a counter across awaits; caller and deadline race; an abort
  arrives while a call is pending. Every table must be audited once, with its client
  ended, and an interrupted audit must never pass. Five probe transactions share one
  connection and set a tenant on it: none may leave it behind, whatever is refused,
  lost or aborted, and passing them must mean something.
- **Command line.** Arguments, manifest, options, connection, audit and probes can each
  fail. Every path must end with one result in the asked format, and the exit code 0
  must mean that what was asked for was done and found in order.

The list of hazards, each at its line, is in `PROJECT.json`. Two that no model covers:
`inject()` of the Kafka propagator passes a carrier through with whatever tenant it
holds where there is no context (`kafka-tenant-propagator.ts:64`), which the policies
'ignore' and 'warn' document; and a Prisma query returned unawaited from the callback of
`withTenant` may run after its context (`testing/with-tenant.ts:32`), which depends on
Prisma's lazy promises and on the callback's own `async` keyword.

## The modules

| Module | Models | Composed from |
|---|---|---|
| `TenancyContext` | the store: the stack of frames of one chain and the operations on it | |
| `RlsDatabase` | a pooled PostgreSQL connection, `set_config`, rows, row-level security (external) | `TenancyContext` |
| `TenantIsolation` | abstract: one store of rows per tenant, and what an operation may be answered | `TenancyContext` |
| `PrismaTenancy` | extension, `tenancyTransaction`, `withoutTenant` over a pool of connections | `RlsDatabase` |
| `PrismaTenancyProofs` | its theorems | `PrismaTenancy`, TLAPS |
| `TenantAdmission` | abstract: a unit of work (a request, an attempt at a delivery) is refused, or admitted once for the tenant it claimed | `TenancyContext` |
| `TenantExtractors` | what each extractor makes of a request | `TenancyContext` |
| `TenantPipeline` | composite extraction, middleware, span, events, guard, handler of concurrent requests | `TenantExtractors` |
| `TenantPipelineProofs` | its theorems | `TenantPipeline`, TLAPS |
| `TenantRpc` | producer, at-least-once transport, interceptor | `TenancyContext` |
| `TenantRpcProofs` | its theorems | `TenantRpc`, TLAPS |
| `TenantResources` | chains of several tenants on one cache: the cache interceptor, resource keys, searches, diagnostics | `TenancyContext` |
| `TenantResourcesProofs` | its theorems, and those about the keys alone | `TenantResources`, TLAPS |
| `DoctorBatch` | worker pool, abort, one client per table | |
| `DoctorBatchProofs` | its theorems | `DoctorBatch`, TLAPS |
| `TenancyCatalog` | role, flags, grants and policies of one table; the generated script's effect on them; row-level security by permissive and restrictive policies (external) | |
| `DoctorChecks` | every check the audit makes of a catalog, by the statement that reads it | `TenancyCatalog` |
| `DoctorAudit` | the audit statement by statement, the script, an administrator | `DoctorChecks` |
| `DoctorAuditProofs` | its theorems, and what a catalog that passes the checks is worth | `DoctorAudit`, TLAPS |
| `DoctorProbe` | one table's audit with its five probes on a connection that other sessions write beside | `DoctorChecks` |
| `DoctorCommand` | the command line: arguments, manifest, options, result, exit code | `DoctorProbe` |
| `DoctorCommandProofs` | its theorems and those of the probes | `DoctorCommand`, an instance of `DoctorAuditProofs`, TLAPS |
| `TenancyScript` | the lines of `tenancy-setup.sql`, the generator, and what a fail-fast client does to the catalogs of several tables with them, in or out of a transaction | `TenancyCatalog` |
| `StaticCheck` | `tenancy check` on files that are generated, edited and applied while the schema migrates; `init` | `TenancyScript` |
| `StaticCheckProofs` | its theorems | `StaticCheck`, TLAPS |
| `MC*` | instances for TLC | their module |

`TenancyContext` has no variables: Node.js gives every asynchronous chain its own
stack, so each composing module keeps one stack per task, request or delivery and
applies `Run`, `RunWithoutTenant`, `RunInEmpty` and `Exit` to it. It also has no
notion of a chain forgetting its stack (a callback queued by code that does not
preserve asynchronous context).

**PrismaTenancy.** `frames[k]` is a task's stack, `op[k]` the operation it awaits
(`mode`: directly, in a batch, in an interactive transaction, or a
`tenancyTransaction`; `phase`: what it waits for; `scope`: the tenant read when it was
called), `db[c]` a connection, `rows` the committed table, `answer[k]` the owners of
the rows a task was last given. `AllOperations` is `$allOperations` up to its first
await; `BatchBegin`, `SetScope`, `ScopedQuery`, `BatchCommit` are the four statements
of the array transaction, any of which another task may come between; `Rollback` and
`GiveUp` are the failures. A transaction client that `tenancyTransaction` hands out
runs no hook of the extension, hence `TenancyTxQuery`. Rows are reduced to the tenant
that owns them and statements to the tenant columns they name. Row locks are kept as
`Unlocked`: a statement waits for another transaction's uncommitted write of its row.

**TenantExtractors and TenantPipeline.** A request is a record of what the five sources
read of it: a header's values, the parts and claims of a token, the segments of a path,
the labels of a host name, and what an application's own asynchronous extractor will
answer. `request[r]` is kept only while extraction runs, `source[r]` the source it has
come to; `Extract` runs synchronous sources in one step and stops where a Promise has to
be awaited. Case and escapes are functions from a text to what it becomes (`LowerCase`,
`Decoded`); a token's time window is read at one instant. `at[r]` is the place in
`handleRequest`, `down[r]` the chain that `next()` started, `seen[r]` the context it got,
`log[r]` its events. The application's callbacks return or throw nondeterministically.

**TenantRpc.** `sent[m]` is what a producer published (with the tenant it published
in, its author, and the tenant the carrier holds), `at[d]` where a delivery is,
`work[d][n]` and `torn[d][n]` the contexts in which attempt `n` ran its handler and
its teardown. A message's transport is one the options name, or is detected. Every
attempt is a unit of work of `TenantAdmission`: those at one delivery make one claim when
it comes in, and are then refused or admitted one by one, a retry by what the validator
says at that retry.

**DoctorBatch.** One action is what a worker does between two awaits: `Advance` is the
loop of `worker` with everything it does synchronously, including all tables it skips
after an abort. `Audit` lists the statements of `auditDoctorDatabase` with the abort
checks and early ends between them. The probes are `DoctorProbe`'s.

**TenantResources.** `stack[c]` is the context of a chain, `job[c]` what it does (a cached
route, a resource key, a search), `key[c]` its key, `store` the entries of the cache and
of Redis. Keys are sequences of characters, so that what separates an id from a base key
is judged and not assumed: ids and base keys of the run read as each other's when they
are put together. `Compute` lets the store drop entries and refuse one; `Get` may fail.
With `hashTenantId` the id is replaced by `Sha256`, of which `IdConstants` assumes 64
hexadecimal characters and no collision among the tenants there are.

Prefixes and separators are options, and any text will do for them, as in the code.
`OptionConstants` states their types only. When keys of the store are then told
apart is a definition of the model and a hypothesis of the theorems, not an
assumption:

- `LengthEnds`: the separator of `TenantResourceKey` has a character that is no digit.
  Otherwise a length cannot be told from what follows, and two tenants' keys can
  coincide: with the empty separator the tenant `0` and its key `1000000000x` make the
  same key as the tenant `1000000000` and its key `x`, which `resource_separators` finds.
- `Unambiguous`: the length ends, if there are resource keys; and two kinds of keys that
  share the store (`Used`) begin differently (`Apart`), or, for routes and resource keys,
  are read in one way (`OneForm`: one prefix, `:` in the resource keys, `:` or nothing in
  the routes). The defaults, `tenant`, `shared`, `:` and `:`, satisfy it.

**DoctorAudit.** `catalog` is the database now. The audit's eight statements each see
the catalog as it is when they run (`Read`); what they find is kept as the checks keep
it, in `failed`. `Setup` is the generated script, one transaction: it sets flags and
grants, and creates a policy only where there is none of that name. `Alter` is an
administrator who changes one flag, grant, column property or policy. `altered`,
`rerun` and `matched` are history variables for the properties. Policy expressions are
the generated tenant predicate, the generated guard, or anything else, which counts as
`true`, the worst case. The script is taken to be generated from a schema in step with
the database: for another column type its `CREATE POLICY` fails and it rolls back.
`Isolates` judges a catalog by what PostgreSQL then lets the role do, row by row.

**DoctorProbe.** `setting` is the session's value of the custom setting and `local` what
the transaction has set; `EndTx` says which survives a COMMIT or a ROLLBACK, and that a
setting once set locally is afterwards empty, not unset. `at` is the place in
`withReadOnlyTransaction`, `probe` which of the five it runs, `checks` their statuses.
`Refused`, `Break`, `Abort` and `Write` may come between any two statements: PostgreSQL
refuses one, the connection breaks, the batch is aborted, another session changes the
rows. The catalog is audited in one step and does not change; `DoctorAudit` is about
that.

**DoctorCommand.** `typed` and `values` are the arguments by their meaning to
`parseDoctorArgs`, `stdout` and `stderr` count what is printed, `exit` is
`process.exitCode`. `DoctorTable` and `DoctorManifest` start one table's audit and
`DoctorDone` reports it; of a manifest any one table is followed and the others, which
share nothing with it but the abort, may end in any way. `init` and `check` end in any
way they can.

**TenancyScript and StaticCheck.** A file is a sequence of lines, each one statement or
one comment that means something; a guarded policy is one line with its name, its
policy and the cast of its predicate. `Section`, `MarkersCanonical`,
`EnvelopeCanonical`, `OnlySupported`, `TargetsExpected`, `Complete` and
`OnlyKnownPolicies` are the rules of `runCheck` in its order, `InSync` their
conjunction. SQL text that the check's patterns do not match is one of a few lines of
another sort: one that takes protection away, a `DO` block that hides one, a statement
the generator never emits (which gives the role `BYPASSRLS`, as a worst case), one that
reads another setting, a quote or comment that is never closed and swallows the rest. A
table name without its schema is not among the lines: in a section no pattern of a
supported statement matches one, so it is a statement of another sort. The database is
one catalog per table; `Course` is a session after each of its lines, `RunScript` what
is left when it is closed and what a failure left uncommitted is rolled back, which is
compared with `TenancyCatalog!AfterSetup`. The models are finitely many (`ForEach` puts
their lines in a row), and there is a policy name that the generator does not use.

## What is checked

| Run | Bounds | Shows |
|---|---|---|
| `prisma_isolation` | 2 tasks, 2 connections, 2 tenants, 1 row, nesting 1 above contexts that are already nested, batch mode and both kinds of interactive transaction | the inductive invariant `IInv`, `NoResidualTenant`, `FailsClosed`, and the refinement of `TenantIsolation` |
| `prisma_live` | 2 tasks, 1 connection, creates and upserts, explicit transactions, no policies | `CallsSettle`, though a callback may wait for the connection its own transaction holds; `autoInjectTenantId` alone keeps what creates and upserts write with its owner |
| `prisma_bypass_itx` | an interactive transaction used under several contexts | a violation, see below |
| `http` | 2 requests, one of them with any of some 50 ways to name a tenant, through a composite of five sources; ambient context none, a tenant's or a bypass; no cross-check, or one that rejects or logs, required or not | the first source that names a tenant decides, handlers run in the right context, refines `TenantAdmission`, spans end, `next()` and rejection exclude each other, the events tell one story, every request is answered or left to the hook |
| `rpc_validated` | 1 message delivered twice, 2 attempts each, with a validator; transport detected, or named with the policy `throw` | handlers and teardowns run for the message's tenant, no late work, every attempt refines `TenantAdmission`; with the transport named no handler runs without a tenant |
| `rpc_undetected` | 1 message, transport detected, policy `throw` | a violation, see below |
| `batch_abort` | 3 tables, 2 workers, abort and deadline at any moment | one result and one client life per table, one code, nothing passes unaudited, and the batch resolves |
| `tenant_resources` | 2 chains, renewed for ever, 2 tenants, 9 sorts of work, 9 configurations, other prefixes and a separator `1:` among them, 1 entry | every answer was made for the tenant of its chain, or for everyone |
| `resource_separators` | 2 chains, 2 tenants, an empty separator | a violation, see below |
| `doctor_command` | every command line and manifest that differs from a right one in two flags or one property; 12 databases, 3 sets of rows, 4 ids of 2 tenants | probes are rolled back before a result returns and leave no tenant behind; passing them means isolation; one result on every path; exit code 0 means isolated and, where asked for, probed; no probe without `--active`; and the command ends |
| `audit_drift` | 2 changes, 4 policy names, every one-part change of a generated policy under every name | a healthy verdict is sound although the statements share no snapshot, and describes a catalog there was; running the script never opens a table, and leaves one that is found healthy |
| `static_check` | 2 models in 2 schemas, 2 edits or migrations, 16 lines to insert in 4 places, any line to delete, generated or markerless file | what the check accepts isolates every model that is not shared, is all-or-nothing in a marked section, on a database that misses a table too, and is in sync with one schema only; what `init` writes is in sync and does what `AfterSetup` says |

**Why the bounds are enough.** The isolation properties relate at most two tasks (one
holds or leaves a connection, another gets it), two tenants and one row; a third task
or connection adds no new relation, and the proofs below remove these bounds. A second
connection makes concurrent transactions and row locks possible; a single one makes
the pool run out. `prisma_live` needs no policies, since a statement can be refused without
them too (a row that exists), and no second connection for injection, which
`InjectionHolds` proves for any number. Requests share nothing but the process, so two show every
interleaving there is; a delivery shares its message with the other delivery of it.
One request holds everything an extractor may find and the other what matters afterwards,
since extraction reads nothing that requests share. Two chains and one entry are enough to
serve one what the other stored, and for an entry to be dropped and made again.
With three tables and two workers one worker finds the list exhausted while the other
still works, and an abort can fall before, between and after tables. Two changes are
the fewest that let an audit pass over a catalog that never existed (allowing them in
`VerdictOfSomeCatalog` is a violation in 12 steps), and the drifted policies cover each
clause an audit compares. An edited file differs from a generated one in two lines: one
to break a rule and one to cover it up, as in adding a shared-model marker and removing
a policy, or opening a second section; the lines to insert hold one of every sort the
check tells apart. A model that is scoped beside one that is scoped, shared or missing
shows every interference between two models, two schemas that of schema grants. A
command line differs from a right one in two flags: one that is wrong and `--json`, or
two that contradict each other. The databases of `doctor_command` hold one for each
reason not to probe, and for each way a probe can go wrong.

**Fairness.** `PrismaTenancy!FairSpec`: PostgreSQL and Prisma carry out accepted
statements (WF), the pool serves its waiters in turn (SF on getting a connection), a
refused statement rolls back, and an interactive transaction is ended by its timeout (WF
`TxTimeout`; Prisma's default is five seconds). The application is under no obligation to
commit or leave a context, and the timeout of a wait for a connection is not assumed:
`GiveUp` may always happen and never has to. `TenantPipeline!FairSpec`: each request's
chain runs on (the event loop), and the application's callbacks settle.
`DoctorBatch!FairSpec`: `pg` settles every call, since the connection attempt and each
statement have a ten-second limit (`doctor-runner.ts`, `connectionTimeoutMillis`,
`statement_timeout`); the caller need not abort and the deadline need not fire.
`DoctorCommand!FairSpec` assumes the same of the audit (WF `AuditStep`) and that the
command line runs on (WF `CliStep`); a statement may fail each time, and the connection
may break.

`CHECK_DEADLOCK FALSE` is set where the system really stops: requests and deliveries end,
a batch resolves, a command exits, and a file may be missing while no valid schema is
left.

A component whose `TypeOK` no run lists keeps the definition: it is what a proof about the
component starts from, and the runs spend their properties on what could be wrong.

Every property has a mutant in `PROJECT.json`: a definition of the model replaced by a
plausible bug, kept next to it under "Seeded fault".

## What is proved

TLC checks small instances; TLAPS proves the theorems below for every value of the
constants that satisfies the assumptions named with them. Each component has one
inductive invariant, made of named parts, and one lemma per action that says it is kept;
the theorems about single properties then take a few lines. Type correctness is one
of the parts everywhere. Only where a theorem says so does it assume anything of the
configuration; the other assumptions on constants are facts of the code (what an
option's type admits, that no tenant is called like the absence of one) or of Node.js,
PostgreSQL and SHA-256.

### The extension

`PrismaTenancyProofs`, for every number of tasks, connections, tenants and rows, every set of
statements and every nesting depth:

| Theorem | Statement | Assumes |
|---|---|---|
| `BaseHolds` | `Spec => []Base` | |
| `TypeCorrect` | `Spec => []TypeOK` | |
| `TenantStaysInTransaction` | `Spec => [](NoResidualTenant /\ ScopeHeld)` | |
| `FailClosedHolds` | `Spec => []FailsClosed` | |
| `InvariantHolds` | `Spec => []IInv` | `RlsEnforced`, `~ MixedItx` |
| `IsolationRefined` | `Spec => TenantsIsolated`, the refinement of `TenantIsolation` | `RlsEnforced`, `~ MixedItx` |
| `InjectionHolds` | `Spec => []InjectedWritesStayOwn` | `AutoInject`, no statement is an update |

`RlsEnforced` says that the table has the generated policies and the role is subject to
them, `~ MixedItx` that one interactive transaction is used under one context. Both are
necessary where they are assumed: `prisma_live` runs without the first and only
claims what auto-injection can give, `prisma_bypass_itx` shows what happens without the
second. `InjectionHolds` needs no policy. An update is not injected: without a
policy it reaches any row and may set its tenant column to anything.

*The argument.* `NoResidualTenant` is not inductive: to know that a committing connection
is left clean one must know whose it is. `Base` adds `OperationsAttached` (an operation
that is past its begin holds the connection it names, and that connection says so: mode,
owner and tenant), from which the lemma `Holder` derives that nobody else waits on it,
and `OneWriter` (no two transactions have written the same row, which is where row locks
enter). It holds with or without policies, and however transactions are mixed.
`Owned` is what the policies add: `ItxScoped` (an interactive transaction carries the
tenant of its owner's context, or none), `PendingOwned` (an uncommitted row is new or
already belonged to the tenant that writes it) and `AnswersIsolated`. `IInv` is both.
`StatementUnderRls` is the lemma about the policies: a statement on a connection whose
setting is `t` returns and writes rows of `t` only. For the refinement, `CommittedRows`
and `StepEffect` reduce every step to what it does to `rows` and `answer`, which maps to
a step of `TenantIsolation` or to a stutter. `FailsClosed` needs its own small induction
(`CallShape`, `StepShape`), because a direct operation is judged in the context its task
is still in. For `InjectionHolds`, `Injected` remembers that the statement of a batch
carries the tenant its transaction was opened for; `Base` says that the setting is
still that tenant's and nobody else writes the row (`ScopedQueryStaysOwn`).

### The HTTP entry

`TenantPipelineProofs`, for every number of requests, whatever they hold, any list of
extractors, any ambient contexts and cross-checks:

| Theorem | Statement |
|---|---|
| `InvariantHolds`, `TypeCorrect` | `Spec => []IInv`, `Spec => []TypeOK` |
| `HandlersInContext` | `Spec => []HandlerContext` |
| `CrossChecksHonoured` | `Spec => []CrossCheckHonoured` |
| `NoSpanLeftOpen` | `Spec => []SpansClosed` |
| `EventsConsistent` | `Spec => []EventStory` |
| `FirstExtractorWins` | `Spec => FirstSourceWins` |
| `AdmissionImplemented` | `Spec => AdmissionRefined`, the refinement of `TenantAdmission` |

*The argument.* Requests do not touch each other's variables (`OneRequest`), so the
invariant is one of a single request, by how far it has come: `Searched` (no extractor
before the one that is asked has named a tenant), `Chosen` (where the id is there, and
where it is valid), `Scoped` (the chain left the context it was called in, and what
`next()` starts has the one of its tenant), `Compared` (what enters a context has passed
the cross-check), `Spanned`, `Told` and `Story` (what has been emitted at each place,
and in which order). `HandlerContext` alone is not inductive: the handler runs long
after the context was chosen, and the guard reads it in between. For the
refinement every step of a request claims, refuses, admits or is not seen
(`StepRefined`). `PipelineConstants` and `ExtractorConstants` state the types of options,
that there is an extractor, and that an extractor answers with a string or null.

### RPC

`TenantRpcProofs`, for every number of messages, deliveries and attempts:

| Theorem | Statement |
|---|---|
| `InvariantHolds`, `TypeCorrect` | `Spec => []IInv`, `Spec => []TypeOK` |
| `HandlersWorkForAuthors` | `Spec => []WorksForAuthor` |
| `HandlersWorkForClaims` | `Spec => []WorksForClaim` |
| `TeardownsInContext` | `Spec => []TornDownInContext` |
| `MissingRefused` | `Spec => []MissingFailsClosed`, if consumers with the policy `throw` name their transport |
| `NoWorkAfterEnd` | `Spec => NoLateWork` |
| `AdmissionImplemented` | `Spec => AdmissionRefined`, the refinement of `TenantAdmission` |

*The argument.* `Authored` (what was published in a tenant's context carries that tenant),
`Received` (a delivery has a message that was published), `Attempted` (attempts are made
in order, a handler runs once in each, and is torn down unless it still runs),
`InClaimed` (handlers and teardowns run for the tenant of their message, which the
validator has accepted) and `Identified` (with the policy `throw` and a named transport,
what passed the interceptor has a tenant). `MissingFailsClosed` without the hypothesis is
what `rpc_undetected` refutes.

### Cache and keys

`TenantResourcesProofs`, for every number of chains, tenants, jobs and entries, and for
ids and keys of any characters:

| Theorem | Statement |
|---|---|
| `InvariantHolds` | `Spec => []IInv` |
| `TenantsServedOwn` | `Spec => [](Unambiguous(options) => ServedOwn)` |
| `KeysCollisionSafe` | `Spec => [](LengthEnds(options) => CollisionSafe)` |

*The argument.* `Chain` (a chain's key is the one of its job and its tenant) and `Entries`
(an entry of the store is what was computed for its key) are easy to keep, whatever the
options; that they are enough rests on the lemma `KeyTellsValue`: with `Unambiguous`
options a key stands for one tenant and one base key. Resource keys carry the length of
the id in front of it, and the separator's first character that is no digit shows
where the length ends (`DigitsEnd`, `ResourcesTell`). Keys of routes carry a digest of
known length, or the length of the id and the id (`RoutesTell`). Where two sorts share a
store, what they begin with tells them apart (`KindsTell`) or, for routes and resource
keys, they are read in one way (`OneFormTells`). `KeysCollisionSafe` is what the class promises of its
keys, under the one condition that it needs; without it, `resource_separators` refutes the
promise. Concatenation is kept folded, as `Cat`, and only its cancellation laws are used.
Assumed are `IdConstants` and `JobConstants` and the types of options.
The model writes the length of an id in at most two digits; what it says of
lengths is that they consist of digits and differ where the lengths do.

### The batch

`DoctorBatchProofs`, for every number of tables from 1 and every concurrency from 1 to 16, which
is what the manifest admits:

| Theorem | Statement |
|---|---|
| `InvariantHolds`, `TypeCorrect` | `Spec => []IInv`, `Spec => []TypeOK` |
| `OneCodeReported` | `Spec => []OneCode` |
| `CleanedUp` | `Spec => []CleanupCompleted` |
| `HealthyAudited` | `Spec => []HealthyMeansAudited` |
| `TablesAuditedOnce` | `Spec => EachTableOnce` |

*The argument.* `Taken` (no two busy workers have the same table, and the counter is past
it), `Filled` (a table without a result is with a worker or not yet taken), `Exhausted`
(a worker stops only when no table is left, and each that stops moves the counter once
more, which bounds it), `Clients` (an open client is one that its worker uses),
`Interrupted` (the code follows the signal, and nobody was given another),
`Audited` (who passes has had every statement answered) and `Resolved`. The hard step
is `Advance`, in which a worker stores its result, takes the next table or, after an
abort, fills all that are left; `StopEffect` and `TakeEffect` say what it does as a
whole. That no more clients are open than there are workers is an injection from open
clients to workers.

### The audit

`DoctorAuditProofs`, for every set of tenants, of further policy names and of drifted policies,
and any number of changes:

| Theorem | Statement |
|---|---|
| `HealthyIsolates` | a catalog on which every check passes isolates the tenants |
| `AuditTypes` | `Spec => []TypeOK` |
| `VerdictIsSound` | `Spec => []VerdictSound` |
| `VerdictHasACatalog` | `Spec => []VerdictOfSomeCatalog` |
| `SetupIsHealthy` | `Spec => SetupMakesHealthy` |
| `SetupKeepsIsolation` | `Spec => SetupNeverWeakens` |

*The argument.* `AuditedPolicies`: where the policy checks pass, the guard applies to
every command and only the two generated permissive policies can admit a row; hence
`PassesOwnTenant`, command by command. A verdict is only as good as the moments it was
read at: `IInv` says that, until an administrator interferes, each check that has
passed would pass now. It is inductive because the script never undoes what a check
asks for (`SetupKeepsPasses`).

`VerdictHasACatalog` needs another invariant, `SInv`, with the history the property
leaves out: after one change at statement `m` there was a catalog `old` which differs from
the present one in one field (`OneChange`), the statements before `m` passed on `old` and
those since on the present one. Each field but the role is read by a single statement,
before the change or after it, so that one of the two catalogs passes everything
(`OneChangeFound`); a change of the role is a case of its own (`RoleChanged`).

`SetupKeepsIsolation` goes through
`OwnRow`: a table is isolated if every row that the policies pass is the tenant's own;
what passes the policies after the script is such a row, or passed them before
(`PassKept`), as long as the guard is unchanged or still to be created, or no policy is.

### The probes and the command line

`DoctorCommandProofs`, for any command lines and manifests, catalogs, tenants and rows,
wherever a statement fails, the connection breaks or the batch is aborted:

| Theorem | Statement |
|---|---|
| `InvariantHolds` | `Spec => []IInv` |
| `ProbesRolledBack` | `Spec => []RolledBackFirst` |
| `ProbesAsked` | `Spec => []ProbesOnlyWhenAsked` |
| `PassesIsolate` | `Spec => []PassMeansIsolated` |
| `OneResultPrinted` | `Spec => []OneResult` |
| `ExitZeroIsolates` | `Spec => []ExitZeroMeansIsolated` |

*The argument.* `Asked` (what was typed decides about probes, and leads to two ids that
differ), `Session` (a transaction is open only within a probe, and between two of them
the setting is the one the session came with), `Progress` (checks come in order, and a
healthy result has them all), `Evidence` (what a passed check says of rows that nobody
has written since) and `Printed` (nothing before the exit code is set, one result with
it). That exit code 0 means isolation combines `Progress` with `HealthyIsolates`, which
an `INSTANCE` of `DoctorAuditProofs` brings in; `AuditedIsolates` shows that its
catalogs and checks are the ones used here.
`CommandConstants` and `ProbeConstants` state the shapes of arguments, manifests,
databases and rows.

### The script and the static check

`StaticCheckProofs`, for every finite set of models in any schemas, any further policy
names, any lines that an edit may insert, and any number of edits and migrations:

| Theorem | Statement |
|---|---|
| `ScriptInvariant` | `Spec => []ScriptInv` |
| `AcceptedScriptsIsolate` | `Spec => []SyncIsolates` |
| `SectionsAreAllOrNothing` | `Spec => []AllOrNothing` |
| `GeneratedIsInSync` | `Spec => []GeneratedInSync` |
| `GeneratedScriptSetsUp` | `Spec => []ScriptSetsUp` |
| `DriftIsFound` | `Spec => []DriftFound` |

*The argument.* `ScriptInv` has the types, that a table's column is the one its model
says whatever was applied to it, and that a file left as it was generated is what
`Generate` makes of the schema as it is. The rest is about scripts, and a statement
about a script is proved by induction over its lines. The library's induction theorems
take a predicate, which these provers cannot instantiate; `UpTo` takes the set of
the places where it holds instead, and `Recursion` says likewise that a function
may be defined line by line. `CourseSteps` is what they give for a session. What the
generator writes is in an order nobody knows (`SetToSeq`); `ForEachLines` says which lines
are in it and that each is there once, from which `SectionLines` describes a generated
section by place and content.

- *Isolation*: `RanOver` says of the database after `i` lines that every policy on it is
  one of those lines, and that every policy among them is there under its name. Where the
  check accepts the script, the table is then `Guarded`: it has the context guard, and
  only the generated policies permit anything.
- *All or nothing*: `Enveloped` says where a session can go back to before the `BEGIN`,
  inside, and after the `COMMIT` of a canonical envelope.
- *In sync*: rule by rule, from the lines the section has (`SectionHas`) and the policies
  among them (`SectionPolicies`, each once).
- *Setting up*: `Progress` says, field by field, what the first `i` lines have done to a
  table; no line can fail there (`Runs`), and after all of them it is `AfterSetup`.
- *Drift*: a script is in sync with at most one schema (`InSyncWithOne`), because every
  model has its lines and the type of its predicates, and nothing else has.

### What is only model-checked

Liveness, which rests on fairness and on when actions are enabled: `CallsSettle`,
`RequestsSettle`, `BatchResolves`, `CommandEnds`. Every other property that a run finds
to hold is a theorem, under the hypotheses named with it.

The proofs corrected the models in two places. Two of the `CASE` expressions of
`RlsDatabase!Written` and `PrismaTenancy!Inject` had guards that overlapped, for which
TLC takes the first and TLA+ says nothing; they are now disjoint. And `SyncIsolates` had
no proof for a markerless file: there the check accepts a restrictive policy of the
file's own under the name that the context guard has too, and where that one comes first
the guarded `CREATE POLICY` of the guard does nothing. The lines that the run inserts do
not bring this about. `NamesUnique` now excludes it; a marked section needs no such
hypothesis, since there the check admits the generated policies only.

## Disagreements between code and documentation

- `prisma_bypass_itx`. `README.md:494-500` promises that an operation in
  `withoutTenant()` returns no rows under row-level security. Called on the client of an
  interactive transaction in which a scoped operation already ran, it passes straight to
  `query(args)` (`prisma-tenancy.extension.ts:148-150`) and finds the earlier tenant's
  setting still in force.
- `rpc_undetected`. `README.md:1047` offers the policy `throw` "to fail closed". With
  the transport left to detection a Bull job that lacks its tenant key is not
  recognised as a Bull job (`tenant-context.interceptor.ts:253-272`), so nothing is
  reported and the handler runs without a tenant. `rpc_validated` shows that naming the
  transport, which `README.md:1027` recommends, closes the gap.

- `resource_separators`. `tenant-resource-key.ts:17` and `README.md:1074` call the keys of
  `TenantResourceKey` collision-safe. Its constructor takes any separator
  (`tenant-resource-key.ts:27`), the empty one too, with which two tenants' keys can
  coincide. With a separator that has a character other than a digit, such as the default,
  the promise is a theorem (`KeysCollisionSafe`).

## What is not modelled

- Parsing of text: base64 and JSON of a token, the public suffix list, carrier formats,
  the doctor's policy tokenizer, the Prisma schema parser, the scanner and patterns of
  the static check. The models take their outcomes.
- That two spellings of one UUID are one tenant: `--tenant-a` and `--tenant-b` are compared
  as texts (`doctor-contract.ts`), and the model does so too. The probes then pass on
  one tenant, which `PassMeansIsolated` allows for and `RowSets` exhibits.
- A route and a resource key of the same tenant whose texts agree share an entry of a
  common store. Base keys are the application's, and it is the same tenant.
- What observers do: log lines, metrics, the content of events. Event order is modelled.
- PostgreSQL beyond what the policies touch: isolation levels above a row lock, cascades,
  triggers, functions that bypass policies. `update` and `delete` by a filter are
  the single-row `update`.
- Raw queries and clients without the extension, which the package does not see.
- What an application keeps in `tenancy-setup.sql` outside the markers, which the check
  ignores by design (`test/cli/check.spec.ts:649`), and two things of a markerless file:
  statements that the check does not know, and two policies of one name on a table.
  `SyncIsolates` excludes both.
- A role whose name is `Public`: `hasExactPublicRole` compares in upper case
  (`doctor-catalog.ts:758`) and would take it for `PUBLIC`. The model has the role of the
  application, another one and `PUBLIC`.
- A scoped call between another tenant's `set_config` and its statement in one interactive
  transaction (`prisma-tenancy.extension.ts:186`): `MixedItx = FALSE` leaves it out, since
  the extension cannot prevent it and nobody promises it.
- A shared-model comment that somebody adds to a file by hand (`check.ts:558`): it is how
  a model is declared shared, and nothing is expected of such a model.
- Of `init` its refusals: the checks of the answers, of one logical field for
  `autoInjectTenantId` and of the regular expression, and the question before a file is
  overwritten (`init.ts:140-232`). What it writes when it does is modelled.
- The generators' prompts and options, generated names and their hashes, the module template.
- The HTTP propagator, `extract()` called by hand, and the test helpers
  (`withTenant` is `Run` around a callback).
- Module wiring, decorators, types, scripts, benchmarks, fixtures.

## Plan

1. *Done*: the store, the extension and transactions with their proofs, the HTTP and RPC
   entry points, the doctor's batch.
2. *Done*: the catalog, the script and the audit, with their proofs.
3. *Done*: the script by its statements, `init` and the static check.
4. *Done*: the probes' transactions and the command line around the doctor.
5. *Done*: the extractors and their composition, in front of the middleware.
6. *Done*: cache and resource keys, character by character, over a shared store.
7. *Left*: generated names against their collisions, with the schema parser that feeds them.
8. *Done*: proofs of every property that holds but the liveness ones.
