# TLA+ models of ktayl-policy-service

ktayl-policy-service manages insurance policies over HTTP: it creates them,
moves them through a lifecycle, keeps an audit trail in PostgreSQL, announces
every lifecycle change on NATS JetStream and stores PDF attestations in MinIO.
This directory holds TLA+ modules that model it, TLC configurations that check
them on small instances, and theorems about them checked by TLAPS.

Paths below are relative to `src/`.

## 1. Inventory

| Part | State | Operations | Talks to |
|---|---|---|---|
| State machine (`internal/domain/state_machine.go`, `policy.go`) | none | `Transition`, `Validate` | called by the policy service |
| Policy service (`internal/domain/policy_service.go`) with `internal/repository/postgres/{policy,audit_log}.go` | tables `policies` and `policy_audit_log`; the `*Policy` of each request | `Create`, `GetByID`, `List`, `Update`, `Cancel`, `Submit`, `Activate`, `Reject`, `CancelActive`, `Expire`, `ListHistory` | PostgreSQL; `EventPublisher.PublishAsync` after a commit |
| Event publisher (`internal/events`) | goroutines in memory; the stream POLICY_EVENTS | `Connect`, `PublishAsync`, `Publish` (retries), `Close` | NATS JetStream |
| Document service (`internal/domain/document_service.go`, `internal/documents`) | table `policy_documents`; bucket `policy-documents` | `GenerateAttestation`, `ListDocuments` | PostgreSQL, MinIO; reads `policies` |
| Listing (`ListPolicies`, `List` of service and repository, cursors) | none on the server; the cursor in the caller's hands | one page per request | PostgreSQL |
| HTTP API (`internal/api`) | the JWT key cache | routes, JWT and scope middleware, decoding, validation, mapping of errors to problem responses | calls the services |
| Server (`cmd/server/main.go`, `db/migrations`) | connection pool, NATS connection, `schema_migrations` | migrate, wire, serve, shut down | everything |
| Coverages, premiums (`internal/domain/{coverage,premium}.go` and repositories) | tables `coverages`, `premiums` | repositories only; nothing calls them yet | PostgreSQL |
| Null repositories (`internal/repository/postgres/null_repo.go`) | none | no-ops: a deployment without a DSN runs on them | called by the services |
| PDF generator, request logger | none | formatting | - |

What is hard in each of them:

* **Policy service.** Every operation is read, decide, write, and only the write
  is atomic. `applyTransition` reads outside the transaction it writes in and its
  `UPDATE` does not look at the status again; `Update` and `Cancel` overwrite the
  whole row with a copy that may be stale. Several handlers, of several replicas,
  do this to one policy at the same time. Any statement may fail, and the
  answer to a `COMMIT` may be lost. *Correct* means: the audit log is a legal and
  causal history and explains the status; success and events are told only of
  what is committed; nothing stays locked.
* **Event publisher.** An event is handed over after the commit and lives in one
  process's memory from then on. A publish whose acknowledgement is lost is
  repeated, and the copies are not de-duplicated. *Correct* means: "published"
  is said only of what is stored, copies are bounded by the attempts, every
  announcement ends.
* **Server.** Replicas of a rolling deployment migrate one database together and
  may die at any statement. They queue for an advisory lock; who gives up waiting
  leaves its request for the lock behind. On the way down the pool waits for its
  connections. *Correct* means: a serving replica serves on a complete schema,
  start-up decides, shutdown completes.
* **Document service.** The status is checked before generating, uploading and
  recording, each of which may fail; the object key has a resolution of one second.
  *Correct* means: a recorded document has its object, and the policy was eligible.
* **Listing.** Pages are cut by `(created_at, id)` while rows are added and change
  status, and the server remembers nothing between two pages. *Correct* means:
  what stays in the result is seen exactly once, and the walk ends.
* **API.** The caller knows only the status code, while its request may fail at
  any statement and others move the policy. *Correct* means: nothing is changed without
  `policy:write` and no reading route answers without `policy:read`, a 2xx means done, a
  4xx means nothing was done, and a 500 has a failure behind it or data that only the
  database refuses.
* **Consumers of the stream.** Events come late, in any order, more than once or
  never, with times of one second. *Correct* means: what is heard is true, the
  newest event tells the status, and a gap can be noticed.

The hazards behind this list, with lines, are in `PROJECT.json` under `hazards`.

## 2. Modules

| Module | Models |
|---|---|
| `Lifecycle` | `PolicyStatus`, `Event`, `transitionTable`, `Transition`, the reason of each event, the event type of each status |
| `PolicyLifecycle` | the promise of the service to callers that wait for each other: per policy a status and a trail, moved together along the table |
| `PolicyHistory` | its promise to all callers: a status moves on only with its row, along an edge from a status the policy has had; without one it can only fall back to such a status, or be terminated |
| `PolicyService`, `MCPolicyService` | the service, its two tables, row locks, handlers, failures, the hand-over to the publisher; the refinement mapping to `PolicyLifecycle` and `PolicyHistory` |
| `HttpApi`, `MCHttpApi` | middleware, routes, decoding and status codes in front of `PolicyService`; the null repositories |
| `PolicyPaging` | a walk through `GET /v1/policies` beside callers that write |
| `EventStream` | the abstract promise of the publisher to those who read the stream |
| `EventPublisher` | the goroutine of each event, the connection, the stream, restarts; it implements `EventStream` |
| `PolicySystem`, `MCPolicySystem` | `PolicyService` composed with `EventStream`, and what a consumer can conclude |
| `PolicyDeployment`, `MCPolicyDeployment` | one process: `EventPublisher` and the handlers of `PolicyService` that call it; it implements `PolicySystem` |
| `DocumentService`, `MCDocumentService` | generation, upload and recording of attestations, the bucket, the table `policy_documents` |
| `ServerLifecycle` | start-up with migrations and shutdown of several replicas |
| `PolicyServiceProofs`, `HttpApiProofs`, `PolicyPagingProofs`, `EventPublisherProofs`, `PolicySystemProofs`, `PolicyDeploymentProofs`, `DocumentServiceProofs`, `ServerLifecycleProofs` | inductive invariants and theorems about the module of that name |

    HttpApi --extends--> PolicyService <--extends-- PolicySystem <--implements-- PolicyDeployment
                           |       |                     |                         |
                 implements|       |implements (*)       | is composed with        | extends
                           v       v                     v                         v
               PolicyHistory     PolicyLifecycle    EventStream <--implements-- EventPublisher

    (*) for callers that wait: `SerialSpec`.   PolicyPaging, DocumentService and
    ServerLifecycle stand alone; Lifecycle is the vocabulary of all.

    HttpApiProofs, PolicySystemProofs --extend--> PolicyServiceProofs
    PolicyDeploymentProofs --extends--> EventPublisherProofs, --instantiates--> PolicySystemProofs
    PolicyPagingProofs, DocumentServiceProofs and ServerLifecycleProofs stand alone.

Definitions named `Action_Something`, just before `Action`, are deliberately
wrong variants of it; with one of them in the place of the right one TLC finds the property that guards it violated, which
shows that the property bites. `PROJECT.json` pairs them (`mutants`) and maps
every other definition to source lines (`map`).

### PolicyService

`policies` and `audit_log` are the committed tables. A handler `h` is the
goroutine of one request: `pc[h]` is where it is, `call[h]` what it was asked,
`mem[h]` the `*Policy` it holds, `from[h]` the local of that name.

    idle --Receive--> called --+-- Create ----------> insert -- Insert --------+
                               +-- StartUpdate ------> write --- WriteRow ------+
                               +-- StartCancel ------> write                    |
                               +-- StartTransition --> tx -- TxUpdate --> updated
                               |                       -- TxAudit --> audited   |
                               |                       -- TxCommit -------------+
                               +-- AnswerAtOnce --> idle                        |
                          idle <-------------------- Respond -- committed <-----+
    insert, write, updated --RefusedByTable--> idle
    any location but idle --Fail--> idle

| Action | Code |
|---|---|
| `Create`, `Insert`, `InsertConflict` | `PolicyService.Create`, `PolicyRepo.Create` (UNIQUE, 23505) |
| `StartUpdate`, `WriteRow` | `PolicyService.Update`: the read with what is decided on it, then `PolicyRepo.Update` |
| `StartCancel`, `WriteRow` | `PolicyService.Cancel` |
| `StartTransition` | `applyTransition` up to the stamp: read, table, `UpdatedAt = now` |
| `TxUpdate` | `BEGIN` and the `UPDATE`, which waits for the row lock and keeps it |
| `TxAudit`, `TxCommit` | `AuditLogRepo.Insert` in the same transaction; `COMMIT` makes both visible |
| `RefusedByTable` | the `INSERT` or `UPDATE` of the policy, or the `INSERT` of the audit row, is refused for what the caller sent: an error no handler knows, answered 500 |
| `Respond` | `PublishAsync` where the operation has one, and the success answer |
| `AnswerAtOnce` | not found, reads, refused arguments, refused status |
| `Fail` | an error of any statement, a lost answer, a cancelled context, the death of the process; the deferred `Rollback` releases the row |

The read and the local decision on it are one step, because nobody sees the
handler's memory. `BEGIN` is part of `TxUpdate`: it takes no lock and, under
READ COMMITTED, no snapshot that matters. `Fail` after `TxCommit` or `WriteRow`
is the lost acknowledgement. Holder, product and dates are one value. `BadFields`
are those `Validate` refuses, `Unstorable` the fields, numbers and reasons that
pass every check in the program and that PostgreSQL refuses: dates less than a
microsecond apart, which are equal in the table and violate `chk_policy_dates`
(`000001_create_policies.up.sql:13`), a NUL byte in a text, a number too long for
its index. The
time is a counter that ticks at each reading, so the clock is assumed monotone
and without skew between replicas. `actor_id` is not modelled.

### HttpApi

The variables of `PolicyService` and, beside them, `config` (authentication,
database, documents: what `main` has wired), `request[h]` (what the goroutine
serves), `code[h]` (its last answer), and two observations the properties need:
`wrote[h]`, whether a statement of the request has changed the tables, and
`fault[h]`, whether something it depends on has failed.

| Action | Code |
|---|---|
| `Healthz` | the route outside `/v1` |
| `Refuse` | the first check that fails, in the order of the middleware and the handlers: token, route, scope, path and body, validator, reason |
| `Operate`, `Query` | a request that passes; the service is called with what was decoded |
| `ServiceStep`, `ServiceFails` | one step of `PolicyService`, and the switch over its errors when it answers |
| `NullCreate` | the null repository takes a creation and keeps nothing |
| `List`, `Document`, `QueryFails` | the routes whose service only reads policies |

A list request whose cursor does not decode, or whose status PostgreSQL does not
take, passes the handler and fails in the repository, as in the code
(`RepositoryRefuses` is this and the `Unstorable` data of the service). `Token`
has validity and scopes, nothing else. `ScopesKept` speaks of what a request
changed (`Changes`, attestations included) and of what the reading routes show
(`Shows`). It does not say that only a holder of `policy:read` sees a policy: PUT and the
transitions answer a writer with the policy they changed (`policy_handler.go:239`).

### PolicyPaging

`created_at` and `status` are the table; `Stamp`, `Insert` and `Change` are the
other callers. A policy gets its `created_at` before its row becomes visible,
so rows may appear behind the cursor, and two may share a `created_at`. `Ask` is
the query the caller settles on, `ListPolicies` one request with the
`SELECT ... ORDER BY ... LIMIT` of the repository; `limit` is what the handler
makes of `?limit=`, `RepoLimit` what `List` makes of that. `steady` is the set of
rows that have matched the filter ever since the first page.

### DocumentService

`history[p]` is the list of statuses policy `p` has had, so a version of the
policy is a position in it; `Change` adds one, and since `PolicyService` writes
stale copies back, any status may follow any other. A handler goes through
`Generate` (read, status check, PDF), `MakeKey` and `Put` (the two halves of
`Upload`), `Record` and `Answer`; `Fail` may come at any of them and undoes
nothing. `objects` is the bucket: one PDF per key, and a key is a policy and a
second. `outcome` remembers the answer to each request.

### EventPublisher

`task[e]` is the goroutine of event `e`, `attempt[e]` its loop variable. A call
of `js.Publish` is `Send` (the copy is on the wire) followed by `Published` or
`PublishFailed`; the latter is always possible, since a timeout tells nothing of
the copy. `Store` and `LoseCopy` move copies at any later time. `Restart` cuts all
goroutines; `wired` is whether `Connect` succeeded in this process.

`StreamPromiseKept` maps it to `EventStream`: `copies` is the number of copies in
the stream of each event a publisher took charge of, `confirmed` the events that
were logged as published. `Store` is `Deliver`, `Published` is `Confirm`, and all
else a consumer cannot see.

### PolicySystem

The state of `PolicyService` and the variable `copies` of `EventStream`. A step of
a handler that hands an event over is the step in which `EventStream` is
offered it; `StreamStep` is the broker appending a copy, at any later time. The
properties look at the stream as a consumer does: type, policy, and the
CloudEvent time, in whole seconds (`policy_events.go:63`); `Newest(p)` is all
events of the last second heard of, since the consumer cannot order them.

### PolicyDeployment

The state of `EventPublisher`, which it extends, and that of an instance of
`PolicyService`. The events are now those that a handler commits: its step that
hands one over is the step in which the goroutine starts (`PublishAsync`) or, in a
process without a connection, in which the event is dropped (`SkipPublish`).
`RestartProcess` ends the process as a whole: its requests have failed by then, each
by a `Fail` of its own that may come at any statement, and its goroutines are cut.
`Events` bounds what is announced; a run gives it the events its requests can
lead to, the theorems allow all of `PublishedEvent`. `SystemKept` maps it to
`PolicySystem`: `Arrived` is how often the broker has stored each event that was
handed over.

### ServerLifecycle

`pc[r]` walks through `main`; `driver[r]` is the connection of the pool that the
migration driver holds, `inflight[r]` the requests that hold others; `pool.Close` needs all of
them back. golang-migrate is an external library (v4.19.1 in `go.mod`) and is modelled
from how `runMigrations` uses it.

| Action | Code |
|---|---|
| `Start` | `pgxpool.New`, `stdlib.OpenDBFromPool`; or the database is not reachable |
| `PrepareLock`, `EnsureVersionTable` | `pgx5.WithInstance` (`main.go:159`): it sees to its table under the advisory lock, for which it waits without a limit |
| `Lock`, `ReadVersion`, `MarkDirty`, `RunBody`, `MarkClean`, `Migrated` | `m.Up()` (`main.go:174`): the lock once more; a dirty mark before and a clean mark after each file; the lock is given back |
| `LockTimeout` | `ErrLockTimeout` after 15 seconds: `Up` returns, its request for the lock stays on a session that nobody closes (`abandoned`) |
| `GrantAbandoned` | the database grants such a request like any other; nobody gives that lock back |
| `RefuseDirty` | `ErrDirty` |
| `StatementFails` | a statement of `WithInstance` or `Up` fails, or its session is lost, and with it perhaps the connection |
| `Wire`, `WireFailed` | the services; MinIO is not reachable |
| `Accept`, `Answer`, `Signal`, `Shutdown` | the HTTP server |
| `Exit` | `pool.Close` has returned, deferred (`main.go:122`) or before `os.Exit(1)` (`:78`, `:98`) |
| `Kill`, `SessionLost` | the process goes, at any step, with its sessions; the database loses the session of a replica that hangs |

## 3. Runs

| Run | Checks | Bounds |
|---|---|---|
| `concurrent` | `TypeOK`, `HistoryCausal`, `CoverWasApproved`, `LockHoldersGoOn`, `NoPhantomEvents`, `AnsweredOkIsRecorded`, `HistoryKept` | 2 handlers, 2 policies, all ten operations, 5 requests; one value of the fields and one reason that only the table refuses |
| `answered` | `Answered` | 3 handlers, 1 policy, 4 requests (create, submit, PUT: each way to write), one value of the fields that only the table refuses, fairness |
| `waiting` | `HistoryIsPath`, `UpdatedAtAdvances`, `LifecycleKept`, `NewestTellsStatus`, `LossIsVisible` | `PolicySystem`: 2 handlers, 1 policy, 6 requests, `SystemSerialSpec`, 1 copy per event, 2 readings of the clock per second |
| `terminal`, `softcancel` | one documented claim each, violated | as small as the counterexample allows |
| `http` | `HttpTypeOK`, `AnswerTellsEffect`, `ServerErrorHasCause`, `CreatedOnce`, `ScopesKept`, `NothingWithoutDatabase` | 2 handlers, 2 policies, 1 number, 3 policy operations and 1 other request, all six deployments, every token, `Unstorable` data as in `concurrent` |
| `paging` | `TypeOK`, `ScanDescends`, `ScanComplete`, `ScanIsBounded`, `PagesBringRows`, `ScanEnds` | 4 policies, 2 statuses, 2 times, limits absent, 0, 1, 2 and 4 with default and maximum 3, fairness |
| `attest` | `TypeOK`, `RecordedIsStored`, `OrphansHaveFailed`, `GrantedWhileEligible` | 2 handlers, 2 policies, 3 requests, 2 seconds, 1 change per policy |
| `archive` | `ArchiveKept`, violated | 1 policy, 2 requests |
| `publisher` | `TypeOK`, `PublishedIsStored`, `CopiesWithinAttempts`, `StreamPromiseKept`, `AttemptsRunOut`, `EveryAnnouncementEnds`, `SystemKept` | `PolicyDeployment`: 2 handlers, 1 policy, 2 events (its creation and its submission), 3 attempts (the code's `maxRetries`), 1 restart, fairness |
| `rollout` | `TypeOK`, `ServesMigrated`, `StartupDecides` | 3 replicas, 3 migrations (the repository's number), 4 starts, 1 request each, fairness |
| `shutdown` | `ShutdownCompletes`, violated | 1 replica, 1 start, fairness |

*Why the bounds are enough.* Five requests take a policy from creation to active
and leave room for two handlers that race on what they read there, or for two
racing draft operations and what follows from them; the second policy lets
numbers collide and rows of different policies mix. With one more request the
sequential run reaches every terminal status with an update in between. In
`answered`, after the creation, one handler holds the row lock while two others
wait for it, one of them to take it and one to write and go on. In `attest` a third request comes after, or between,
two that race for one key, or meets the orphan a failure left; one change per
policy is enough to lose or gain eligibility during a call, and an eligible and an
ineligible status are all the code tells apart. In `rollout` two replicas may
contend for the lock while the third serves, and a fourth start finds what a
killed one left: a dirty version, or a lock granted to one that had given up.
In `waiting` one policy and callers that wait make the requests nearly
sequential (reads, failures and lost answers apart); what the run shows is what the
failures and the late stream do to a single history, not interleavings of writers, which are
`concurrent`'s. Six requests reach every status with a transition
of each kind before it, two ticks per second let transitions share a second, and a second
copy of an event is to a consumer who knows the id the event it already has.
In `publisher` the two events come from handlers that may overlap, each with all its attempts,
so that their copies mix in the stream, and the restart may come between any two steps
of either.
In `http` two goroutines can race for one number or on one
policy, after the creation that the race needs; what a status code means depends on
one request and those it overlaps with. In `paging`
the smallest scale has all cases: pages of one, pages that are exactly full at
the end, a refused limit (0 and 4), rows of equal time in one page and on the
two sides of a cut, rows that appear before and behind the cursor.
The theorems of section 5 remove the bounds for every safety property, action property
and refinement of the runs that pass; for liveness the bounds are what is claimed.

*Symmetry* is used in safety runs only, over handlers, policies and numbers,
which the specifications never compare except for equality.
*Deadlock* checking is off: a behaviour that has used up its bound on
requests, restarts or starts stops, and a service that nobody calls may rest.

*Fairness.* `PolicyService` assumes weak fairness of each handler's own progress
(a runnable goroutine runs, a live database answers); requests and failures need
not come. Weak fairness of a handler waiting for a row lock would not do against
an endless stream of rivals; with a bounded number of requests it does, and
PostgreSQL queues waiters for a row anyway. `EventPublisher` assumes
that `js.Publish` returns (it has a timeout) and that timers fire; nothing of the
network. `ServerLifecycle` assumes that `main` and handlers go on when they can,
that the 15 seconds of `m.Up()` pass, and that the database grants a free lock to
one of those who ask; not that anybody starts, stops or kills a replica, nor that a
statement fails. Weak fairness is enough for the lock since starts, and with them
acquisitions, are bounded; PostgreSQL's queue is first come, first served anyway. `PolicyPaging` assumes a
caller that follows the cursors it is given, and nothing of those who write;
`ScanEnds` would be the caller's to fail otherwise, since the server keeps no scan.

`SerialSpec`, and `SystemSerialSpec` which adds the stream, is not something the
service enforces. It restricts the callers:
at most one request in flight that may change a given policy. It includes
failures, lost answers and requests on other policies, and shows what a caller
that waits for its answer may rely on: the service then implements
`PolicyLifecycle`, with `status` mapped to the status column and `trail` to the
audit table. Under the same mapping it implements `PolicyHistory` without any
such restriction. The difference between the two is what the lack of a status in
`WHERE` costs: a transition may leave a status the policy has left already, and a PUT
may bring a former one back.

## 4. What the runs found

* **A cancelled policy can become active again** (`terminal`). `Update` reads the
  row, `POST /cancel` commits, `Update` writes the old status back
  (`policy_service.go:83-98`). The tests call these states terminal.
* **A submitted policy can be soft-cancelled** (`softcancel`). `Cancel` checks
  draft on its copy and writes later (`policy_service.go:114-119`). Both claims are
  true for callers that wait, with failures and lost answers (`TerminalStaysFinal`,
  `OnlyDraftsAreTerminated`; in the run `waiting` they are part of `LifecycleKept`).
* **An archived PDF can be replaced** (`archive`). Keys have a resolution of one
  second (`minio_store.go:71-74`): the second attestation of a policy within a
  second takes the place of the first, and two rows point to one object.
* **Shutdown does not complete** (`shutdown`). The migrate instance is never
  closed, so `pool.Close` waits for its connection until the process is
  killed, and the NATS connection is never drained. The same call behind a failed
  start (`main.go:78`, `:98`) hangs for the same reason, after a lock timeout, a dirty
  version or an unreachable MinIO; where the database was not reachable no connection is
  out, and the call returns (`PoolIsNeverReturned`).
* **A replica that gave up can keep the others from starting** (`StartupDecides`, which
  names the one exception). `m.Up()` gives up the lock after 15 seconds, its request for it
  does not; the replica hangs in `pool.Close` (`main.go:78`) and is granted the lock
  when the holder is done. Every replica that starts after that waits in
  `WithInstance` (`main.go:159`) without a limit, until somebody kills the one that hangs.
  No document promises otherwise, so this is stated and not listed as a violation.

Differences between code and documents that show in the models and need no
trace of their own:

* Soft cancellation leaves no audit row and announces nothing (`StartCancel` and
  `WriteRow` add none), though `docs/project-context.md:34` asks for a row for
  every transition.
* PUT is accepted in every status (`StartUpdate` has no guard on it), though
  `api/openapi.yaml:122` says DRAFT only.
* The last page carries a cursor when it is exactly full
  (`policy_handler.go:181`), though `api/openapi.yaml:242` says "absent on the last
  page"; the page behind it is empty, so a walk ends all the same (`ScanEnds`).
* A caller can cause a 500 without any failure: with a cursor of the list that does not
  decode or a status PostgreSQL does not take, and with data that only the table
  refuses (`Unstorable`). `ServerErrorHasCause` says that there is no other way.
* Without documents the two document routes are not registered and answer 404,
  though a comment (`router.go:21`) says 503.
* Without a database a creation is answered 201 and nothing is kept
  (`NullCreate`, `NothingWithoutDatabase`), though the log says "healthz only"
  (`main.go:66`).

None of these contradicts the properties that hold: even with stale writes the
audit log stays legal and causal, the status stays explained by it, there is no
cover without an approval, and no event or success is made up.

## 5. Proofs

The theorems hold for every value of the constants that satisfies the named
assumptions of the modules, so without the bounds of the runs.

| Module | Theorem | Statement |
|---|---|---|
| `PolicyServiceProofs` | `TypeCorrect`, `Invariance` | `Spec => []TypeOK`, `Spec => []IInv` |
| | `HistoryIsCausal`, `NoPhantoms` | `Spec => []` of the property of the run `concurrent` |
| | `AuditRowsAreLegal`, `StatusIsExplained` | `Spec => []AuditRowsLegal`, `Spec => []StatusExplained`, which the run checks as parts of `HistoryKept` |
| | `AnsweredIsRecorded` | `Spec => AnsweredOkIsRecorded` |
| | `RowsAreByOperation`, `CoverIsApproved` | every row is of an operation of the service; `Spec => []CoverWasApproved` |
| | `LockHoldersAlwaysGoOn` | `Spec => []LockHoldersGoOn` |
| | `KeepsHistory` | `Spec => HistoryKept`: whoever calls, the service implements `PolicyHistory` |
| | `SerialInvariance`, `HistoryIsAPath`, `UpdatedAtNeverBack` | for callers that wait: the invariant, `[]HistoryIsPath`, `UpdatedAtAdvances` |
| | `KeepsPromise` | `SerialSpec => LifecycleKept`: the service implements `PolicyLifecycle` |
| | `TerminalStaysFinal`, `OnlyDraftsAreTerminated` | `SerialSpec =>` the claims that `terminal` and `softcancel` refute for others |
| `HttpApiProofs` | `HttpTypeCorrect`, `HttpInvariance`, `ServiceInvariantBehindApi` | types, the invariant, and that what is proved of the service holds behind the API |
| | `AnswersTellEffects`, `ServerErrorsHaveCauses`, `CreationIsOnce`, `ScopesAreKept`, `NothingIsKeptWithoutDatabase` | `HttpSpec =>` the action property of the run `http` |
| | `ApiIsTheService` | with a database, `HttpSpec => Spec`: every theorem about `Spec` holds behind HTTP |
| | `ApiKeepsPromise` | with a database, `HistoryKept`; and `LifecycleKept` if `[]OneWriterPerPolicy` |
| `PolicyPagingProofs` | `TypeCorrect`, `PagesDescend`, `ScansAreComplete`, `ScansAreBounded` | `Spec => []` of the invariants of the run `paging` |
| | `PagesBringNewRows` | `Spec => PagesBringRows` |
| `EventPublisherProofs` | `TypeCorrect`, `PublishedAreStored`, `CopiesAreWithinAttempts` | `Spec => []` of the invariants of the run `publisher` |
| | `StreamPromiseIsKept` | `Spec => Promise!Spec`: the publisher implements `EventStream` |
| | `AttemptsAreBounded` | `Spec => AttemptsRunOut`, and `StepsLeft` is never below zero |
| `PolicySystemProofs` | `StreamInvariance`, `NewestTellsTheStatus`, `LossIsNoticed` | `SystemSerialSpec => []` of the consumer's properties of the run `waiting` |
| `PolicyDeploymentProofs` | `ProcessIsPublisher` | `DeploymentSpec => []` of the invariant of `EventPublisher`, and `StreamPromiseKept` |
| | `KeepsSystem` | `DeploymentSpec => SystemKept`: a process with its publisher implements `PolicySystem` |
| | `ReadersOfTheProcess` | `StreamIsCommitted`, and with `[]OneWriterPerPolicy` the consumer's two properties, of the stream the publisher fills |
| `DocumentServiceProofs` | `Invariance`, `TypeCorrect`, `RecordedAreStored`, `OrphansAreFailures`, `GrantsAreEligible` | `Spec =>` the properties of the run `attest` |
| `ServerLifecycleProofs` | `Invariance`, `TypeCorrect`, `ServingIsMigrated` | `Spec => []` of the invariants of the run `rollout` |
| | `PoolIsNeverReturned` | the driver's connection is out on every shutdown, after a lock timeout, a dirty version or an unreachable MinIO, and as long as a replica that gave up asks for the lock or holds it |

**PolicyService**, from `ServiceAssumption`, which only keeps `None` and the
refused fields apart from the others and the operations within those of the
service. (`EnoughIds`, that uuids do not run out, is what makes `Insert` possible;
no proof needs it.) The properties are not inductive. A stale copy written by
`WriteRow` keeps `StatusExplained` only because what is in `mem[h]` was explained
when it was read and explanations never go away: rows are only added to
`audit_log`. `IInv` therefore says, for each location, what the handler's memory
is worth: a copy about to be written back carries a status the tables explain; a
transition under way has a legal edge from `from[h]` to `mem[h].status`, `from[h]`
is draft or is reached by a row older than the handler's stamp, and no stamp,
stored or in memory, is ahead of the clock; after a commit the row the answer
relies on is in the table.

`CoverWasApproved` goes back along the log twice. The only edges to `cancelled` and
`expired` leave `active`, the only one to `active` leaves `submitted`, and each row has
its cause in an earlier one; what it needs beyond `IInv` is that a row is not just
any edge of the table but one of the five operations, with the reason that
operation gives (`RowsByOperation`).

`HistoryKept` is the refinement without waiting callers. A step of the service either
leaves status and trail alone or is one of the three writes: `Insert` is the
abstract creation; `WriteRow` of a PUT restores the status its copy was read with, of a DELETE discards;
`TxCommit` fires an edge whose cause is older than the row. All of it is in `IInv`
but for one thing: a write needs its row to be there, so that a status is restored or
moved on only where there was one. Rows are never deleted, hence `DecidingStored`:
the policy a handler has read is stored for as long as the handler is deciding.

`LockHoldersGoOn` rests on `LocksHeld`: a row is locked by the one handler that is
between its `UPDATE` and its `COMMIT` on that row, so its next statement waits for
no other row and every way out, failure included, gives the row back.

**HttpApi**, from `HttpAssumption`. A step of the API is a step of the service or
leaves its variables alone, so `IInv` carries over (`ServiceInvariantBehindApi`).
`HttpInv` adds two things. `StampsFresh`: no stored row has the stamp
a handler is about to write, so that a write always shows in the table and
`wrote[h]` cannot miss one. `Serving`: a request under way was admitted (it had
its scope, its body was valid, its reason given) and serves what was decoded, and
`wrote[h]` holds exactly for a committed write. `AnswersTellEffects` then follows from the
location a handler answers from; `ServerErrorsHaveCauses` from what the validator has excluded, by a
case for each answer of the service, and, for a refusal by the table, from there
being a table: without a database no handler gets as far (`Empty`, below). `ScopesAreKept`
follows from `Serving`: what is served was admitted, on every route. `CreatedOnce` needs `NumberInv` besides:
stored rows have different numbers, and a handler holds either the number its
creation asked for or that of the row it has read. `Insert` adds a number that is
free, the UNIQUE constraint sees to that, and all other writes put a row's own number back;
a handler that answers 201 therefore finds its row as the only one of its number.

With a database each step of the API is a step of the service, and `config` never
changes (`ConfigStays`); so `HttpSpec` implies `Spec`, and `SerialSpec` if no two
requests overlap on a policy. Without one, `Empty` is inductive: the tables are
empty and no handler gets past its insert, because every read finds nothing.

**PolicyPaging**, from `PagingAssumption`. `IInv` adds that the cursor is at or
behind every returned row, and that a steady row is returned or behind the cursor; that
rows keep their `created_at`; and that a cursor is not younger than the scan. One
page keeps it because `Newer` is a total order (`NewerTotal`, `NewerTransitive`)
and the last row of a full page is behind the others. A cursor is given only with a full
page, and a page lies behind the rows returned so far: `PagesBringRows`.

**EventPublisher**, from `RetriesAssumption`. `IInv` says that the attempts with
a copy on the wire and those with one in the stream are disjoint subsets of
`1 .. attempt[e]`, that the stream has exactly one copy per acknowledged attempt,
and that "published" is said of an acknowledged one. `Restart` leaves copies on
their way; their attempts stay counted, because no later goroutine is ever given
the event again. The refinement has one lemma per action: `PublishAsync` offers,
`Store` delivers, `Published` confirms, the others change nothing a reader sees.

**Callers that wait** (the second half of `PolicyServiceProofs`). What waiting buys is `Faithful`: the row a handler
decided on is still the same when it writes, and the stamp it is about to write is
later than all the database has of that policy. The edge taken then leaves the
real status, the new audit row is the latest, so `HistoryIsPath` is kept, and so
is the refinement: `Insert` is the abstract creation, `TxCommit` a transition, `WriteRow` of
a soft cancellation the discarding of a draft, and all other steps change nothing of
status and trail. Without `OneWriterPerPolicy` `Faithful` fails at once, and `terminal` and
`softcancel` show what follows. With `Faithful` the two claims they refute are
immediate: no edge leaves a terminal status, and a PUT writes back the status that is there.

**PolicySystem**, from the assumptions of the service and `SystemAssumption`. That
the stream holds only what is committed needs no waiting callers: an event gets
into `copies` by a hand-over, and `IInv` knows what a handler that hands over has
committed. The two properties for consumers are for callers that wait, and go from
events back to rows. A policy is announced
as created once, and before its first row (`AnnouncedOnce`, `AnnouncedFirst`); its
rows have different times; and the edges the service has operations for
never lead back, so later rows have a higher `Rank`. Hence a newest event stands for
the newest row, although whole seconds (`CloudTime` is only monotone) let others share its
second, and two events are linked by an edge only when no row lies between them.

**PolicyDeployment**, from `DeploymentAssumption`, which includes the assumptions of the
service, and `RetriesAssumption`. Every step of a process is a step of `EventPublisher`
or leaves it alone, so the theorems of `EventPublisherProofs` hold of it (`ProcessIsPublisher`); and a step of the process is one of `PolicySystem`,
with `copies` replaced by `Arrived`. The invariant of the publisher is what the second needs: an
event without a goroutine has no copy in the stream, so a hand-over offers a new
event with none, and there is never a copy beyond `maxRetries`. `PolicySystemProofs`
then speaks of the stream of the real publisher (`ReadersOfTheProcess`). The lemmas
`Same...` say that a definition and its instances (`Service!`, `System!`, `Sys!`),
which have different names in the modules that meet here, are one.

**DocumentService**, from `DocumentAssumption`. What an object is worth depends on the
request that made it, which may be over when another replaces the
object or fails to record its own. `IInv` says what each handler has done so far
(`Work`), that an object shows the policy its key names in an eligible version
(`ObjectsShow`), that rows point to objects of their policy, and how the
request behind each object ended (`Behind`): it is at work, recorded, or failed.

**ServerLifecycle**, from `LifecycleAssumption`. Whoever is past the wait in `WithInstance`
or in `Up` holds the advisory lock, and else only a replica that has given up may
hold it, which writes nothing (`LockHeld`); only such a replica has a request behind it
(`AbandonedBehind`). So the schema has one writer at a time; migrations below the
version have taken effect once and none above it has (`SchemaSound`); between
its two marks a migration leaves the version dirty (`MigrationUnderWay`), which is what a replica
killed there leaves behind, and a dirty version lets nobody pass. `DriverOut`, that from the
opening of the pool to the failure of a session, and as long as the lock is asked for or held, the
driver's connection is out, gives `PoolIsNeverReturned`:
why `shutdown` fails, for any number of replicas and migrations.

Each action is one step of its proof, with the conjuncts it can disturb below it.
TLC checked the invariants, and each strengthening, before they were proved.

*Only model-checked.* Liveness, which is beyond the prover: `Answered`,
`EveryAnnouncementEnds`, `StartupDecides` (with its exception), `ScanEnds`. Of three of them the part that is safety is
proved, which leaves only the fairness to TLC: a lock is held only by who can go
on (`LockHoldersGoOn`, for `Answered`), every step of a goroutine lowers a natural number
(`AttemptsRunOut`), and every page but the last brings rows out of a set that stopped
growing with the first (`PagesBringRows`, `ScanIsBounded`). Every safety property, action
property and refinement of the runs that pass is proved.

## 6. Not modelled

* Coverages and premiums: `NewCoverageRepo` and `NewPremiumRepo` have no caller,
  and no service, handler or wiring reaches the entities. Two repositories of
  single statements without a program around them have no behaviour to check.
* `GetByPolicyNumber`, which nothing calls; `actor_id`, which no decision looks at.
* The contents of policies beyond valid, refused by the validator, refused by
  `Validate`, or refused by the table only.
* Clock skew between replicas and a clock that goes back: the order of stamps is
  assumed to be the order of readings.
* Signatures and expiry of tokens, and the JWKS key cache (the library's; the
  code sets its interval of five minutes).
* PDF layout, logging, problem bodies, the website, CI and deployment files:
  formatting or configuration without a protocol of its own.
* The retention of the stream (7 days) and of the bucket (7 years).

## 7. What is left

Nothing of what `main` wires is left out but what section 6 lists. The next steps
follow the code:

1. The table of the state machine has events (`confirm`, `amend`) that no
   service method fires. A route for one of them adds an operation to
   `TransitionOps`; an edge that leads back would break `RowsRanked` and with it
   `LossIsVisible`, and the theorems say where.
2. A service for coverages and premiums becomes a module beside `DocumentService`
   when there is one.
3. When `PolicyService` gets a version column or a `WHERE status = ...`, `Faithful`
   should hold without `OneWriterPerPolicy`, and `terminal` and `softcancel` turn into runs
   that pass.
