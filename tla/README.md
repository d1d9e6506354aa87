# SentryCode: TLA+ models and proofs

SentryCode (`src/`) is a repository security scanner written in TypeScript: a
command line tool that runs scanners over a working tree, evaluates policy on
what they find, publishes evidence, reports to external consumers, and keeps an
audit log; beside it a web console on PostgreSQL and a *managed runner*, an HTTP
service that executes scanner containers.  Most scanners are sequential and pure.
What is hard is around them: several executions share a delivery queue, runners
compete for one installation, handlers interleave at every `await`, containers
outlive the process that started them, directories are written file by file while
others read, and a decision depends on documents, waivers and clocks that change
meanwhile.  These modules model those parts.

File names below are relative to `src/src/` unless they say otherwise.

## 1. Inventory

| Component | State it keeps | Operations | Hard behaviours | What makes it correct | Module |
|---|---|---|---|---|---|
| Consumer delivery outbox (`consumers/delivery.ts`, `http-publisher.ts`, statements in `application/postgres.ts`, migrations 003, 004) | one row per message: status, attempts, next attempt, content | enqueue a scan's batch, list due rows, post, record the attempt | executions share the table and claim nothing; a post may be processed and its answer lost; crashes; an audit append fails after a recorded success | delivered means received; one content per id; delivered is final; attempts bounded; every message settles | `ConsumerDelivery` |
| Message construction and the loop over consumers (`consumers/{messages,envelope,selection,registry,*-adapter}.ts`, `compliance/cra-reporting.ts`, `cli/main.ts` 372-493) | none of its own | choose consumers, select findings, map them, enqueue, drain | a consumer that is misconfigured, unavailable or failing among others; configurations change between executions | each consumer gets what it asked for, whatever happens to the others | `ConsumerReport` |
| Runner lease (`execution/runner-lease.ts`) | a directory with `owner.json` | acquire, heartbeat, release | non-atomic file operations, stale records, late heartbeats, deaths | one owner; the record is fresh while owned; abandoned leases are taken over | `RunnerLease` |
| Managed runner (`execution/runner-server.ts`, `docker-executor.ts`, `runner-client.ts`, `runner-main.ts`) | `jobs`, `active`, job directories, containers | POST and DELETE of jobs, execute, cleanup, recover, close | handlers interleave at awaits; cancellation races admission; container commands fail; crash and restart | slots counted; no stray container; completed means cleaned up; a job works on its own input; handlers advance | `RunnerServer` |
| Snapshot, profiles, supply chain and dependency scanners (`execution/{snapshot,profile-registry}.ts`, `scanners/{supply-chain,dependencies}`, `dependencies`, `vulnerabilities`, `enterprise/intelligence.ts`) | files of the repository, a profile, imported reports, a database | read files, load a profile, accept an answer, read reports, look packages up | files, profiles, reports and databases are replaced between two looks at them; documents repeat packages in any order | nothing in the documents is lost; a result is about what it says it is about | `SupplyChain`, `SupplyInventory` |
| Audit chain (`enterprise/audit.ts`) | a file of hash-linked events | append, verify | read, await, append without a lock; torn writes; edits | verified means serial; rewriting shows | `AuditChain` |
| Compliance store, backup, retention (`compliance/{store,publication,service}.ts`, `enterprise/{evidence-integrity,backup}.ts`, `web/{service,operations}.ts`) | one directory per published run; copies | publish, read, list, back up, restore, remove what has expired | several files, one after the other; readers and maintenance meanwhile; crash | a publication stays whole; what is read was verified; a listing is complete | `ComplianceStore` |
| Scan engine and policy (`core/engine.ts`, `policy/*.ts`, `consumers/registry.ts`) | none beyond a run | run scanners against timers, merge documents, match waivers, decide | late answers; levels, locks, scopes and periods; the clock moves between the steps | the gate decides as declared; locks and the floor hold; the scan ends | `ScanEngine` |
| Incremental scanning and the end of an execution (`incremental/*.ts`, `git/changes.ts`, `core/{files,repository}.ts`, `cli/main.ts` 753-860) | the cache: last successful commit | plan, scan, publish, report, record | failed, killed, dirty and partial executions in between | what passes was vetted; mandatory evidence was published | `ScanPipeline` |
| Administration (`application/*.ts`, `web/{server,auth}.ts`) | tables; files written from them | request, decide, change, write the files, audit | check and update apart; lists that are stale when written; failure half-way | files hold only what was approved; files agree with the tables; what succeeded is logged | `Administration` |
| Schema migrations and the older CRA queue (`application/postgres.ts`, `compliance/cra-delivery.ts`, migrations) | the ledger of versions, two queues | migrate, enqueue, deliver | migrators overlap or are interrupted; executions of two releases go on | no report or recorded attempt is lost or undone; what is not copied is said | `SchemaMigration` |
| Command line, web console, compliance server, configuration, git providers, other scanners, SBOM, reporting, automotive | none or a file of their own | pure or one external call each | formats | not state-based | parts of it above; the rest not modelled |
| `src/ui`, `src/scanner-runtime`, `src/deploy`, `src/scripts`, `src/integrations` | - | - | browser pages, images, vendored tools, packaging | - | not modelled |

How they interact: the CLI (`cli/main.ts`) plans an incremental scan and runs the
engine with the scanners; the supply-chain scanner is the client of the managed
runner, which serves while it holds the lease; the engine reads the policy and the
waivers that administration writes; after a scan the CLI publishes to the compliance
store and, when that succeeded, enqueues and drains the outbox of each consumer;
the CLI, the delivery loop and the web console all append to the audit chain;
retention and backup work on the directories of the compliance store.  Each module
takes what it gets from another as any value the other may produce: `ScanPipeline`
any decision of `ScanEngine`, `ConsumerReport` any outcome of a drain that
`ConsumerDelivery` models, `ScanEngine` any result of a scanner, `RunnerServer` any
answer of a container.  `PROJECT.json` lists the hazards line by line with the
properties that watch them.

## 2. Plan

Done: `DeliveryContract`, `ConsumerDelivery`, `RunnerLease`, `RunnerServer`, `AuditChain`,
`ScanEngine`, `ScanPipeline`, `ConsumerReport`, `ComplianceStore`, `Administration`,
`SchemaMigration`, `SupplyChain` with `SupplyInventory`: all modelled and checked, and every safety
property of a passing run proved.

To model, if the code goes that way: two servers and the lease composed (a server that
closes while handlers of vanished clients still run).

Modules that are proved about use no recursive operators, take their parameters as
constants under one named assumption, and have one action per operation.

## 3. The modules

### ConsumerDelivery and DeliveryContract

`row` is the table `sentrycode_consumer_delivery`; `received` what the consumer has
processed; `pc, todo, now, page, cur, last` the locals of one execution of
`enqueueConsumerDeliveries` followed by `deliverPendingConsumerDeliveries`.  Each SQL
statement, each POST and each audit append is a step, since each is awaited.

| Code | Action |
|---|---|
| `delivery.ts` 35-77, INSERT ... ON CONFLICT DO NOTHING | `EnqueueNew`, `EnqueueMatch`, `EnqueueCollision` (identity or content differs: the enqueue throws) |
| `delivery.ts` 92-100, the clock read once | `BeginDrain` |
| `listPendingConsumerDeliveries` | `ListPage`, `Due`, `FirstPage` |
| `publisher.publish` | `PublishOk`, `PublishLost` (processed, but timed out), `PublishRefused` |
| `recordConsumerDeliveryAttempt` (`status <> 'delivered'`) | `RecordAttempt` in `RecordDelivered` and `RecordFailed` |
| audit inside the try block | `AuditDelivered`, `AuditThrows` |
| catch block, stop after a failed page | `RecordFailed`, `PageDone` |
| process killed, statement fails | `Die`, `RecordThrows`, within `MaxFaults` |

`DeliveryContract` is what the queue promises: absent, queued, delivered, each message
keeps the content it was first queued with, delivered only after the consumer received
it.  `ContractSpec` is the refinement, checked and proved.

Runs.  `delivery_shared`: two executions, two messages with colliding batches, two attempts,
pages of one message (so that a drain lists more than once), one fault.  Two executions
suffice for every race in the code, because a step of an execution reads the table only
for the one row in hand.  Progress (`Settles`) is under fairness of running executions, of
the clock and of SentryCode being executed again (it is run by CI or by hand, and nothing
else drains the queue; without this assumption a failed message stays queued for ever).
What a drain keeps in local variables is forgotten when it ends (`Forget`).

### RunnerLease

`made, rec, temps` are the directory `.runner-lease`, its `owner.json` and temporary
heartbeat files; `pc, tries, beat, at, done` are the locals of each `RunnerLease` object.
`mkdir`, `readFile`, `rename`, `writeFile` and the two halves of a recursive `rm` are steps
of their own.  `Steal` is `rename(directory, tombstone)`, whatever directory is there.  A
restarted process is another runner; the initial directory may be one left empty by a
predecessor that died in `acquire`.

`Lag` bounds how long a heartbeat or a release of a live runner takes, against `StaleAfter`
(5 s interval and 15 s in the code, hence `Lag` 1 and `StaleAfter` 3); the bound
`2 * Lag < StaleAfter` is tight: `StaleAfter = 2 * Lag` breaks `LeaseHeld`.  The history
variable `raced` says whether a runner was started while another was in `acquire` (the
deployment in `src/deploy` starts one container, but nothing in the code enforces it).

`lease_all` has two runners with three attempts each (the code makes five; with as many
attempts as runners, all of them may fail, so `SomeoneWins` needs one more: up to four
runners in the code).  Until runners
have raced, exclusion holds and the owner's record is fresh; this is also proved for any number
of runners.  When they race, one of them still wins.  `TakesOver` assumes that a live runner's
file operations complete.  `lease_exclusion` is a finding: runners that race may both own the
installation.

### RunnerServer

`run, client` are the clients, `jobs, active, aborted` the fields of `RunnerServer` and
the abort controllers, `h` the point a handler has reached, `input` the directory
`jobs/<runId>/input`, `boxes` the containers that exist, `step, outcome, clean` the locals of
`execute`.  Code between two awaits is one step, so the check for a duplicate (`ReadBody`) and
the registration (`Register`) are apart, as they are in the code.

| Code | Action |
|---|---|
| `handle` 133 | `Arrive` (429 when busy) |
| 136-138 | `ReadBody` |
| 140-147 | `Prepare` |
| 148-151 | `Register`, `InputRefused` |
| `execute` | `NextStep`, `Create`, `Wait`, `Sweep`, `Collect`, `Throws` |
| 157-172 | `Rescue` |
| 184-188 | `Reply`, `RemoveJobRoot` |
| `cleanupRun` | `CleanupRun` (confirmed, or any part of the containers removed) |
| DELETE, `cancelRun` | `Delete` |
| `listen`, `recover`, `close` | `Listen`, `Recover`, `Close`, `Closed`, `Exit` |

`Crash` drops the process; a `docker create` it had issued may still be carried out
(`GhostAppears`).  The bytes of a body, the digests of an input and the contents of artifacts
are reduced to accepted or refused.  One server runs at a time: that is the lease's business.

`server_jobs` has two calls, each with a run id of its own (as the client makes them, with
`randomUUID`) or both with the same one, a limit of one, one step, and two starts, so that
both calls can be in any two phases at once, across a crash and a recovery.  That jobs end is
checked in a form that needs no fairness: `HandlersAdvance`, a handler never comes back to a
place it has left, so it ends if its container commands return.

### AuditChain

`contents` is everything that was ever written as an event, by an appender or by somebody who
edits the file: the n-th content has hash n (no collisions; events that are alike in every field,
the time included, would be one content).  A line of `log` says one content (`base`) and carries
one hash.  `prev` and `seen` are what an appender has taken from the file between its read and
its `appendFile`; `seen` is history in a content.  `tail` says whether the file ends in half a
line: an append that was under way ends up in it.  `Edit` is anybody with access to the file:
`Forge` changes what a line says, its `previousHash` to any known hash, and leaves or recomputes
its hash; `Rearrange` takes a line out or puts in a copy of a line or of an earlier content; and
damaged lines may be removed.  `Verified` is `verifyAuditChain`; a content that is not `own` has
no valid signature, so that with a key configured verification rejects it, too.

`audit_overlap`: three writers, four contents, two edits.  The file may fork, but what passes
verification was written in the order of its lines, however it was edited, and is serial unless
lines were moved; what is serial, unedited and undamaged passes; every event of an unedited file
continues one before it, and no event is lost.

### ScanEngine

One `runScan`.  `scan, results` are the scanners and their first answers, `clock` is
`now()`, read again by each step; `documents, effective, locked` are the loop of
`resolvePolicy`, `waivers, waived, decision` the gate, `report, release` what comes out.
`documents` has what is in force and not yet applied, each at its place in the directory; `First`
says whose turn it is.  `Waived` looks for the first waiver that applies, `Forced` folds the
scanners in the order of the code.

| Code | Action or definition |
|---|---|
| `runOne` | `Settle`, `TimeOut`, `LateResult`, `AllSettled` |
| `classifyScannerFailure` | the same name; a message is the set of categories whose patterns it matches |
| `loadPolicyDocuments`, `parsePolicyDocument` | `LoadPolicyDocuments`, `Parses`, `Duplicated`, `InForce`, `MatchesScope`, `ActiveAt` |
| `resolvePolicy`, `changesLockedField` | `First`, `ApplyDocument`, `ChangesLockedField`, `AddFloor` |
| `loadWaivers`, `findApplicableWaiver` | `LoadWaivers`, `WaiverParses`, `Valid`, `Matches`, `Applies`, `Waived` |
| `evaluatePolicy`, `evaluateOpa` | `EvaluatePolicy`, `AtFirst`, `After`, `Forced`, `SkipOpa`, `OpaAnswers`, `Stricter` |
| end of `runScan`, `buildReleaseDecision` | `Conclude`, `ReleaseCheck` |
| `consumers/registry.ts` | `legacyCraConsumer`, `listConfiguredConsumers`, `consumerRequiredScanners`, `consumerPlan` |

A document may set and lock four fields: two lists of severities, the required scanners and
the failure modes.
`settings` is what of the configuration decides who may keep a scan waiting: whether the timers
are armed (`scannerTimeoutMs` above 0) and whether OPA is enabled.  `Ends` is under weak fairness
of the timers and of `runScan`'s own steps, which are plain computations and reads.  Of the
scanners and of the OPA process, which the code does not time, nothing is assumed: `Ends` says
that a scan ends or waits for good for one of these (`Waits`), and so that timers which are armed
leave OPA as the only one that can hang a scan.

`engine_gate`: two scanners that answer, fail, are skipped or hang; nine policy directories
(a locked organization document, one that excuses a scanner from time 1 on, one that
repeats or changes a locked list, a scope that does not apply, a duplicate, one that does not
parse); six waiver files; a clock of three values, so that documents and waivers come into
and go out of force between two steps.

### ScanPipeline

Executions of `scan`, `release check` and `compliance publish`, one after the other, on one
branch.  `commits, work` are trees, `blocking, waived, excused` what is wrong in them,
`cache` the file `lastSuccessfulCommit`, `exec` the locals of `main`.

| Code | Action |
|---|---|
| `buildIncrementalPlan`, `changedFilesBetween`, `discoverFiles` | `Plan`, `ChangedFilesBetween`, `Discover` |
| `runScan` | `Scan` (any decision the files scanned allow) |
| `main.ts` 787-808 | `Publish`, `Consumers`, `Mandatory`, `Optional` |
| 809-859 | `Output`, `WriteCache`, `Passed`, `Leave` |
| a developer, a killed process, time | `Edit`, `Discard`, `Commit`, `Crash`, `Expire` |

`pipeline_linear`: two files, three commits, four ways to invoke.  Once an execution for one
service has moved the cache nothing is said about incremental executions any more (the
state constraint), and with branches `git diff base...HEAD` starts at the merge base, so that
the property does not hold there either (hazard `git/changes.ts:13`).

### ComplianceStore

`store` is what is in each file of each run; `pub` how far `publish` has come, with a step
for every file and two for those not written atomically (manifest and signature, which can be
torn); `maint, backup` the operation `cp`, `rm -r` or retention is in; `reader` a request.
What an operation or a listing has still to visit is a set (`maint.runs`, `maint.files`,
`reader.todo`); `First` takes from it the one whose turn it is in the order of the directory.

| Code | Action |
|---|---|
| `LocalComplianceStore.publish`, `writeIntegrityManifest`, `signIntegrityManifest` | `MakeDirectory`, `WriteDocument`, `ListDocuments`, `CloseManifest`, `OpenSignature`, `CloseSignature`, `AbandonPublication` |
| `getPublication`, `verifyIntegrityManifest` | `ReadManifest`, `VerifyDigest`, `VerifySignature`, `ReadDocument` |
| `listRuns`, `web/service.ts` views | `Request`, `NextRun`, `Missing`, `Broken`, `Reply` |
| `applyComplianceRetention` | `StartRetention`, `Inspect`, `Retire` |
| `createBackup`, `restoreBackup` | `StartBackup`, `OpenForBackup`, `CopyOut`; `StartRestore`, `Clear`, `CopyIn` |
| a failing or killed operation, an edit from outside | `Die`, `Damage` |

`store_files`: two publications of two documents, a request, two maintenance operations, one
alteration; `Bounds` in `MCComplianceStore` says which of these may coincide.

### Administration

Requests of the web console that change waivers, policies, scanner settings and roles.
`request` is where each handler is; each statement, each audit append, each reading and each
writing of a file is a step.  The role is looked up once, on admission.

`admin_requests`: three requests, two at a time, two repositories, two waivers, one expiry,
one failure.  `FilesCurrent` holds only for kinds no two requests have changed at the same
time and no request has changed in part: the history variable `unclean` says which.  A writer of waivers keeps
entries whose ids were not in the list it had read (`Unlisted`, `admin-service.ts:44`).

### SchemaMigration

`ledger` is the table of versions; `queue` the old and the new queue; a migration is one
transaction.  Executions of the earlier release go on queueing and delivering through the old
queue while those of the new one use the new.  `schema_upgrade`: two migrators that overlap or
follow an interrupted one, an execution of each release, two reports.  `recorded` and `settled`
count what either release records at any time; `astray` says of which reports the earlier release
recorded an attempt after they were copied, `late` which it queued only then.

### ConsumerReport

One execution after the other: whom to serve, the legacy CRA reporting first, then each
consumer in turn: store opened, messages built, enqueued, audited, drained; `Fault` is a failure
of whatever step is under way, `Unavailable` the catch block.  `left` and `todo` are what the loops
still have to go through, kept at the places of the configuration and of the report: a loop takes
the least place that is left, and CRA reporting of its own has place 0, before all the others.  A
drain delivers any of what is
queued, which `ConsumerDelivery` refines.  `consumers_apart`: two executions, each with one of
four configurations and two reports; between them a name may change its adapter, and a
consumer named `cra` may share the queue of the CRA reporting.

### SupplyChain and SupplyInventory

`SupplyInventory` has the pure part: relationships in an SBOM, merging of components, matches,
lock file entries and their policy, version ranges, the difference of two commits, each written
as the code computes it (folds over the sequences in the order of the code), with a reference
definition (`InventoryComplete`, `FindingsComplete`, `AdvisoriesComplete`, `PolicyComplete`,
`DiffComplete`) that says what the outcome must be without an order.  `SupplyChain` is one
search in one of five modes and what is replaced meanwhile.  Components of an SBOM and matches go by
purl, lock file entries by `Identity` (ecosystem, lower-case name and version); `reconcileRelationships`
looks a component up by the one and, failing that, by the other.  `looked` is the set of lock
files that could be read and `Said(looked)` what they say.

| Code | Action |
|---|---|
| `snapshotRepository` | `Lstat`, `ReadChunk`, `Restat` |
| `RunnerProfileRegistry.load` | `ReadManifest`, `HashAsset`, `CheckAge` |
| `assertResponse`, `assertManagedResponse`, `artifactJson` | the same names, in `Answer`, `Normalise` |
| `runManaged`, `runImported` | `Discover`, `Report`; `ReadSyft`, `ReadGrype`, `ReadBinding`, `SyftBytes`, `GrypeBytes` |
| `DependencyScanner.scan`, `loadVulnerabilityDatabase` | `DiscoverPackages`, `LookUp`, `Advisories` |
| `importVulnerabilityBundle`, `validateBundle` | `ImportBundle`, `Authentic` |
| `dependencySnapshotAtRef`, `diffDependencies` | `DiffRefs`, `diffDependencies` |
| a developer, an operator, time | `Write`, `InstallManifest`, `InstallAsset`, `Replace`, `Tick` |

`supply_reports`: two files, two assets and three releases of a profile, six SBOMs, two lists of
matches, eight answers, four repositories of two lock files each of which any may be unreadable
(`Repositories`, `LockFiles`), with names that differ by case and entries that agree in their identity
but not in their purl, ten policies, advisories with every operator of a range around the versions in
the lock files.

## 4. What is proved

All theorems hold for every value of the constants that satisfies the module's named
assumption; TLC evaluates the assumptions in the runs.

`ConsumerDeliveryProofs`.  Typing needs that the message in hand is a message exactly
inside the try block and that queued rows have a content (`IndType`).  `DeliveredIsFinal`
follows from the shape of the steps on the table (`TableStep`).  `Contents` - received
pairs are those of rows, an execution that is about to record a success holds a received
message - gives `DeliveredReceived`, `OneContent` and, step by step, `ImplementsContract`.
`Drains` - what a drain has posted is delivered, or its page is the last - gives
`PostedOncePerDrain`.  `Budget` - attempts plus executions that may still record one -
gives `AttemptsStayBounded`.

The same module proves about `SchemaMigration`.  `UpgradeInv`: the ledger has no version without
those before it, and what a migrator believes is applied is (`InOrder`); executions work on rows
that are there (`Listed`); every recorded attempt is in one of the two queues, and unless the
report has gone astray it is in the row that counts, in the new queue or, until it is copied, in
the old one (`Recorded`).

`RunnerProofs` is about the lease and about the server that serves while it holds one.
`LeaseInv`: as long as runners have not raced, there is one contender at a
time, no heartbeat older than `Lag` is in flight, the record of a holder is its own or one as
recent, and whoever is about to steal has seen a lease nobody held.  Exclusion alone is not
inductive: what keeps a contender out is the record, and what keeps the record fresh is timing.
`OneOwner` and `RecordStaysFresh` assume `2 * Lag < StaleAfter`; `LeaseTypeCorrect` does not.
`ContestInv`: nobody has used more iterations of `acquire` than runners have left the contest,
and until one that won has left there is a holder or someone who can still win.  `NotAllLose`
assumes that `Runners` is finite and smaller than `Attempts`: the loop of the code has five
iterations (`runner-lease.ts:39`), so the theorem is about up to four runners at a time.

For the server, `ServerInv`: `active` is the cardinality of the registered jobs
(`SlotsCounted`), nobody is at work in a server that is down (`Quiet`), an answer that confirms
cleanup has left no container (`Answered`), and once the server has recovered every container
belongs to a job (`Accounted`).  The bound on `active` follows from the count and needs that
`Calls` is finite.  `HandlersOnlyAdvance` is an action property and needs only the typing.

`SupplyChainProofs`.  `SupplyInv`: each mode has its own steps (`Ways`); a chunk of a file is no
older than what `lstat` said and no newer than the file (`Reading`), so that a file that `stat`
finds unchanged was read whole; assets that were hashed are what the loaded manifest says unless
one was replaced since (`Hashing`); what was parsed is what the directory has unless it was replaced
(`Parsing`); and what is ready to be reported is what the result will say (`Sound`), which gives
`ResultsAreIdentified`.  The assumptions are that files and releases of the profile are lists, that
there is a release, and that each gives every asset a content.

`ResultsAreComplete` needs, besides, that what is at hand when a result is made are documents
(`Stocked`), and what each function of `SupplyInventory` computes of documents of any length:

- A fold over a list is followed along the sets of places in the list.  `SameFold` - two functions
  of sets that take the same step from a set without its greatest place to the set are the same,
  for a set of least cardinality where they differ would be contradicted by its last step - gives
  each fold its closed form: `FindingsMerged` (the worst severity and all fixes of the
  matches of a key), `UniqOf` (the first direct entry of a package or else its first),
  `InventoryOf` (the relationship of least rank), `AdvisoriesOf` (the last advisory with an
  identifier counts).
- `ReachableIsReached`: the rounds of the worklist grow until they are closed, and there are no more
  of them than nodes, so that the last one is closed and in every closed set, cycles or not.
- `RangeIsWithin`: comparing versions number by number is the lexicographic order.
- With these, `PlainIsComplete` and `ReconciledIsComplete`, `FindingsAreComplete`,
  `AdvisoriesAreComplete`, `PolicyIsComplete` and `ChangesAreComplete` show each outcome to be what
  its reference definition says without an order.

`DocumentsAssumption` says what the documents are taken to be: finite lists; an SBOM whose graph has
finitely many nodes; versions that begin with three natural numbers (`parts` in
`dependencies/versions.ts:1-3` yields nothing else, and absent parts count as zero); clauses of a
range that compare with such a version or are literal; hosts that are absent or names made of labels;
ranges and ages in the policy for the packages that the lock files have.  Two parts are about
names: entries with one purl have one identity (`Identified`; a purl is made of ecosystem, name and
version, while one identity may have several purls, as names that differ by case do), and no
advisory has the identifier of a rule of the dependency scanner.  A lock file with two versions of one package
satisfies it, and so do documents that repeat, contradict or leave out anything else.

`AuditChainProofs`.  `Given`: a content names an older one, since a hash is known only once
something has it.  With it a log that passes gets younger from line to line (`Younger`), and the
first line that broke the order would contradict its predecessor (`OrderShows`; `Least` stands in
for an induction along the lines).  `Witnessed`: as long as no line was moved, hashes are distinct
and whoever names the hash of line k has read k lines; with it verification implies a serial
history.  `AsRead`: until the first edit, every line and every writer names the hash of
the last line it had read; it gives the converse (`SerialLogVerifies`) and `ForksContinue`.
`NoEventIsLost` is inductive with the typing: an append writes behind what is there.

`ScanEngineProofs`.  `EngineInv`: a scanner has an answer once it is not running any more, and
nothing goes on before all have (`Answered`); lists stay lists and only fields are locked
(`Policy`); the floor is required once it has been added (`Floored`); from the gate on, decision
and report are the declared ones (`Gated`), which `SameGate` keeps because nothing they depend on
changes.  The gate itself is code that goes through lists.  `LoopVerdict` gives the fold over the
scanners its closed form: of the sets of places where they differ, one of least cardinality
would be contradicted by its own last iteration (`OneMore`).  `WaivedIsCovered` finds the first
waiver that applies, and `SequenceOf` and `Longer` say what the floor makes of the required
scanners.  The assumptions are that lists are sequences and that the required scanners are
finitely many.

`ScanPipelineProofs`.  `PipelineInv`: while an execution plans and scans nobody commits
(`Undisturbed`), the commit in the cache is vetted, and what an incremental scan leaves out was
vetted before (`Incremental`) - the last two need each other.  `limited` is in the hypotheses of
`PassMeansVetted` itself: the theorem says nothing once a scan of one service has moved the cache,
as section 3 explains.  `Decided` and `Sent` give `EvidenceIsPublished`.

The same module proves about `ConsumerReport`, the consumers' step seen from within.
`ReportInv`: every row is of a finding that a consumer of some execution selected (`Made`); what
the consumer whose turn it is has in the queue and still has to put there makes up what it asked for
(`Working`); who still waits has met no fault and has nothing of this execution (`Waiting`); who
has had its turn is served with all of it or accounted for (`Over`).  A turn touches no rows but
those of its own consumer, since a key tells consumer, execution and finding (`KeysDiffer`), and the
step from one turn to the next is the same after success and failure (`NextConsumer`).  The only
assumption about configurations is the one `consumerConfigs` enforces, that no two consumers have
one id.  Two that are served in one execution under one name then have different adapters
(`NamesDiffer`), and `Matching` says what is left of "posted by its own adapter": both adapters
have been configured under the name.

`ComplianceStoreProofs`.  `StoreInv` says of each run what its stage and its fate leave in its
directory and in its backup copy (`RunSound`), and what retention, backup and restore have done
of the runs that they went through (`Retiring`, `Owing`, `Refilling`).  The core is `Sealed`: the
file that a publication writes last is good only when the publication is done, so that retention,
which looks for that file, never takes one that is under way.  `ReaderInv` adds what a request has
seen (`Watching`, `Collected`), why it may fail (`Explained`), and that an altered document of
the run at hand still has its digest to be checked (`Sound`).  Steps of the others reach the
request through one relation, `Moves`: files change, and what the request may rely on is only
forgotten.  The assumptions are that the directory orders are sequences of all runs and names and
that the special file names are no documents.

`AdministrationProofs`.  `AdminInv`: a request has the log entries that its place implies
(`Logged`), and one that is about to write waivers has only approved ones in hand (`Carries`),
which is what makes `FilesGoverned` inductive although requests overlap.  `AllSteady` is about
the kinds of file that saw no overlap and no failure: at most one request is at work on them, every file
it has not still to write matches the database (`Progress`), and what it holds is what the
database has (`Current`).  One assumption is about names only: a repository is not called like a
stage of a request.

Only model-checked is liveness: `Settles` (delivery), `TakesOver` (lease) and `Ends` (engine).  Under
fairness each asks of the enabledness of actions, which the prover cannot reason about.  All other
properties of the passing runs - the safety invariants, the action properties and the refinement -
are theorems.  `MutualExclusion` of `lease_exclusion` does not hold; `OneOwner` proves what does.

`TypeOK` is proved for `ConsumerDelivery`, `RunnerServer`, `AuditChain`, `ScanEngine`,
`ScanPipeline` and, as `LeaseTypeOK`, `ReportTypeOK` and `SupplyTypeOK`, for `RunnerLease`,
`ConsumerReport` and `SupplyChain`.  In the other modules it holds in the runs when it is added to the configuration,
which leaves it out where a deeper property reads the same variables.

## 5. The runs

| Run | What it asks | Properties |
|---|---|---|
| `delivery_shared` | do executions that share a queue keep the at-least-once contract? | `DeliveredWasReceived`, `OneContentPerMessage`, `AttemptsBounded`, `OncePerDrain`, `DeliveredIsFinal`, `ContractSpec`, `Settles` |
| `lease_all` | one owner as long as runners start in turn, and one in the end if they race? | `LeaseTypeOK`, `OneOwnerInTurn`, `LeaseHeld`, `SomeoneWins`, `TakesOver` |
| `lease_exclusion` | is there one owner when they race? (violated) | `MutualExclusion` |
| `server_jobs` | are slots, containers and inputs accounted for? | `SlotsCounted`, `NoStrayWorkers`, `ScansOwnInput`, `CompletedIsClean`, `HandlersAdvance` |
| `audit_overlap` | does verification mean what it says? | `VerifiedIsSerial`, `SerialVerifies`, `RewritingShows`, `ContinuesEarlier`, `KeptEventsStay` |
| `engine_gate` | does the gate decide as declared, whatever the order and the clock? | `GateDeclared`, `FloorEnforced`, `LocksHold`, `FirstAnswerStands`, `Ends` |
| `pipeline_linear` | does an incremental pass mean that everything was vetted? | `PassMeansVetted`, `MandatoryPublished` |
| `store_files` | what do readers get while the store is written, copied and cleared? | `PublishedWhole`, `ReadSound`, `ListComplete`, `FailureExplained` |
| `admin_requests` | do files hold what was approved and decided? | `FilesGoverned`, `FilesCurrent`, `AnsweredIsLogged` |
| `schema_upgrade` | does an upgrade in use keep every report? | `UpgradeKeepsReports` |
| `supply_reports` | is a result complete and about what it names? | `ResultComplete`, `ResultIdentified` |
| `consumers_apart` | does one consumer's fault stay its own? | `ConsumersApart` |

## 6. Findings and known limits

`lease_exclusion` is a finding: of two runners that start together, with no lease there, the
second finds no record in the directory that the first has just made, and renames that directory
away after the first has put its record in; both end up owning the installation
(`execution/runner-lease.ts:52`).

The properties above are stated so that they hold; where the code does less than a reader of the
documents may expect, the difference was met while modelling and is recorded here.

- *Delivery.* Rows are listed without being claimed (`consumers/delivery.ts:103`), so an
  execution that listed a row before another one recorded it as delivered posts it again, where
  `src/SLICE_22_CRA_DELIVERY_POSTGRES_IMPLEMENTATION.md:15` says "never resends".
  `DeliveredIsFinal` is about the row.
- *Runner.* A DELETE that comes before the job is registered is answered 404 and forgotten
  (`execution/runner-server.ts:129`), although `runner-client.ts:67` calls 404 safe; the job runs.
  `maxConcurrency` is tested before awaits and counted after them and can be exceeded.
- *Audit.* Two appends that overlap name the same predecessor (`enterprise/audit.ts:22`) and an
  untouched log then fails verification.  `src/README.md:304` says "rewriting a prior event
  invalidates subsequent chain verification": it does as long as an older event is behind it.
  Whoever links and hashes everything from there to the end anew is not noticed without a key, and
  with a key only if verification is given the public one; the last event can be removed
  unnoticed in either case.  After half a line nothing can be appended or verified any more.
- *Engine.* The OPA process has no timeout (`policy/opa.ts:18`), so a scan can wait for it without
  end, as it can for a scanner when `scannerTimeoutMs` is 0 (`core/engine.ts:67`).
- *Incremental.* The cache records that an execution passed, not why: a finding that passed under
  a waiver goes on passing after the waiver has expired, until its file changes
  (`incremental/plan.ts:20`; `src/README.md:180` says that decisions "are never replayed from
  cache").  `PassMeansVetted` excuses what a waiver has ever covered.
- *Store.* `createBackup` takes the absence of any file for the absence of the whole source
  (`enterprise/backup.ts:11`): when the temporary file of a document is renamed between listing and
  copying, the backup ends there and is reported as created.  The model calls it "cut short", and
  `PublishedWhole` promises completeness only of the others.  `restoreBackup` removes the store
  first.  A publication that is abandoned between manifest and signature makes every listing fail.
- *Administration.* `decideWaiver` does not look at the status of the waiver.  Of two requests of
  one kind that overlap, the one that read first can write last and drop the other's change, or
  what was written by hand.
- *Supply chain.* Files are checked one by one, so a snapshot may mix two states of the
  repository; assets can be replaced after they were hashed; imported reports are parsed from one
  read and hashed from another; a missing database means no advisories unless operation is
  offline; entries of a package from several lock files are merged, so that the dev flag, source
  and license of one hide those of the others; of advisories with one identifier the last counts.
  Lock files that cannot be read are left out silently, by the scanner
  (`dependencies/discover.ts:42-44`, `:343`) as by a diff (`dependencies/diff.ts:25-28`), whose
  packages then look removed or added; the result is `ok` all the same, and `ResultComplete` is about
  the lock files that could be read.  In the list of unresolved components those without
  a purl share one place when name and version agree, and those of an unsupported ecosystem when the
  purl agrees; the last is kept (`supply-chain/adapters.ts:117`, `:130`).
- *Consumers.* An outage of PostgreSQL is thrown out of `reportConfiguredConsumers` and ends the
  execution unaudited, where `src/docs/CRA_REPORTING_CONTRACT.md` says an outage is audited; a
  changed adapter strands the backlog or posts it, as the queue is listed by the consumer's name
  only (`delivery.ts:102`); a consumer named `cra` with another adapter shares the queue of the
  legacy reporting.  No document promises otherwise; `ConsumersApart` allows both, and says that
  nothing else mixes adapters.
- *Migrations.* A migrator that repeats migration 003 after 004 has been applied fails when the
  old queue has rows; a repetition succeeds.  Reports that the earlier release queues after the
  copy stay behind (history `late`).  The two queues are not kept in step: a report that the
  earlier release delivers after the copy, in an execution that had begun before or that still
  runs the old code, is pending in the new queue and is posted a second time (history `astray`).
  `UpgradeKeepsReports` says of those only that the attempt is known to the old queue.

## 7. Conventions and bounds

`X.tla` is a component, `MCX.tla` gives it constants for TLC, `X_<run>.cfg` is a run,
`XProofs.tla` holds its theorems (`RunnerProofs.tla` those of the
lease and the server; the proofs about `SchemaMigration` and `ConsumerReport` are with those of the
components beside them).  Operators marked "Mutant of" are wrong variants of the
definition that follows them; each shows that a property notices such a mistake, and none
is part of a specification.

| Bound | Module | Why it is enough |
|---|---|---|
| `Horizon` (clock) | `ConsumerDelivery` | one tick passes the retry delay between two attempts |
| `Horizon` (clock) | `RunnerLease` | five ticks let a record go stale and the next one be refreshed |
| `Horizon` (clock) | `ScanEngine` | a document and a waiver can each begin and end between two steps |
| `Horizon` (clock) | `SupplyChain` | a database outlives its age before and after it is loaded |
| `MaxFaults` | `ConsumerDelivery` | one fault in each position against another execution |
| `MaxRestarts` | `RunnerServer` | a crash and the recovery after it |
| `MaxEvents`, `MaxEdits` | `AuditChain` | two writers fork at two events; two edits rewrite an event and link its successor anew |
| `MaxCommits` | `ScanPipeline` | a commit the cache names, one that failed, one after it |
| `MaxOps`, `MaxDamage` | `ComplianceStore` | a backup and its restore; one altered document tells verified from unverified |
| `MaxOps`, `MaxFailures` | `Administration` | two requests overlap and a third follows; one fails half-way |
| `MaxRuns` | `SchemaMigration` | two migrators overlap, or one follows an interrupted one |
| `MaxRuns` | `ConsumerReport` | a backlog of one configuration meets the next |
| `MaxWrites`, `MaxReplaced` | `SupplyChain` | a file is written while and after it is read; a report before and between its two reads |

State constraints (`Bounds`, `NotLimited`) restrict how many things coincide and are explained
where they are defined.  Symmetry is used only for safety.  Deadlock is not checked where the
system really stops: when the events, the restarts, the requests or the clock of a run are used
up and every process has ended.

## 8. Not modelled

- Scanners that match patterns (`secrets`, `sast`, `git`, `automotive`), reading of SARIF by
  `external-sast`, parsers of lock files, SBOM, report and attestation formats: sequential text
  processing without state, better tested than checked.
- Field by field validation (`config/load.ts`, `parseManifest`, contracts): one condition where a
  module depends on it, otherwise nothing to interleave.
- Sessions and tokens of the web console and of the compliance server, HTTP routes and static
  files; the role of a request is modelled, how a principal is known is not.
- Git providers, hooks, the OSV client and diagnostics: one call of an external service each.
- Branches and merges in incremental scanning, an explicit `--base`, monorepo discovery.
- `applyRetention`, which removes old backups by modification time.
- Two installations of the managed runner at work at the same time (a server that closes while
  handlers of vanished clients still run, hazard `execution/runner-server.ts:207`).
- Rendering in `src/ui`, packaging, deployment and scripts.
