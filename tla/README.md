# DevLens API: models, checks and proofs

DevLens reads repositories from GitHub into PostgreSQL, computes delivery
metrics from them, and derives insights. This directory holds TLA+ models of
`src/backend`, the TLC runs that check them, and TLAPS proofs. Models follow the
code statement by statement where the order of steps of several actors matters,
and as operators where an algorithm does.

## 1. Inventory

| Component (`src/backend/internal`) | State it keeps | What is hard | What makes it correct | Module |
|---|---|---|---|---|
| `syncjob` | `sync_jobs`, `sync_checkpoints`, `repositories.initial_sync_status`, `last_synced_at`; the worker's batch and goroutines | requests race with goroutines; timeouts and stops; resume from checkpoints | one goroutine per job, prompt cancellation, verdicts not overwritten, every job settles, nothing between two runs is missed | `SyncJobs`, `SyncPages` |
| `githubwebhook` | `webhook_deliveries`, projections, attempts | duplicates, reordering, crash after commit, retries | each delivery applied once in effect, none lost | `Webhooks` |
| `githubconnection` | installations, their repositories, links | GitHub changes between its answer and the write; disconnect against enqueue | no active repository and no job without a connection | `GithubConnection` |
| `insightbus`, `metricsbus` | JetStream streams, consumers, dead letters | redelivery, deduplication, lost acknowledgements, subscriptions that fail, stops that delete the consumer | every message ends, acknowledged ones were handled | `EventBus` |
| `metrics`, `insights` | `metrics_daily`, `insight_statuses` | overlapping and late calculations; averages of averages; decisions of users against refreshes | what is shown is what is stored; a decision stands | `Pipeline`, `Metrics`, `InsightRules` |
| `auth` | sessions and their tokens | two refreshes with one token | a token is exchanged at most once | `Sessions`, `SessionTokens` |
| `organizationmember`, `authorization` | members and roles | guards on a role read before | an organization keeps an owner | `Members` |
| `orgrulesettings`, `metricdefinition`, part of `config` | overrides over defaults | read, merge, write without a transaction; defaults that change | rules can be calculated with; an update is not lost | `Settings` |
| `pullrequest`, the upserts of `postgres/sqlcgen` | rows of a pull request | snapshots in any order | the row does not depend on the order | `PullRequests` |
| `httpapi` listings | none | pages and totals of a list that moves | all pages are the list | `Listings` |
| `githubclient`, `githubapp` | retries, cached tokens, the quota | several syncs on one quota; waits longer than a token | the quota is not exhausted, tokens are good | `GithubClient` |
| `httpapi/middleware` | windows of addresses | the edges of windows | twice the limit at most, no one else's requests count | `RateLimiter` |
| `datalifecycle`, `orgretention`, `cmd/datacleanup` | what is old enough to go, in two databases | ends half-way; calculations insert beside it; one database only accepts, and removes later | nothing left behind that is not to be removed, nothing early | `Lifecycle`, `Webhooks`, `GithubConnection` |
| `app` | the process | its stop waits for no worker | nothing half-done is lost for ever | `SyncJobs`, `Pipeline` |
| the rest | single rows, or none | - | - | not modelled (section 9) |

`PROJECT.json` lists every component with its files and status, and under
`hazards` what we found hard to test, each at its line.

## 2. Structure and plan

- `SyncJobs` (`MCSyncJobs`, proofs in `SyncJobs_proofs`) and `SyncPages`
  (`MCSyncPages`, `SyncPages_proofs`): the core, at two grains.
- `Webhooks` extends `GithubConnection`: deliveries change the connection users change
  (`Webhooks_proofs`).
- `Pipeline` extends `EventBus`: what a sync sets off, over both buses or in line
  (`Pipeline_proofs`).
- `Members` extends `Sessions`, which implements the abstract `SessionTokens`
  (`Members_proofs`).
- `Calculations` puts eight parts side by side that share no state: `Metrics`,
  `InsightRules` (which extends it), `Settings`, `PullRequests`, `Listings`,
  `GithubClient`, `RateLimiter`, `Lifecycle`. The variable `part` says which one a
  behaviour is of; one run then checks all of them. Proofs: `Services_proofs`
  (`Settings`, `Lifecycle`, `GithubClient`, `RateLimiter`, `Listings`) and `Rows_proofs`
  (`Metrics`, `InsightRules`, `PullRequests`), which share `Folds_proofs`: what sums and
  other folds of the community modules compute.

Theorems and proofs are kept apart from the modules they are about, with one lemma for each
action. No module uses a RECURSIVE operator. Section 9 lists what is proved and
what is left to TLC.

## 3. `SyncJobs`

### State and code

| Variable | Code |
|---|---|
| `job` | table `sync_jobs`: status, repository, idempotency key; an id stands for `created_at` too |
| `repo` | table `repositories`: whether `validateRepositoryTarget` accepts it, and `initial_sync_status` |
| `worker` | `processOnce`: idle between two batches, or the listed ids still to start |
| `runner` | where each goroutine of the batch stands in `ProcessPending` and `run` |
| `client` | where each API request stands between two of its statements |
| `published` | jobs whose `repository.sync.completed` event is out |
| `orphaned`, `late` | history: jobs left running by a fault; units persisted while canceled |
| `budget` | what remains of the bounds `MaxRetries` and `MaxFaults` |

Every statement that commits on its own is an action. `Enqueue`, `Retry` and
`Cancel` are a check, a write to `sync_jobs` and a write to `repositories`; a
request may stop between any two (`Abandon`). The worker lists (`ListPendingIDs`),
starts goroutines while the semaphore has room (`StartJob`) and waits for all of
them (`BatchDone`). A goroutine follows `run()` line by line: its five
cancellation checks, metadata, four resources of up to `MaxPages` units, event,
verdict. A unit is what lies between two checks of a page loop: a page, or a
pull request of a page. `StepFails` is an error that goes to `failJob`;
`LoseRunner` is an error that is only returned, or the job timeout, whose dead
context `failJob` writes with; `Restart` is the end of the process.

A job's mode and checkpoints, its percentage and its messages are left out: no
guard of this module's code reads them. Metadata and upserts are one step each.

### Assumptions

One process runs the worker (`docker-compose.yml`); the listing is not exclusive,
and two processes would run one job twice. Ids are inserted in the order of
`created_at`. The database is serializable statement by statement, as single-row
UPDATEs by primary key are.

### Runs

| Run | Bounds | Shows |
|---|---|---|
| `SyncJobs` | 2 requests, 2 goroutines, 2 jobs of one repository, 1 retry, no fault | `TypeOK`, `NoDoubleRun`, `CancelIsPrompt`, `CompletedOnlyChangedByRequest` |
| `SyncJobsLive` | 1 client, with or without a key, 1 goroutine, LIMIT 1, 2 jobs, 1 retry, 1 fault | `RunningHasRunner`, `CompletedWasPublished`, `EveryJobSettles` |
| `SyncJobsExclusion` | two jobs, no retry | the violation of `OneActivePerRepository` |
| `SyncJobsCancel` | one request, one goroutine | the violation of `CancelIsFinal` |

Two jobs, two requests and two goroutines are the least with which each hazard
can happen: a job listed twice, a request acting on a stale status, two active
jobs of one repository, a job behind the LIMIT. One repository is enough: jobs of
different repositories meet only in the batch, where the repository is not looked
at. The proofs remove all of these bounds for the safety properties.

`SyncJobsLive` assumes weak fairness of the worker's loop and of its goroutines
(`Run` ticks for ever, the Go scheduler runs goroutines, and every call they make
has a deadline: the job timeout). Requests, webhooks, retries and faults are not
fair. Retries are bounded: without the bound, jobs that keep failing and being
retried stay in front of younger ones for ever when they fill the LIMIT.

### What the violations say

- `OneActivePerRepository`: the roadmap (`docs/03-backend-roadmap.md:202`) counts on
  repository-scoped mutual exclusion. A webhook inserts a job without a look at the
  jobs there are, and `Enqueue` looks in a statement of its own; two jobs of one
  repository then run side by side.
- `CancelIsFinal`: `docs/openapi.yaml:947` offers to cancel a pending or running job.
  `MarkRunning`, `MarkFailed` and `Complete` do not look at the status they
  overwrite, so a cancellation accepted (202) between a check and such a write is
  lost; inside a page loop the cancellation itself is stored as a failure.

A repeated idempotency key is answered 409 while its first job is active
(`EnqueueConflict`), because `Enqueue` asks for an active job first;
`docs/06-api-design.md:228` counts the operation as idempotent, and no line says what
the repetition gets in that case, so no run claims it.

### Proofs

`SyncJobs_proofs` proves, for all values of the constants, each safety property
the passing runs check. From `NoneAssumption` and `BoundsAssumption` only, the
invariant `IInv` is shown to hold initially and to be kept by each action. Its
parts and why they are needed:

- `RunnerHasJob`, `RowsExist`: what a goroutine or a request holds exists;
- `BatchApart`: nothing runs between two batches, and a listed job is not in hand.
  With `StartJob` this gives `NoDoubleRun`;
- `InHandOpen`: a job listed or in hand is not completed, which gives
  `CompletedOnlyChangedByRequest`;
- `NotStarted`: a job before `MarkRunning` or after `MarkFailed` is not running.
  With it, leaving `run()` at those places keeps `RunningHasRunner`;
- `PublishedFirst`: a goroutine about to complete has published;
- `LateCounts`: the count is at most 1 and is 0 while a unit is in flight, which
  gives `CancelIsPrompt`.

The requests change jobs only through `SetStatus` and the insert; their cases share
the lemmas `RequestFrame`, `OverwriteFrame` and `InsertFrame`. A goroutine's cases
share `MoveFrame`, `EndFrame` and `VerdictFrame`. `IInv` was checked by TLC before it
was proved.

## 4. `SyncPages`

### State and code

`SyncJobs` treats a unit of work as a number; `SyncPages` has what it copies, for one
repository. Its jobs follow the same statuses with fewer places to stop at.

| Variable | Code |
|---|---|
| `updated` | GitHub: when a pull request, commit, workflow run, deployment or review changed last |
| `job` | `sync_jobs` with its `sync_checkpoints`: `job/mode`, `job/from`, a page for each resource, a page for each `reviews/pull_n` and `changed_files/pull_n` |
| `lastSynced` | `repositories.last_synced_at` |
| `stored`, `files` | the rows of the database: the version of each item, and the pages of file changes of each pull request |
| `runner` | where each goroutine is in `run()` and its page loops, with what it has fetched and not stored |
| `missed`, `cut` | history: changes no run had to see; lists a failed run left half fetched |

`Enqueue`, then `PersistMode` and `PersistFrom`, are separate statements after which
the worker may take the job. `Start` computes the cutoff. Pull requests go through
`ListPulls`, `GetPull`, `FetchReview` for each page, `UpsertBundle`, `FetchFiles` for
each page and `ReplaceFiles`; the other resources store a page at a time
(`SyncEvents`). `MoveCheckpoint` ends a page. `Fail` is any error, at any place.
GitHub is external: listings are cut from the newest item on, so an item created
between two pages pushes the others back. `Change`, `PushCommit` (a commit has the
date of its author, which may lie before its push) and `SubmitReview` happen at any time.

Left out: cancellation (see `SyncJobs`), throttling, progress, repeated idempotency
keys, deployments that have no status yet (the loop skips them), deletions on GitHub,
a reopened connection that changes the repository, and the rows that webhook
projections write beside the runs.

### What is claimed

`DueIsStored` says when the database may be trusted. A change is *due* when
`last_synced_at` is later than it and no excuse applies. The excuses are what the
code really gives up, and are spelled out in `Due` and `Unseen`:

- it came after the first start of a job and before the end of the run that completed
  that job: the page may have been read before;
- a job that had started before it is still unfinished;
- an explicit `from` passed it over;
- it is a commit pushed later than its date says.

`WholeUnlessCut` says the same of the reviews and files of a pull request, with one
more excuse: a run failed between two pages of that very list.

### Runs

| Run | Bounds | Shows |
|---|---|---|
| `SyncPages` | 1 pull request with up to 2 reviews and 2 pages of files, 1 commit, 2 jobs, 1 goroutine, 1 failure | `TypeOK`, `DueIsStored`, `WholeUnlessCut` |
| `SyncPagesOverlap` | 2 pull requests on 2 pages, 2 jobs, 2 goroutines, 1 failure | `DueIsStored` |
| `SyncPagesResume` | 1 job that fails and is retried | the violation of `ResumedSyncIsWhole` |

Two pages are the least that has an item between checkpoints and one that a newer item
can push back; two jobs the least for a cutoff that is not the beginning of time; two
goroutines the least for overlapping runs, and `SYNC_WORKER_CONCURRENCY` is 2 by
default. The clock has two values: a job, a change at the same instant and a later job
fit in, which is where "not before the cutoff" differs from "after". Workflow runs and
deployments are empty in all runs; they are stored by the same action as commits.

`ResumedSyncIsWhole`: `README.md:192` says a sync persists reviews and file changes,
`docs/05-database-design.dbml:311` that a checkpoint lets it resume. `syncReviews` and
`syncPullRequestFiles` keep what they fetched in memory and move their checkpoint at
once, so a retried job has the later pages only; the files then replace all files there
were. The job completes, `last_synced_at` moves past the pull request, and later
incremental runs skip it until it changes.

### Proofs

`SyncPages_proofs` proves `TypeOK`, `DueIsStored` and `WholeUnlessCut` from
`NoneAssumption`, `BoundsAssumption` and `RequestsAssumption`, for any number of jobs,
goroutines, items and pages. The inductive invariant has three layers:

- what a state is made of: a job is run by one goroutine, which found its mode and "from"
  (`RunsInv`); nothing is later than the clock (`ClockInv`); items and reviews exist
  without gaps (`LinedUp`); a goroutine holds the pull request it fetched since its job
  began (`AtHand`);
- `RunCovers`, `JobCovers`, `SyncedCovers`: what a run owes is stored or ahead of it
  (`Awaited`, or in its hands), what an unfinished job owes is stored or on a page it will
  resume from, what completed runs owed is stored;
- the same of reviews and of files, which go by lists that a job resumes
  (`PartsInv`, `FilesAtHand`, `RunCoversDetails` and its two companions).

Three facts carry the argument. An item never moves to an earlier page: new items
come before it (`PageOf` grows), so a checkpoint moves only past pages of which nothing
owed is unstored. The cutoff of an incremental run is `last_synced_at`, so that what
it passes over is covered by `SyncedCovers`. And where two runs overlap, the one that
writes an older version over a newer one started before the change and is `Excused`
until it has completed, when it is the next incremental run's to see. The three properties
are not inductive by themselves: `Due` speaks of `last_synced_at` alone, and nothing in it
says what a run in the middle of a page, or a job between two runs, still has to do. TLC
checked the layers for one goroutine, for two whose runs overlap, and by simulation for
three jobs, before they were proved.

## 5. `GithubConnection` and `Webhooks`

### State and code

| Variable | Code |
|---|---|
| `gh`, `sent` | GitHub: the installation, what it covers, and the deliveries that told of it |
| `inst`, `gir`, `repo` | `github_installations`, `github_installation_repositories` with `linked_repository_id`, `repositories.is_active` |
| `queued` | how many jobs of a repository are pending or running |
| `delivery` | `webhook_deliveries`: status, attempts, payload, what it refers to |
| `deployed` | the row a projection last wrote, with the date it goes by |
| `proc`, `budget` | where each goroutine stands and what it has read; the bounds |
| `chosen`, `raced`, `stale`, `lost` | history, for the excuses below |

A request is a goroutine; each call to GitHub and each transaction is an action, so
that GitHub, other requests, the purge and the retry worker come between. GitHub sends
deliveries late, out of order and again. A delivery is stored with its job, projected,
applied to the installation, marked; a failure schedules a retry, the last is a dead letter.

What is left out: the status `permission_missing`, more than one installation of an
organization, more than twenty active jobs of a repository (they are listed in pages
while being canceled). A listing of GitHub is one step, all its pages together. One
kind of event, deployments, stands for the five that are projected: it has what is
hard in them, a status that depends on a date.

### Run

`Webhooks`: one repository, two goroutines and the retry worker (which only retries),
two requests of users, two deliveries, two attempts, one fault. Initially there is no
installation, or one that is connected and selected. Each property says what its
excuse is; the excuses are behaviours of the code a reader should know of:

- `DisconnectedIsInactive`: but for a job enqueued, or a repository selected or
  patched, by a request that was under way;
- `EventAppliedOrRetried`: but for a goroutine that ended, or a payload that was
  purged, in between (the purge looks at the age of a delivery, not at whether it is
  done); a purged delivery that is sent again while its first request is at it too;
- `SettledMatchesGithub`: but for rows whose writer was told something older.

The purge of an installation that is connected again in between is modelled
(`DeleteInstallation`) and has no property. That every failed delivery ends is not
checked: with fairness, the run is beyond TLC.

### Proofs

`Webhooks_proofs` proves all eight properties of the run, for any repositories,
goroutines, requests, deliveries and faults. The only assumptions are those the modules
state: `NoConnectionRow` and `NoDeliveryRow` say that the absence of a row is no row.

- `Placed`: where a goroutine can be with what it holds, by the kind of its delivery or
  request;
- `ConnInv`, for `DisconnectedIsInactive` and `TokenNeedsSelection`: what a goroutine is
  about to write to a disconnected installation is of a repository that is excused
  (`GoesOn`). The property says nothing of it, and a write would break it;
- `DeliveryInv`, for `EventAppliedOrRetried`, `SettledDeliveryIsFinal` and
  `JobOncePerDelivery`: a delivery that was not lost is in one goroutine's hands at most,
  the worker's when it failed, a request's when it has no verdict yet;
- `SettleInv`, for `SettledMatchesGithub`: a row differs from GitHub's only while an event
  that tells of the change is neither applied nor written by a goroutine that has it.

## 6. `EventBus` and `Pipeline`

`EventBus` is what the code asks of JetStream, which is external, for either bus:
publishing with a message id that the stream deduplicates, deliveries, expiry of the
acknowledgement wait, `maxDeliver`, dead letters. Deduplication may happen whenever the
id is known already: the window is time. Acknowledgements and publications may be lost.
`consumer` is, for each bus, the durable consumer JetStream keeps (`durable`: none, made by
the subscription that has it, or left by an earlier one) and the subscription of
`Consumer.Run` (`sub`: starting, on, failed, drained):

- `Subscribe`: `js.Subscribe` with a durable name and without `Bind` attaches to the consumer
  there is, or makes one. `DeliverNew`: it has nothing that was published before it was made;
- `SubscribeFails`: `App.Run` logs the error and goes on (`app/app.go:404`, `:411`). The bus
  is open and published to, and nobody handles its messages until the process ends;
- `Drain` (`Stop` in `Pipeline`): told to stop, `Run` drains and unsubscribes. The client
  deletes a consumer that its own subscription has made, unless `App.close`, which does not
  wait for `Run`, has closed the connection first. Everything not acknowledged is lost with
  it, and so is what is published until the next `Subscribe`. The handler finishes the
  message it is at;
- `ConsumersStop` (`Restart`): the end of the process, after a signal or without one. A
  consumer that was not deleted keeps its messages, and no later subscription deletes it,
  as it was made by another one.

`Pipeline` adds what is published and what the handlers do, or the caller in their
stead when a bus is not open: the daily metrics and the insights.

Data are versions; days are those before the cutoff of an incremental sync and those
after. The first completed run is full. One insight stands for all, each of which has a
row of its own. Rules reopen either what was reviewed or what was dismissed.

`Pipeline` has two jobs, at most two runs, one open bus, two deliveries of a message,
two faults (of which a stop is one, and a subscription that fails), two decisions of a
user or changes of a finding, three of all these together. Fairness: JetStream delivers
what is due to a subscription there is; the client calls `handleMessage` with it, whose
calls end (the clients of the databases have deadlines); `Run` subscribes when the
process starts, or fails to; and a process that was told to stop ends
(`ShutdownTimeout`) and is started again. Syncs, users, faults, signals and restarts
without one are not fair: that a bus has a subscription is not assumed.

- `EveryMessageSettles` (under fairness): a message is acknowledged, delivered for the last
  time, or lost with its durable consumer, unless the subscription of its bus has failed.
  That messages are lost so is what the code does, and the property counts it as an end: it
  says that nothing is kept waiting, beside a subscription that lives, for ever.
- `AckedWasHandled`: what is acknowledged was handled, or is a dead letter. One excuse: a
  dead letter carries the id of its original into the same stream, which drops it as a
  duplicate; then nothing is left of it, where `docs/03-backend-roadmap.md:211` counts on
  a dead-letter subject.
- `MetricsCoverSync`: when all is quiet, metrics cover what completed syncs stored, but
  for the days of a dropped event, a dead letter, two calculations at once, or an event
  that was lost with the durable consumer or published while there was none (`behind`).
  A new version rolled out while an event waits may thus cost the metrics of its days,
  until a later calculation covers them.
- `VerdictHolds`: an insight a user decided about is open again only for something
  severe found later, unless a refresh had read the row before the decision.

`Pipeline_proofs` proves the types, `AckedWasHandled`, `MetricsCoverSync` and `VerdictHolds`
for any number of jobs, runs, deliveries, faults and decisions, from `PipelineAssumption`
(jobs are finitely many, none of them a bus) and `BusAssumption`. The
invariants they need:

- `HandsMade`, `HandsOnce`, `FailedWasLast`: what the client holds is a delivery JetStream
  made, once, and what failed for good was the last one;
- `MessagesCounted`: there are no more messages on a bus than runs, those still to be
  published included. Only so is the length of a stream within its type;
- `Covered`: the metrics of a day have the version a completed sync stored, or a message
  that carries it (`Carries`) has a delivery to come or in the handler's hands, whose
  calculation has seen the version, or its day is `behind`. With `AloneIsNewest`, a
  calculation beside which there was no other never writes something older.
  `MetricsCoverSync` only speaks of a quiet system; this is what holds until it is
  quiet;
- `DecisionInv`: since the last decision the row is as decided, or open by the rules, and so
  is what a refresh is about to write.

## 7. `Sessions`, `SessionTokens` and `Members`

`SessionTokens` says what refresh tokens promise; `Sessions` is the code, a statement
an action, and `Members` composes it with the requests that change members, which all
begin with the authentication of a session. Tokens are numbered as they are issued.

- `Accounts`: two users, two requests at once, three pairs of tokens of one session:
  `ImplementsSessionTokens` (the abstract specification as a property) and `OwnerStays`.
- `Members`: the violation of `NeverOwnerless`. `organizationmember/repository.go:110`
  and `:150` lock the owners' rows "so a concurrent demotion/removal can't race past
  the last-owner check". Whether to lock depends on a role read before: of a member
  promoted in between the rows are not counted. `OwnerStays` excuses exactly that.

A request whose access token alone expired is one that is not made. A removed member
gets a new row only when no request about the old one is under way.

`Members_proofs` proves `TypeOK`, `OwnerStays` and `ImplementsSessionTokens` for any users,
requests and tokens. The refinement goes step by step: every action of `Members` is, for
each user, a step of `SessionTokens` or leaves its variables alone. It needs
`RequestHasToken` (a rotation presents a token that was issued) and `SpentBefore` (a token
that was exchanged is older than the valid one), without which an exchange in `Sessions`
need not be one `SessionTokens` allows.

## 8. `Calculations`

Each part is checked in states it can be in by itself; the variables of the others
stay as they are. There is no common type invariant: a wrong type ends TLC's
evaluation of the properties, which use every field. Requests and bounds run out, so
the system may stop. Writers, callers and organizations are interchangeable (symmetry).

| Part | State and code | Bounds | Properties |
|---|---|---|---|
| `Metrics` | what is stored of pull requests, reviews, deployments; `metrics_daily`; `CalculateRepositoryMetrics` at one of its statements, with changes between any two. Answers are operators on rows | 3 pull requests, of which one varies, 3 days, 3 people of which one is a bot, 2 calculations, 1 change | `RowsAreRaw`, `AnswersAreRaw` |
| `InsightRules` | the six rules as operators, `DeduplicateInsights` as a fold over candidates in either order | the same, reviews with any times, deployments of two environments in three spellings, 3 configurations | `WorstOfEachEntity`, `ReportedReachesThreshold` |
| `Settings` | overrides, defaults of the process, updates between their read and their write, restarts | 2 writers, 3 updates, 1 restart, 4 environments | `EffectiveUsable`, `UpdateKept` |
| `PullRequests` | GitHub's versions of one pull request, its row and its reviews' rows; events and syncs of any version in any order | 2 reviews, 4 versions, 3 stores | `SnapshotsConverge`, `TimelineInOrder` |
| `Listings` | a list, and a client that reads it page by page; a kind of listing says whether its order is total and its total a second read | 3 items, pages of 1 and 2, 1 change, either order and filter | `PagesCover` |
| `GithubClient` | the quota (external), the cached token, each caller's call, attempt and wait | 2 callers, 1 retry, a quota of 9, windows of 4, 5 ticks | `QuotaSpared`, `TokenOutlivesCall` |
| `RateLimiter` | the windows of addresses; requests that have read the clock and wait for the lock | 2 addresses, 2 requests at once and 5 in all, a limit of 2, windows of 2, 4 instants | `WindowLimit` |
| `Lifecycle` | organizations, what ClickHouse has of them and the mutations it has yet to apply (`pending`), calculations under way, the command | 2 organizations with one repository and pull request each, 2 tables for the seven, 3 days, 3 calculations and cleanups in all | `PurgedEverywhere` |

Averages are kept in units of `Scale`, a multiple of every number of pull requests, which
makes those of pull requests exact. Three pull requests are the least for which an
average of averages differs from the average; a change between two statements needs one change; a page that moves needs
an item before and one after it; two writers are the least that overlap; a stale
snapshot and a repetition fit in three stores.

What the code does that the properties have to allow for:

- Nothing stores `review_requested_at` but the seeds: review waits have no samples in
  production, and a review queue counts the wait of a pull request from the range's start.
- A review counts in the day its pull request was created, which an incremental
  calculation may not reach: that row stays old until a full sync. So does every row when
  ClickHouse fails, as it is written first.
- An answer about the deployments of an environment folds its case (`EqualFold`), the rule
  of insights groups by the name as it is spelled: `AnswersAreRaw` adds up environments under
  one of their spellings each.
- The failure rate of insights counts every deployment, that of metrics those that ended.
- A bottleneck is reported with fewer merges than the minimum when one pull request is stale.
- A pull request that is opened again stays closed in storage; the upsert cannot tell it
  from an older snapshot. A sync stores for every review the time of the first one
  that is not before its cutoff.
- An organization's threshold may exceed that of high severity, which an environment's
  may not; overrides are not validated again after a change of defaults.
- The rate limiter runs before the principal is known: its key is always an address. A
  request reads the clock before it takes the lock: one that waited there counts by a time
  that has passed, so that `WindowLimit` is about the requests that did not come late.
- Lists ordered by a time or severity alone may repeat or omit items of one key.
- The rows of both settings reference their organization without `ON DELETE`
  (migrations 000021 and 000022): from the day one expired organization has any,
  every cleanup has its analytics purged, fails to delete, and never comes to the retention
  of raw data. `DeleteOrganizations` does that; `PurgedEverywhere` holds nevertheless.
- ClickHouse removes by mutations, which the command only submits
  (`datalifecycle/service.go:136`, `docs/07-backend-operations.md:119`). Organizations go
  while their analytics are still there, and no later cleanup looks for those, as it lists
  organizations of PostgreSQL. `ApplyMutation` removes a row whenever ClickHouse comes to it,
  after days or never, by the clock of that moment. So `PurgedEverywhere` says that whatever
  is left of a removed organization is either subject to a mutation that was accepted or was
  inserted beside the cleanup, and that no mutation, however late, removes a row that is not
  due: an organization that changes its days before a mutation is applied is excused.
- `QuotaSpared` assumes that no failed sync is started again before the reset, and that
  the threshold and the quota are both at least what all syncs at once may still send: a
  listing and a detail with all their attempts each.

### Proofs

All properties of the parts are proved. An invariant of a part says nothing of the
others: `Next` leaves their variables alone.

- `Services_proofs`, organizations. `UpdateKept` needs that what an update has read is what was
  accepted, but for sections that others have named since (`ReadIsKept`); `EffectiveUsable`
  that what is stored was validated with the defaults (`UsableInv`). From
  `SettingsAssumption`: a configuration the process boots with has a value for every
  threshold, definitions are of weights, and some configuration is valid.
  `PurgedEverywhere` needs to know what a cleanup has decided before (`PurgesTheDead`,
  `ExpiresTheLiving`), what it has been through (`NothingLeftBehind`), and that every
  mutation under way is of rows that are due when it is applied (`MutationsAreDue`): of an
  organization deleted long enough ago, or of the days an organization wants or wanted.
- `Services_proofs`, calls. `TokenOutlivesCall`: a retry has the token of the first attempt, which
  had more than the margin left (`GoodWhenTaken`). `QuotaSpared` counts, as pairs of a
  sync and a number, the calls that may still come before every sync is throttled, and
  shows that what is left of the quota is enough for them (`QuotaLasts`). The attempt to
  prove it showed that it does not hold of quotas smaller than that sum, which the
  property now says. `DoublingAssumption` (2^n is a number) is a fact of arithmetic the
  provers do not have.
  `WindowLimit`: an entry counts what its window let through (`EntryCounts`), and windows
  follow each other (`EntriesFit`, `WindowsFollow`): of what lies within the time of one
  window, everything is of two consecutive ones. An entry may be removed and written anew
  by a request with an old time; `prune` waits a whole window more, which is why the
  windows on either side of a removed one still lie apart.
- `Services_proofs`, listings. `PagesCover`: an item that was there throughout has so many
  items before it that it is on a page that was not read, or was given (`PlacesHold`); what
  comes to be listed only moves it to later pages. When nothing came either, what was given
  is no longer ahead, and is as many items as the pages that were read have places
  (`GivenIsCovered`). `ListingsAssumption`: the set of items is finite, items and keys are numbers.
- `Rows_proofs`, rows. `RowsAreRaw`: a calculation under way has found, of each day that did not
  change since it began, what each statement up to now finds today (`Calculating`), and a
  change touches the days it names only. `SnapshotsConverge`: `PullFollows` and
  `ReviewFollows` say that a row has the least or greatest of all snapshots as a member of
  them and a bound, which an upsert keeps; that a merged pull request is never opened again
  (`Versions`) is needed for a sync that puts two of its versions together.
- `Rows_proofs`, insights. `WorstOfEachEntity`: of what `DeduplicateInsights` has seen, an
  entity keeps one insight, no other of it is worse, and none is lost (`KeptOf`), which
  holds of each beginning of the list and is kept by `Keep`. The insights of each rule have
  a type of their own, so that those of one entity come from one rule.
  `ReportedReachesThreshold`: the share of a person is his part of all reviews, and two
  shares above a half are more than all of them. `InsightRulesAssumption` is what
  `normalizeRuleConfig` leaves of a configuration.
- `Rows_proofs`, the timeline. The events of an answer are ordered strictly and wholly by
  time, kind and listed review, so that their numbers of predecessors are the places 1 to
  their number (`PlacesAreInOrder`). That the review rows that are there are those of
  versions of the pull request (`ReviewsThere`) gives each its start and submission.
- `Rows_proofs`, answers. `AnswersAreRaw` follows from the rows of a range being what is
  stored of its days (`Calculated`, which for this has their averages as well): the days
  of a range are its parts, and so are the environments of its deployments, each under one
  of its spellings (`NamesAre`), the files of
  its pull requests and the people who reviewed it, so that the laws of sums over parts
  apply (`AverageOfParts`, `TotalOfParts`, `CountsByAre`). An average weighed by its number
  of samples is exact because `Scale` is a multiple of every number of pull requests; that
  the greatest share of a reviewer is not rounded to nothing, because there are no more
  people than `Scale` (`TopShare`). Both are of the unit averages and shares are kept in, for
  the floating-point numbers of the code, and are part of `MetricsAssumption`. The code
  asks for no review, and the invariant has the one a seed may have asked for.

The folds of the community modules, of which these parts are made, are defined by
recursive functions on the subsets of a set. The library has no usable induction for them:
its theorems take an operator as a parameter. `Folds_proofs` has the induction as a
lemma about sets instead: a set of subsets that has the empty one, and with each its
extension by one element, has all of them, as otherwise there were a smallest one it has
not (`InductionBy`). From it follow that the recursive functions exist
(`FollowsEverywhere`) and the laws of sums: of one element more (`SumWith`), of equal, smaller
and multiplied terms (`SumsAgree`, `SumsCompare`, `SumsTimes`), of the parts of a set
(`PartsAddUp`, `PartsCountUp`).

## 9. Only model-checked, and not modelled

Proved for all values of the constants are the safety properties of every passing run,
the refinement of `SessionTokens`, and the action properties. Only model-checked, within
the bounds above, are:

- `EveryJobSettles` and `EveryMessageSettles`: liveness under fairness, which the provers
  installed cannot do.

The constants of the proofs are bound by the named ASSUMEs alone, which TLC evaluates on
the values of the runs.

Not modelled: two processes with a worker each (`docker-compose.yml` runs one); the
pool of database connections (`Retry` takes a second one while it holds its first);
signatures, passwords and JWTs; decoding of requests and formatting of answers; the
filters of listings other than one; schema set-up; counters, spans and logs; the audit
log and the profile of a user, a single INSERT and SELECT; the other columns of
repositories and organizations, which one statement writes; seeds, load tests and
migrations, which are commands run by hand; the tests themselves.
