# JHEO in TLA+

JHEO audits web sites, generates content and publishes it.  A Fastify API and
its BullMQ workers run in one Node process; Postgres (through Prisma) and Redis
(BullMQ) survive it; a React client polls the API.  This directory models what in
JHEO depends on the order in which requests, workers, retries, crashes,
timeouts and answers happen, and the algorithms whose result many inputs
decide.  TLC checks the models on small instances; TLAPS proves the central
results for every instance.

## Inventory

Paths without a prefix are under `src/apps/api/src/`; `core/` is
`src/packages/core/src/`, `web/` is `src/apps/web/src/`.

| Component | State | Operations | What makes it hard | What makes it correct |
|---|---|---|---|---|
| Audit pipeline (`jobs/audit-job.ts`, `jobs/page-audit-job.ts`, `routes/audits.ts`, `queue.ts`) | `Audit.status`, `score`; `PageAudit.status`; `Finding` rows; jobs of `audit` and `auditPage` | POST, DELETE; discover, fan out, wait, roll up; audit one page | at-least-once jobs, crash between write and acknowledgement, two deadlines in a race, three unsynchronised reads, DELETE during everything | one batch of findings per row, a published score agrees with the rows, a finished audit stays finished, every audit ends |
| Publish pipeline (`jobs/publish-job.ts`, `routes/publishes.ts`, `core/distribution/aggregate.ts`, `db.ts`) | `Publish.status`, `attempts`, `PublishEvent`, `Generation.reviewState`; jobs of `publish` | POST publish, retry, cancel; the worker, which requeues itself; recompute under an advisory lock | read-then-write at READ COMMITTED, cancel in flight, own requeue beside BullMQ's retries, failed adds | the reviewState is the aggregate of the rows, no row is forgotten, deliveries and attempts are bounded |
| Publishers (`core/distribution/`) | posts, terms, bundles at the remote side | publish by WordPress, HTTP, agent bundle | lost answers, status codes that do not reach the handler, a crash after acceptance | a second post has a cause, a completed row names what exists |
| Generation (`jobs/generate-job.ts`, `routes/generations.ts`) | `Generation.status`, `reviewState`, `outputMarkdown` | create, generate, review, edit | redelivered jobs, errors nobody catches, reviewers and editors between each other's check and write | a generation ends, what ended stays ended, an approved text does not change |
| Model calls (`core/generation/`, `core/reports/`, `core/suggestions/`) | – | ask, read the text, ask again | think blocks, fences, prose, drafts in front of answers | nobody gives up early or takes a draft for an answer |
| Page re-audit and lineage (`routes/pages.ts`, `attachLineage`) | `PageAudit`, `Finding.previousFindingId` | re-audit, diff | check-then-create, lineage read before the transaction | chains split only when audits overlap, the diff is exact, a re-audit ends |
| Suggestions (`routes/suggestions.ts`, `web/pages/FixesPage.tsx`) | `Suggestion.status`; the page's findings and cards | create, accept, reject; load, click | unique (finding, status), a model call between check and create, answers out of order | one pending suggestion, a decision is overwritten only by an earlier reader, a card shows the stored row |
| Search Console (`jobs/gsc-job.ts`, `gsc-cron.ts`, `routes/gsc.ts`, `gsc-read.ts`, `web/components/GscPanel.tsx`) | `GscConnection`, `GscSnapshot`, the day's job | connect, tick, sync, prune, read, poll | crash while `syncing`, job ids that dedupe a day, midnight | a sync ends and is seen to end, synced days stay stored and reach readers |
| Executive report (`services/executive-report.ts`, `routes/executive-report.ts`, `web/pages/ExecutiveReportView.tsx`) | `Audit.executiveReport` | read, take over, generate, export, poll | two generations at once, one column for two languages | takeover of the dead only, own language, the view settles |
| LRU cache, token bucket (`lru-cache.ts`, `token-bucket.ts`) | entries, in-flight loads; tokens | getOrSet, invalidate; check | invalidation during a load; eviction refills a bucket | staleness explained and bounded, readers answered, bounded rate |
| Channels, templates (`routes/channels.ts`, `routes/templates.ts`) | rows, versions, `isActive` | CRUD, activate | two statements without a transaction | versions in order, one active |
| Plugins and score (`core/audit/`) | – | 27 checks, pool, score | shared index, two parsers of one file, superlinear penalty | every plugin once and in its slot, scores move the right way |
| Site discovery (`site-discovery.ts`) | found pages, queues | robots, sitemaps, crawl | cycles, failures, limits | every page once, none missed, within the limit |
| Translation (`i18n/translate.ts`, `web/i18n/useDataTranslations.ts`) | `TranslationCache`, session cache | look up, ask, split, create | overlapping misses, lines matched by number | own translation, what is shown is stored, nobody waits for ever |
| Intake (`routes/projects.ts`, `audits.ts`, `materials.ts`) | rows and jobs | POST, DELETE | three awaits without a transaction | an answer of 200 is an audit that runs, refusals have a cause |
| Bootstrap, settings (`server.ts`, `env.ts`, `crypto.ts`, `routes/settings.ts`) | secret in three places, sealed rows | start, save, open, shut down | a generated key, a changed secret | what was sealed is opened after a restart |
| Web client (`web/`) | screen, browser's copy, URL, event buffer, indicator | poll, click, navigate, record | stale copies, unchecked errors, two matchers of URLs | a screen follows its row to the end, links land where they aim |
| URL guard (`security/url-guard.ts`) | – | classify | – | not modelled, see below |

Server components interact through rows and jobs only: a request writes a row and
adds a job; a worker reads the row, writes it, and may add jobs.  Nothing ties
the write to the add, nor a commit to the acknowledgement of its job, and that
is where most hazards of the server are.  Those of the client lie between a
mutation and the browser's copy of the next GET.  PROJECT.json lists them, each at
its line.

## Modules

| Module | Models |
|---|---|
| `BullJob` | one BullMQ job (external): wait, active, completed, failed; attempts; the single stall BullMQ forgives |
| `AuditLifecycle` | abstract: what an `Audit` row promises when nobody cancels it |
| `AuditPipeline` | one audit with its page jobs, end to end |
| `PublishPipeline` | one approved generation, its channels, its requests and its workers |
| `GenerationPipeline` | one generation from POST to approval: its worker, its reviewers and editors, and the publish pipeline as another writer of its row |
| `PageReaudit` | one page: re-audits, site audits that reach it, the lineage of its findings, the diff |
| `Suggestions` | the suggestions of one finding and two browsers |
| `GscSync` | one connection: requests, daily tick, job, retention, readers, panels |
| `ExecutiveReport` | the report column of one audit: requests in two languages and their views |
| `ChannelCache` | the LRU caches of the channel routes, with the requests that change channels |
| `Translation` | the translate route, its table and the hooks of the client |
| `Templates`, `TokenBucket` | versions of one template name; the rate limiter |
| `Intake`, `Boot` | requests that bring in rows; the process's start, secret and sealed rows |
| `AuditRules`, `Discovery`, `WorkPools` | pure algorithms: the 27 rules and the score; the pages of a site; the two worker pools |
| `Delivery`, `LlmCalls` | what leaves: publishers and the answers to their errors; requests to a language model |
| `Screens`, `WebRoutes`, `WebSession`, `FixesScreen` | the web client: screens over one row; URLs and links; event buffer and API indicator; the screen of fixes |
| `MC*` | instances for TLC |
| `*Proofs` | proofs |

`MCFindings`, `MCPanels`, `MCConfig` and `MCAnswers` bring together modules that share no
state: a behaviour picks one of them (`focus`), the others rest in a fixed initial state.
Checking them together is checking each alone.  The modules that do
interact have the interaction inside: `PublishWrites` in `GenerationPipeline`, the site audit in
`PageReaudit`, the re-audit's three answers in `Suggestions`, `GscPanel` in `GscSync`, the report view in
`ExecutiveReport`, the hook in `Translation`, the suggestion routes in `FixesScreen`.

Conventions.  An action ends where the code awaits Postgres or Redis, so
everything between two awaits is one action and what a handler has read lives
in its own variables (`scan`, `found`, `work`, `exec`, `client`, `ask`, `req`).  `pc`, `pagePc`,
`work[n].pc` and `client[k].pc` say where an execution is.  A definition called a
"faulty variant" is a plausible mistake in the definition that follows it; it is
used by no specification and only shows that a property would notice.

### AuditPipeline

`rows` holds one PageAudit status for each execution of the audit handler and
page, because the table has no unique key over (auditId, projectPageId) and
`skipDuplicates` therefore skips nothing.  `jobs` are the `auditPage` jobs,
`target` the row in a job's data.  Under the flow orchestrator the row is the newest queued row of
the page (the `Map` keeps the last of an ascending list), under the polling one
any row of the page (`findFirst` without an order).  Under flow, page jobs have one
attempt: the default options of the queue do not apply to children added
through a FlowProducer.  `scan` collects the three reads of the rollup, which may
happen in any order.  `Crash` loses every handler; BullMQ gives an active job back once
(`MaxStalledCount`) and fails it the second time without running the handler.
`LoseLock` turns a live page execution into a `"zombie"` beside a new holder.  The audit worker's own lock
outlives its wait by construction (`audit-timeouts.ts`), so it is lost only in a crash.

Not modelled: the project being deleted under an audit (cascades remove every
row), the page limit, the content of findings and scores (a score is the set of
rows whose findings it counts), the lineage of findings.

### PublishPipeline

A row is named by its channel since (generationId, channelId) is unique.
`recordPublishTransition` is two actions (`TxRead`, `TxCommit`): at READ COMMITTED
its read takes no lock.  `recomputeGenerationState` is two as well, with at most one execution
"locked".  `Broken` are channels whose config cannot be decrypted or has no
publisher: those paths return before the recompute.  `acked` counts the adapter's
successes, which the code does not store.  `lost` remembers rows whose request
died, or was refused by Redis, between its commit and its add; the properties that promise an end exclude them.

`BookkeepingFails` stands for every call in the delivery's `try` block after the adapter
has accepted, except a `job.log` that fails after a failed GSC hook.

Not modelled: the back-off delay (`server.ts` drops it anyway), worker concurrency
and rate limits, the best-effort GSC hook after a success, a live publish worker that
loses its lock, and the review route, which may write `reviewState` too (that race is in
`GenerationPipeline`).

### GenerationPipeline

`exec["holder"]` is the execution that holds the job's lock, `exec["zombie"]` one that
lost it and runs on.  A text is named by who wrote it (`by`) and in which run or
request (`n`), so that one text replacing another is visible.  `ReviewRead`/`ReviewWrite` and
`EditRead`/`EditWrite` are the two statements of a request; `client[k].read` keeps what it
read.  `bare` says whether a material still lacks its embedding: only then can the first
embedding call fail, and that failure is the one the handler records.  `PublishWrites`
is what `PublishPipeline` may do to `reviewState`: the type invariant of that module shows
that it writes no other value.  `EnqueueRefused` leaves the row queued: the update to
`failed` in `routes/generations.ts:88` is prefixed with `void`, and a Prisma query
that nobody awaits is never sent.

Not modelled: a project deleted under its generation, the ranking of materials, the
parsing of the model's answer (a runGeneration either returns a text or throws).

### PageReaudit and Suggestions

A `Finding` is a place a rule fires (`Occurrences`), its look and its predecessor.  `ReadLineage` and
`CommitRow` are apart because `attachLineage` reads before the transaction; `basis` remembers what was committed at
that read, so that `ChainsSplitOnlyInRaces` can say which two audits overlapped.  `Prior`, `Fixed` and
`DiffLabel` are the queries of GET /api/page-audits/:id.  Lineage is a star: every later finding of a rule points at the
head, and FIXED looks at heads only.

In `Suggestions` every write that would give the finding a second row of a status throws (`Taken`): after one superseded,
accepted or rejected suggestion the next one of that kind answers 500.  `view` is what the page shows; `api.ts`
takes an error body for a suggestion (`ErrorCard`).

### GscSync

Time is the UTC day.  The job of a day is one record because its id contains the day: BullMQ ignores an add whose id it
has already seen, while the route answers 202 all the same.  `Cron` is a request without a panel.  `secret` may change with a restart; the
connection is then sealed under another one.  The readers (`Overview`, `TopLists`, `ReportSummary`, `AuditContext`) are
operators over `stored`; `AuditContext` is what an audit builds, although no plugin that runs
live consumes it (`audit-job.ts:258` builds it and goes on without it).

### ExecutiveReport, ChannelCache, Translation

`report.age` counts how often the column was marked, so that a takeover names whose mark it found.  `ChannelCache` keeps time in ticks; `changed` remembers when a
row changed and whether a load had begun before (`overlapped`).  A text of `Translation` has a number of lines (`Lines`): the model answers line
by line and `Slot` gives each text the line of its index, so a text of two lines keeps only its first.

### Intake, Boot, Templates, TokenBucket

`Boot` keeps the secret where the code does: in `loadEnv`'s memo, taken when `queue.ts` is imported; in `.env.local`, which only
`ensureSecretKey` reads and writes; in `process.env`, which `ensureSecretKey` overwrites when it generates.  Routes seal with the memo,
the publish worker opens with `process.env`.  `TokenBucket` counts tokens in fractions of `Window` to keep them
integers.  The Map is a function from the clients that have a bucket and the order of their insertion, a relation; `passed` counts, for each past time, what a client
got through since.

### AuditRules, Discovery, WorkPools

`AuditRules` starts from a page that passes, or fails, every rule and changes one feature at a time; a rule is a condition over
features, as the plugin reads them, and its findings are the plugin's.  The score is the code's arithmetic on integers: `score.ts` raises the number of errors to
1.2, tabulated for the counts that occur, times a hundred.  Features nobody sets for a live audit (Lighthouse, axe, cache,
compression, requests, contrast) stay empty, as in the code.  In `Discovery` the site is not fixed in advance: a sitemap or
page lists whatever it lists when it is read, and each read may fail; `found` is a function from a URL to how it was found, and `heard` keeps every answer.  `WorkPools` is `mapPool` and the pool of `fetchSearchAnalyticsRange`, with
any order of completion and failing items.

### Delivery and LlmCalls

`Delivery` is the remote side of a publish, one row at a time: `PublishPipeline` has the interleaving of rows, jobs and requests.  `unknown`, `unstored` and
`repeated` count the attempts whose post exists but was not recorded, because the answer was lost, the write of the row failed, or the process
died.  An answer of `LlmCalls` is a payload and its wrapping (bare, fenced, inside or after a think block, in prose).

### Screens, WebRoutes, WebSession, FixesScreen

A behaviour of `Screens` is one screen over one row, which workers and other clients move: a GET (answered by the server or by the browser's copy
while its max-age lasts), a poll while the screen's own copy says live, a click offered from that copy, and the refetch after it.
`WebRoutes` holds the tables of `localePath.ts` for both languages; `aim` is the page a link was meant for.  `FixesScreen` is the load
of findings and suggestions for the audit in the address, with the answers of clicks arriving in any order; `behind` collects the audits for which the
browser's copy, an error body or two requests for one finding explain a difference.

## Runs

Bounds are constants of the modules and sit in the guards: requests, crashes,
errors (`MaxFaults`, `MaxOutages`), lost locks, jobs per row.  The handlers and BullMQ's rules are
not bounded otherwise.

| Run | Instance | Shows |
|---|---|---|
| `audit_pages` | flow, 2 pages, 1 crash anywhere | findings once per row, final rows, rows not shared between executions, the published score agrees with the rows |
| `audit_delete` | flow, 1 page, 1 DELETE, crash, error and lost lock | a finished audit is reopened by a DELETE only; a row has more than one batch of findings only for a lost lock |
| `audit_ends` | polling, 1 page, 2 attempts each, crash and error, fair | refinement of `AuditLifecycle`; when BullMQ is done, so is the audit; enqueued audits and pages end |
| `publish_settle` | 2 channels, 2 clients, 2 POSTs, 1 retry | quiet means aggregated: the reviewState is the aggregate of the rows |
| `publish_channels` | 2 channels, one broken, a POST, a retry, a cancel, a refused add | deliveries and attempts are bounded by the requests (`BoundedByRequests`); no row is forgotten through overwritten transitions |
| `publish_ends` | 1 channel, crash and error, fair | no row is forgotten; a queued row ends; `publishing` ends |
| `generation` | 2 clients, 3 reviews or edits, 2 attempts, crash, error, lost lock, 2 writes of the publish pipeline, fair | what ended stays ended, a completed job left an ended generation, an approved text changes only in two races, an enqueued generation ends |
| `findings` | `PageReaudit`: 2 PageAudits, 2 places of one rule with 2 looks, crash, error, fair; `Suggestions`: 2 browsers, 3 rows, 5 requests | chains split only in races, the second diff is exact, one pending suggestion, decisions overwritten by earlier readers only, re-audits end |
| `panels` | `GscSync`: 2 days, retention 4, 3 visits, a restart, an error, fair; `Screens`: every screen, 2 clicks, an error, another client, fair; `WebRoutes`: every page, 2 projects; `WebSession`: 2 tabs, 4 events, buffer of 2; indicator, fair | syncs end, keep what they stored and are seen to end; screens follow rows and offer what routes accept; links land; buffers keep order |
| `config` | ten modules: 3 starts and 4 changes of the secret; 3 requests, 1 fault; 2 editors, 3 versions; 2 callers, 1 key kept, 4 ticks; 2 edits of a page, 4 lines of robots.txt; every site of 3 pages and 2 sitemaps; 3 items, 2 workers; 2 tags, 3 attempts, a failed store and a death; every pair of answers; 2 audits, 2 rows | what is answered is kept, what is sealed is opened, one version is active, the rate holds, sites are covered, calls have a cause |
| `answers` | `ChannelCache`: 2 readers, a writer, 3 ticks, room for 1 entry; `Translation`: 2 hooks, 3 texts, 2 calls; `ExecutiveReport`: 2 views, 2 languages, 3 requests, an error; fair | staleness explained and bounded, own and stored translations, takeover of the dead only, everybody who waits is answered |

A property of these four runs is the conjunction of what one part of the system promises, with the type invariant of its
module; each conjunct is defined and explained on its own in that module, and has a faulty variant of the code that breaks it.

| Property | Conjuncts |
|---|---|
| `LineageExact` (`PageReaudit`) | `ChainsSplitOnlyInRaces`, `SecondDiffIsExact` |
| `ReauditEnds` (`PageReaudit`) | – |
| `DecisionsKept` (`Suggestions`) | `OnePending`, `ShownDecisionsAreStored`, `OnlyEarlierReadersOverwrite` |
| `SyncKept` (`GscSync`) | `SyncingHasJob`, `SyncedDaysStored`, `SyncReachesReaders` |
| `SyncSeenToEnd` (`GscSync`) | `SyncEnds`, `PanelSeesTheEnd` |
| `ScreenTruth` (`Screens`) | `SeesItsClick`, `RefusedOnlyWhenStale`, `FollowsToTheEnd` |
| `LinksLand` (`WebRoutes`) | `LandsOnAim`, `ViewsNamePages`, `ToggleSpeaks` |
| `SessionKeepsUp` (`WebSession`) | `ReloadKeepsWriter`, `EventsInOrder`, `NewestIsLast`, `IndicatorFollows` |
| `SealedIsOpened` (`Boot`) | `ChannelsOpenUnlessFresh`, `SavedKeyServesAfterRestart`, `RefusedOnlyForAChangedSecret` |
| `AnsweredIsKept` (`Intake`) | `OrphansAreFaults`, `RefusedOnlyInARace` |
| `VersionsKept` (`Templates`) | `VersionsInOrder`, `OneActiveUnlessTorn` |
| `RateKept` (`TokenBucket`) | `RateBound`, `RetryAfterIsEnough` |
| `ScoresFollowEdits` (`AuditRules`) | `BlockedBotsExplained`, `OnlyOwnGroupUnblocks`, `ScoreMonotone`, `RollupWithin` |
| `SiteCovered` (`Discovery`, `WorkPools`) | `FoundOnceWithinLimit`, `NothingMissed`, `CrawlOnlyAlone`; `TakenOnce`, `AttributedToItsPlugin`, `NoRowLost` |
| `CallsExplained` (`Delivery`, `LlmCalls`) | `DuplicatesExplained`, `NamesWhatExists`, `FailsEarlyOnlyOnRedirect`; `AskedInFull`, `DraftOnlyInNeed`, `GivesUpInTurn` |
| `CardsTrue` (`FixesScreen`) | `OwnFindings`, `SpinnerHasLoad`, `ShownAsStored` |
| `CacheHonest` (`ChannelCache`) | `StaleOnlyByOverlap`, `StalenessBounded`, `ReadersAnswered` |
| `TranslationsTrue` (`Translation`) | `ShownIsStored`, `OwnTranslation`, `AnsweredInFull`, `HookSettles` |
| `ReportTrue` (`ExecutiveReport`) | `TakeoverOnlyOfTheDead`, `ReadyInOwnLocale`, `ViewSettles` |

`PublishedScoreExact`, `EnqueuedEnds`, `BoundedByRequests` and `PublishesEnd` of the first runs are conjunctions as well,
of `CompletedMeansPagesDone` and `ScoreMatchesRows`, `EnqueuedAuditEnds` and `EnqueuedPagesEnd`, `OneDeliveryPerRequest` and `AttemptsBounded`,
`PublishEnds` and `PublishingEnds`.

Two pages (or channels) are enough for what goes wrong between siblings: the count of
the wait, the order of the reads, the order of two recomputes.  Two clients are enough for a race
between a check and a write, and three requests for send, approve and an edit between them.  A crash and an
error each happen at most once in a run because BullMQ forgives one stall;
the theorems carry the same statements to every bound.  A cache with room for one entry and two keys evicts; a buffer
of two and four events overflows twice; three items and two workers make every order of completion; a site of
three pages has every shape of a cycle and of a page reached two ways.  `CHECK_DEADLOCK` is off: when every
job is finished and every request answered the system rests.

## Disagreements

`audit_claim_cancelled` is a counterexample: design F5 says the project audit bails when the audit is
cancelled; TLC shows an audit cancelled while queued that the worker starts all the same
(`findings` in PROJECT.json quotes the sentence).

Other places where the code does something else than a comment, a document or a test says.  They are
visible in the models, named as exceptions by the properties, and have no run of their own.

* `generate-job.ts:146`: nothing catches a persistent failure of the model, the generation stays running;
  design F2 (`2026-07-06-jheo-f2-design.md:249`): "Persistent failure throws; the worker catches and writes `status=failed`".
* `publish-job.ts:89`: the transition to running overwrites a cancel; `publishes.ts:177`: "Worker polls between adapter calls; mark cancelled
  so next poll aborts".
* `publishes.ts:103`: POST's compensation writes the reviewState without the advisory lock; `publish-job.ts:217` promises that recomputes "can never
  interleave".  It fails rows without a `PublishEvent`, and `2026-07-07-f-hardening.md:54` wants one per transition.
* `publish-job.ts:42`: two transitions of a row may record the same fromStatus; the comment above it says they are isolated from each other.
* `score.ts:71`: the exponent of errors is 1.2; the comment at `score.ts:41` says the penalty "flattens".  The test `audit-score.test.ts:70` pins the exponent.
* FIXED lists heads of chains only (`routes/pages.ts:98`), where the plan of F5.4
  (`2026-07-07-f5-phase-4-re-audit-delta.md:855`) describes the difference of two audits.
* A second superseded suggestion of a finding violates the unique key and answers 500 for ever; the plan of F7
  (`2026-07-08-jheo-f7-implementation.md:1288`) supersedes each time.
* `templates.ts:84`: the comment asks for a single transaction "so a crash mid-flight can't leave the name with two active versions"; the two writes are a `Promise.all`.
* `env.ts:57`: a container without `.env.local` generates a key and works with it although its environment has one; channels saved by its routes are then not opened by its worker.
* DELETE of an audit that completes between its check and its write makes it cancelled; a second execution of the audit handler adds a second row per page and
  its wait counts the rows of the first; the retry of a failed page job, or of a generation whose materials could not be embedded, returns at the
  guard on the `failed` its first attempt wrote.
* A cancel, and a channel whose config does not decrypt, are not followed by the recompute: the generation stays publishing.  A publish job delivered again
  after its row completed publishes once more.  `server.ts:282` drops the delay a requeued publish asks for.
* PATCH refuses approved generations only; design F2 (line 177) allows edits in draft and in_review.  A refused `generateQueue.add` leaves the generation
  queued, its update to `failed` is prefixed with `void` and never sent.
* WordPress and HTTP refusals (4xx) reach the handler without a status and are tried three times (`publish-job.ts:186`).  WordPress tags are created and never attached to the post
  (`wordpress.ts:84` gets no ids; `2026-07-07-f-hardening.md:51`).
* The second request of a generation repeats neither system prompt nor task (`pipeline.ts:133`).
* After the first sync of a day POST sync answers 202 and does nothing; the overview "of 28 days" has 25 at most; a sync across midnight is dated a day late.
* A text of several lines is translated by its first line, for ever (`translate.ts:184`); a text twice in one call makes the first call fail.
* `FixesPage.tsx:151`: Regenerate looks a suggestion's id up in a map keyed by finding and does nothing.  GET /api/publishes/:id shows only publishes of the oldest project; a crumb
  leads to `/publishes`, which no route renders (`Layout.tsx:81`).

## Fairness

`FairSpec` of `AuditPipeline` assumes weak fairness of the steps of a started
handler and of taking a waiting job: workers poll for ever, fetches have
timeouts, the wait has a deadline.  It assumes nothing of requests, errors,
crashes or lost locks.  `FairSpec` of `PublishPipeline` assumes the same for each request
and each job, and strong fairness for obtaining the advisory lock, which Postgres hands on in turn.
`FairSpec` of `GenerationPipeline` assumes weak fairness of the add that follows a create, of taking a waiting job
and of each execution; reviewers, editors, publishers, errors, crashes and lost locks are under no obligation.
`PageFairness` and `GscFairness` are of the same kind: jobs and started handlers go on, and an open panel whose interval is set polls.
`ScreensFairness` and `HealthFairness` let timers fire and requests be answered or fail; the browser's copy expires; clicks are free.
`CacheFairness` and `TransFairness` end loads and calls (they have timeouts), `ReportFairness` moves the clock, the requests and a view
that polls.

The liveness properties name what ends the promise: errors that use up the attempts,
a second stall, a lost request, a lost lock, a channel that cannot work.

## Proofs

`AuditPipelineProofs` proves, for any finite set of pages, any number of attempts,
crashes, errors, deletes and lock losses:

* `TypeCorrect`: the type invariant.
* `TerminalLeftByDeleteOnly`: the action property behind "a finished audit stays finished".
  The inductive invariant adds what each program counter implies about the row:
  a handler past its guard that finds the audit completed or failed can only be there because a DELETE interfered.
* `ImplementsLifecycle`: without DELETE every step is a step of `AuditLifecycle` or leaves it alone.
* `FindingsCommittedOnce`, `OutcomesAreFinal`: under flow and without lost locks.  The
  invariant says that a row is worked on by at most one job, and that a job whose
  row is completed or failed has no execution that could still write.
* `RowsNotShared`: under flow.  A later execution queues newer rows, so the newest queued row of a page is its own.

`AuditEndProofs` proves `AuditEndsWithItsJob`: a finished job with a live
audit must have been failed by a second stall, or each of its attempts must have been spent on an error or a
DELETE; the invariant counts attempts against errors and deletes.

`BatchesPaidFor` and `PublishedScoreIsExact`, both under flow, are in that module too.  The first keeps an account per job: batches
committed and executions that still may commit are together at most one and the locks lost, and BullMQ hands the job out again only
against that account.  The second also needs that no live worker loses its lock: then the wait of the parent holds until every child is over,
no row can move between the three reads of the rollup, and what each read returned is still true when the score is written.

`PublishPipelineProofs` proves `PublishTypes` and `RowsHaveOwners`: every queued or
running row has an unfinished job, or a request on its way to add one, unless the
request was lost, the process died twice or errors used up BullMQ's attempts.  On that invariant rest
`GenerationSettles` (while something is unsettled, some execution is still to recompute; the advisory lock lets one recompute at a time, so the
last one reads what is final) and `WorkIsBounded` (deliveries and attempts, done and ahead, are paid for
by the requests and retries on record; a run that compares a count it read before costs at most two attempts for each retry).

`GenerationProofs` proves `GenerationTypes`, `CompletedJobsEnded`, `GenerationsEndOnce` and `ApprovedTextsKept`, the first and
last for every bound, the other two without lost locks.  The invariant ties the holder's counter to
the job (an execution exists exactly while the job is active) and to the row: past
the guard the row has not ended until this execution ends it, and only an execution that has
written `completed` returns.  That an ended row stays so follows, because no execution that could write is left.

`FindingsProofs` proves `DecisionsAreKept` and `LineageIsExact`.  For the first, a request remembers a row that existed when it was read, and a row that left
`pending` never returns to it.  For the second, a row is committed once, by the execution that read its basis, and the basis only grows committed; each finding
then has one place and points at a head its row read, from which the chains and the diff follow.  The newest head exists because "newer" is well founded on
a finite set of findings.

`ConfigProofs` holds the parts that `MCConfig` composes, each for every value of its constants:

* `SealedStaysReadable` (`Boot`), `AnswersAreKept` (`Intake`), `VersionsStayInOrder` (`Templates`): what each program counter implies about the rows
  is inductive as it stands; `Templates` needs also that an activation nothing overlapped finds the rows as its first statement left them.
* `CardsAreTrue` (`FixesScreen`): when no error or second request explains a difference, at most one request is out for a finding, it was sent for
  the newest row, and its answer is the newest row again.
* `CallsHaveReasons` (`Delivery`, `LlmCalls`): every post but the one being made is on the account of a recorded or an unrecorded success.
* `NobodyExceedsTheRate` (`TokenBucket`): what a client got through since any time and what it would find now are together at most a full bucket and what
  refilled since.  An idle bucket may be forgotten because it would be full (`IdleTtl >= Window`, which the code's default of two windows satisfies).
* `NothingIsMissed` (`Discovery`, `WorkPools`): a document is entered among those read in the step that reads it, and whatever was named is read or still queued;
  whatever a pool took either runs or has settled, and a worker's rows are those of its index.

`GscProofs` proves `SyncsAreKept`: a syncing connection has the job that set it, the window an execution stored lies within the retention of the day it ends, even
when midnight came in between, and no later sync or prune removes a day that is still young enough.

Where a theorem has assumptions besides the constants', they are in its statement: `Orchestrator = "flow"` and `MaxLockLosses = 0` where the polling orchestrator or
a lost lock really breaks the property.  Two assumptions were added to modules because a proof showed that the model relied on them: no audit is named as
the empty address (`FixesScreen`), and the bounds of `GscSync` are natural numbers.

Every invariant that a run checks is now stated by a theorem.  Only model-checked: the liveness properties, and the properties of `ExecutiveReport`, `ChannelCache`,
`Translation`, `AuditRules`, `Screens`, `WebRoutes` and `WebSession`.  Liveness under fairness is out of the prover's reach, and with it every property one of whose conjuncts is a
leads-to (`CacheHonest`, `TranslationsTrue`, `ReportTrue`, `ScreenTruth`, `SessionKeepsUp`).  `ScoresFollowEdits` compares the score, a fold over the findings, of two
pages for every input, which needs induction over data.

## Not modelled

* The URL guard: a classifier of addresses and names without state; what it decides is a matter of parsing, and its unit tests enumerate it.
* HTML parsing (the features of `AuditRules` are its result), the aggregation and rendering of the report, the wording of prompts, list filters and pagination,
  layout, forms before they are sent, translations of the interface: data that no property here tells apart.
* A project deleted under its audits, generations or publishes: the schema cascades in one statement, and every handler then finds no row.
* The URL inspection of `jobs/gsc-job.ts:136`: it writes one JSON column of a publish row that no handler reads.
* The backfill of old scores when an audit is read (`services/score-backfill.ts`): the same arithmetic as `SiteScore`.
* The session and debug endpoints, CORS, static files and the wiring in `server.ts`; test helpers, scripts and the database migrations.
* Rate limits and concurrency of the workers, back-off delays: any waiting job may be taken at any time, which includes every order they allow.

## Plan

1. The safety conjuncts of the properties that also promise an answer: `TakeoverOnlyOfTheDead` and `ReadyInOwnLocale` (`ExecutiveReport`), `ShownIsStored` and
   `OwnTranslation` (`Translation`), `StaleOnlyByOverlap` (`ChannelCache`), `EventsInOrder` (`WebSession`).
2. An abstract publish lifecycle and its refinement by `PublishPipeline`.
3. `LinksLand` (`WebRoutes`): tables of constants, one case per route.
