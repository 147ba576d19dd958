# Verification of URLgen

TLA+ models of the URL shortener in this repository, checked with TLC and, where
TLAPS can reach, proved for every value of their constants. File and line references are
relative to the repository root.

## The system

URLgen is a link shortener. Its parts, and the modules that model them:

| Part | State it keeps | Operations | Modules |
|---|---|---|---|
| **Edge worker** (`apps/edge`) | none; reads and writes Workers KV | redirect a slug from KV; on a miss ask the API and write the answer back; post a click event | `EdgeCache`, `Intake` |
| **API** (`apps/api`) | none of its own | link CRUD, internal resolve, click ingest, abuse reports and review, analytics; each request is a short series of awaits on the stores | all but `Dashboard` |
| **Link store** (DynamoDB) | one item per slug, two indexes, abuse reports | conditional put, get, update, soft delete, index query, scan, TTL sweep | `LinkStore` |
| **Workers KV** | one blob per slug with a TTL | get, put, delete; the worker and the API both write it | `EdgeCache` |
| **Click pipeline** (`routes/ingest.ts`, `click-buffer.ts`, `consumer/*`, `clickhouse.ts`) | two Redis lists, a counter, a lease; ClickHouse tables | push, drain, insert, acknowledge, take and release the lease | `ClickPipeline`, `ClickPipelineLive`, `ClickDelivery`, `ClickPipelineRefinement` |
| **Rate limiter** (Redis) | a sorted set per identity | consume, one check after the other | `RateLimiter`, `SlidingWindow`, `RateLimiterRefinement`, `InMemoryRateLimiter` |
| **Abuse reports and review queue** (DynamoDB, Redis) | reports; a sorted set and a hash over slugs | report; list, act, clear | `AbuseReview` |
| **Re-scan job** (`services/rescan.ts`, `scripts/rescan-links.ts`) | verdicts stored on the links | page through active links, look up, disable | `Rescan`; one link's race in `LinkStore` |
| **Analytics reads** (`routes/analytics.ts`, `analytics-store.ts`, `analytics-cache.ts`) | a Redis cache | window arithmetic, gap filling, cached totals | `AnalyticsReads`, `TimeZones`; the cache in `Dashboard` |
| **Shared code** (`packages/shared`) | none | time windows, base62, slugs, URL safety, schemas | `TimeZones`, `UrlSafety`, `Targets`, `Slugs` |
| **Visitor hash, user agents** (`services`) | a salt per process and day | turn an event into a row | `Intake`, `UserAgents` |
| **Web dashboard** (`apps/web`) | React state | polling, forms, charts | `Dashboard` (polling only) |

The parts meet in a few places, and each is where the hard behaviour is:

- the **click pipeline**: the API pushes to a Redis list that one flusher at a time
  is supposed to empty into ClickHouse. Each Redis script and each insert is a
  separate await; commands time out after they ran; processes crash and are told to
  stop; inserts are retried and rely on block deduplication.
- the **link record and its copy in KV**: every writer changes the record first and
  KV second, the worker writes back what it read some time ago, and KV puts may fail
  or arrive late.
- the **moderation data**: owners, operators, the re-scan and visitors' reports all
  act on one record through unconditional updates based on an earlier read; the review
  queue is a second copy, in another store, of which slugs have reports.
- the **rate limits**: processes whose clocks differ share one window in Redis, whose
  scripts may run late or twice.
- the **dashboard and its cache**: answers of a panel overtake one another, and come
  from a cache that other viewers fill under keys with a rounded clock.
- the **analytics sources**: one answer is put together from up to three tables with
  different resolutions, in a zone whose clocks change.

## Click pipeline

`ClickPipeline.tla` is the click pipeline from the ingest handler to the ClickHouse
tables.

| Model | Code |
|---|---|
| `buffer`, `inflight`, `dropped`, `lease` | the four Redis keys |
| `process[p]`, `pc[f]`, `batch[f]`, `claimed[f]` | a process with the flusher enabled, and `flush()` as each of its two callers runs it: `#tick` (flow `tick`) and `stop()` (flow `stop`) |
| `stored[t]` | the blocks table `t` has written, oldest first; the tables are `clicks` and the rollups its materialized views feed |
| `late` | inserts whose client gave up at `request_timeout` |
| `answer[c]` | what `POST /ingest/click` answered for click `c` |

Each Redis script is one step; each `await` of `flush()` separates two steps. A Redis
command that fails may have run or not. An insert that fails may have reached any
subset of the tables. A crash may fall anywhere, and the process may come back.

Abstractions, and why they lose nothing the properties see:

- A row is its click id, a block and its deduplication token are the set of its
  rows. A batch keeps its order in the in-flight list, so equal sets are equal
  sequences (`clickBatchToken` hashes the ids in order).
- Time appears in two places. A lease can lapse during a cycle only after
  `LeaseBatches` batches: its TTL is 30 s at least, each insert takes up to its 10 s
  timeout, so 3 in production, where a cycle may have 20 batches. An abandoned insert
  is executed within `LateBlocks` further blocks. Nothing in the code bounds that;
  `CountedOnce` and `ClickDelivery` need it to be within the deduplication window
  (`LateInWindow`), which is 1000 blocks in production.
- `StopMidTick` says whether the stop signal may arrive while a tick is flushing. It
  may; the runs without it show what holds when it does not.

`OneFlusher`, that no two flows work at a time, is what `flush-lease.ts` promises and
does not hold: a lease that covers fewer batches than a cycle has lapses under its
holder (`ClickPipeline_lease_lapse`), and a stop signal may fall into a tick
(`ClickPipeline_stop_mid_tick`). No run checks it as holding. What the safety run and
the proofs say holds of the behaviours in which neither happens, and the proofs show
that there is no third way.

## The edge cache of links

`EdgeCache.tla` is one slug: its DynamoDB item, its Workers KV entry, visits at the
edge worker and requests at the API.

| Model | Code |
|---|---|
| `link`, `replaced` | the item, and the earlier versions an eventually consistent `GetCommand` may still return |
| `entry` | the KV value, with the instant it evicts itself and the last instant its content was the item's |
| `visit[v]` | a request at the worker: `Tell` and `Hit` (`resolve`), `Miss` (`readCachedLink`), `Resolve` (`GET /internal/resolve/:slug`), `Answer` (`resolveOnMiss`), `Unavailable` (origin errors and timeouts) |
| `writer[w]` | a request at the API: `Create`, `Load`, `Patch`, `Delete`, `SetStatus`, and then `SyncSucceeds`, `SyncFails` or `SyncTimesOut` |
| `transit` | KV operations nobody waits for: `waitUntil(writeBackLink)` and puts whose caller gave up |
| `now`, `Tick` | one clock; it does not pass the deadline of anything that must have ended |

Abstractions:

- KV is one store. Its per-location read cache adds up to a minute and belongs in
  `StaleFor` of a deployment; it is not in the repository.
- A DynamoDB write takes effect when its response arrives, because nothing in
  between sees the difference: reads may return older versions anyway.
- The safety check between load and update of a PATCH is part of the wait before
  `Patch`.
- The worker takes `now` once, at the start of a request, as the code does.

What holds is a bound, not freshness: `BoundedStaleness` says that whatever a visitor
is told was true of the item less than `ReadLag + 2 * Flight + MaxTtl` ago. The
backstop TTL is what carries it: `syncEdgeCache` swallows failures, and the
write-back may store what an edit has just replaced. So an operator may be told that
a link is disabled, and a visit that read it before puts it back for as long as that
bound.

## The link store

`LinkStore.tla` is the links table with its urlHash index, and the requests and jobs
that write it.

| Model | Code |
|---|---|
| `items[s]` | the item of slug `s`: owner, target URL, dedup key, status, expiry, and the URL its Safe Browsing verdict is about |
| `replica[s]`, `index[s]` | what an eventually consistent read of the table, and `urlHash-index`, may have instead |
| `request[r]` | one request, or one link of a re-scan, between two calls to the table |
| `answer` | the existing link `POST /api/links` was answered with, when the last step was that |
| `asked[s]` | the status last asked for, by whoever wrote one |
| `swept` | history: the slugs of which DynamoDB has deleted an item |

Every call to the table is one step: `QueryIndex`, `Lookup`, `Put` for a create;
`Load`, then `Patch` or `SoftDelete`; `SetStatus` for an operator, who reads nothing
first; `Scan` and `StoreVerdict` for a re-scan. A `Put` whose response was lost is
sent again by the client, fails its own condition and draws again (`DrawAgain`). A
request may also end between any two steps (`Fail`).

Abstractions:

- URLs are values up to `canonicalizeUrl`, and the dedup hash is the pair it hashes.
- An expiry is never, ahead or past; `Expire` is time passing it. Versions of an item
  with the same content expire together, others separately.
- The index and the replica jump to the newest version; they may stay behind for as
  long as they like.
- The code asks Safe Browsing before `QueryIndex`, between `Load` and `Patch`, and
  between `Scan` and `StoreVerdict`; the verdict of a new URL is one that lets it
  through.
- `BeginCreate` stands for everything a POST checks before its first call to the
  table, rate limits included.

`Sweep` is DynamoDB's time to live, which `create-table.ts` enables: the item of an
expired link goes, deleted or not, and its slug may be created again by anybody, while
an edit under way, the index or a replica still has the first owner's. So
`DedupWithinOwner`, which `hash.ts` promises, fails (`LinkStore_dedup`). `DedupUntilSwept`
and `KeyFollowsUrl` name the slugs of which an item was deleted and show that there is no
other way to mix two owners; `SlugsKept` says that nothing but that deletion takes a slug
from its owner.

## The rate limiter

`RateLimiter.tla` is the requests of one route, on their way through the checks of
`enforceRateLimit`, in a Redis all processes share.

| Model | Code |
|---|---|
| `log[k]`, `expires[k]` | the sorted set of a key: members and scores, and its `PEXPIRE` |
| `Run(m)` | `CONSUME_SCRIPT`: trim, count, then add and expire, or refuse with the oldest score |
| `stage[r]`, `todo[r]`, `retryAfter[r]` | a request in `enforceRateLimit`'s loop, the checks it has left, and what a 429 told it |
| `skew[r]` | how far the clock of the process that handles it is off |
| `transit` | scripts sent and not answered; `Timeout` is `commandTimeout` |
| `Arrive`, `Pass`, `Refuse`, `FailOpen` | the first check; an answer that allows, with the next check; one that refuses; a check that throws |
| `Unheard` | a script that runs, once more or at last, after its caller gave up |
| `asked`, `admitted` | history, for the properties |

`SlidingWindow.tla` is what a limiter promises, whatever it is made of: at most `Limit`
requests pass in any trailing window of length `Sure`, and a request is refused only if
`Limit` have asked within `Doubt`. With equal clocks and no timeouts both are the window.
`RateLimiterRefinement.tla` gives the mapping: the difference is `Slow + Fast + Timeout`,
down and up. `InMemoryRateLimiter.tla` is the limiter of the tests, which must decide as
the script does on the same stamps.

Left out: a Redis that loses its data, which forgets every window; a member of the sorted
set is the request, where the code draws a UUID for each call of the script.

## Abuse reports and their review

`AbuseReview.tla` is the reports in DynamoDB, the queue in Redis and the operators.

| Model | Code |
|---|---|
| `report[r]`: `Reject`, `Record`, `RecordFails`, `Add`, `AddTimesOut` | `POST /api/abuse-reports`: limits and schema, `create`, then `queue.add` |
| `table`; `lastAt[s]`, `counts[s]` | the reports; the sorted set and the hash |
| `operator[o]`: `List`, `Act`, `Sync`, `Clear` and their failures | `GET /api/admin/reports`, then a PATCH of a link on the page: `setStatus`, `syncEdgeCache`, `queue.clear` |
| `late`, `LateClear` | a `clear` that was given up and still runs |
| `LoseRedis` | Redis comes back empty |
| `expired`, `Expire` | the reports DynamoDB has deleted, a year after their request |
| `fate[r]` | history: a report that is queued, was reviewed, was overtaken by an action already under way, or was lost |

A report may be about a slug nobody created: the route does not look, and an operator's
action on it is a 404. A report has a ttl and its queue entry has none, so
`QueueIndexesTable` says that what is queued was reported in the table first, not that
the table still has it. `clock` numbers the adds as their timestamps do; an add that runs
late lowers the score, as `ZADD` does.

## The re-scan

`Rescan.tla` is `scripts/rescan-links.ts` and `services/rescan.ts` with the Safe Browsing
client a run makes, one run a day, over links numbered in scan order.

| Model | Code |
|---|---|
| `active`, `age[l]` | the link's status, and the days since `verdictCheckedAt`, counted up to `staleAfterMs` |
| `stage`, `cursor`, `page` | `listActive`'s position and the rows of the page, as they were read |
| `Day`, `Scan`, `ScanFails`, `PageDone` | a run begins; the next page, empty or not; the run ends with an error; the cursor moves on, or the run ends |
| `Skip`, `Check`, `Store`, `StoreFails` | one turn of the loop: fresh, or over the ceiling; looked up; stamped, and disabled if malicious; counted as an error |
| `cache` | the client's cache; an `unknown` verdict stays out of it |
| `Enable`, `GoBad` | an operator, and the world |
| `lookups`, `excused` | history, for the properties |

The cache's limit and its expiry are left out: a run is shorter than the one and looks up
fewer targets than the other. Links are not created or deleted during the sweep, and their
targets do not change; `LinkStore` has those races for one link.

## A panel of the dashboard

`Dashboard.tla` is `usePoll` in one panel and the API behind it.

| Model | Code |
|---|---|
| `question`, `generation` | the hook's key, and the ref that tells a stale answer |
| `data`, `error`, `loading` | the hook's state |
| `visible`, `timer`: `Fire`, `Hide`, `Show` | `visibilitychange` and the interval |
| `Open`, `Retry` | the key changes; the user's `refresh` |
| `flight`: `ReadCache`, `Query`, `WriteCache`, `Land`, `Fail` | a request in `routes/analytics.ts`: quantize, read Redis, ask ClickHouse, write Redis; the answer or error arrives |
| `cache`, `Key` | the entries, and `analyticsCacheKey`, in which the clock is quantized; a key of totals has no time zone, but has the window, which begins at a midnight of the viewer's unless the preset is 24h |
| `Intl`, `From` | the viewers' time zones, and `resolveAnalyticsWindow` of a preset |
| `OthersAsk` | the requests of other viewers, which fill the same cache |

`Flight` bounds a request, though `fetch` has no timeout here: the browser's and the
platform's stand for it. An answer is what it is about, its window and the zone it was
made for. `since` is history:
when the panel was last shown or given its question.

## Analytics and time zones

`TimeZones.tla` is `packages/shared/src/time.ts` as operators; a zone is what `Intl` says
of it, an offset that changes at most once. `AnalyticsReads.tla` resolves a query to a
window, a source and a granularity (`shared/analytics.ts`), counts what each of the three
tables would (`analytics-store.ts`), and fills the series (`analytics/series.ts`). Its
state is the zone, the clock, one link's clicks as each table has them, and a reply; its
actions are a row inserted (`Insert`), a rollup that has caught up (`Roll`), a preset or
an explicit window asked for, and `QueryTotals`, `QuerySeries` and `QueryBreakdowns`, in
any order and with inserts between them. A breakdown is cut at `BreakdownLimit` values.
`seen` is history, what each query's table had: two parts of one reply may differ by what
was inserted between their queries (`Late`), and the properties show that they differ by
nothing else.

The unit is half an hour, so that zones of half an hour exist, and a day has four hours:
the algorithms know only that days are whole hours. `Midnight` and `CivilDay` are the
reference: they look for the day on the wall by enumeration. The SQL is modelled by the
rows it selects; the dimensions of the breakdown are alike, and there is one.

## Intake

`Intake.tla` composes what happens to a click before the pipeline has it, and to a target
before the link store has it. Its pure parts are modules of their own.

| Model | Code |
|---|---|
| `UrlSafety` | `safety.ts`: the network of a host, the blocks of IPv4 and IPv6, IPv6 text with its gap and a quad at its end |
| `Targets` | the issues of a target, in order, from `assessUrlSafety` and from `targetUrlSchema`; `canonicalizeUrl` |
| `Slugs` | `slug.ts`, `base62.ts`: validation, unbiased drawing, encoding and decoding |
| `UserAgents` | `user-agent.ts`: ordered lists of patterns over the tokens of real User-Agents |
| `Inputs` | what is said of the four, one input at a time |
| `Post`, `Patch`, `target[l]` | the two routes that take a target |
| `Visit`, `sent`, `Lose` | `evaluateLink`, `buildClickEvent` and `trackClick` at the edge; events that take their time, or are lost |
| `Ingest(p, event)` | `verifyInternalToken`, `clickEventSchema`, `enrich` with `saltFor` and `hash`, in process `p`; then a row, or none where the buffer is full or Redis fails |
| `Fields`, `Bounds` | the optional fields of an event and the length the schema allows each; the edge cuts the User-Agent and the referrer only |
| `seed[p]`, `memo[p]`, `StartProcess` | the salt from the environment, or a random one; the memo of one day's salt |
| `NextDay` | midnight in UTC |

Abstractions: HMAC is injective; a User-Agent is the sequence of its tokens and a pattern
the set of tokens it matches; a target is its length, its blanks and the URL it parses to,
since the parser is the platform's. `MCIntake` starts either with the system or with one
input, and an input takes no step.

## What the runs check

Each `MC*` module gives the constants their values; each `.cfg` is one question.

| Run | Instance | What it shows |
|---|---|---|
| `ClickPipeline_safety` | 2 processes, 3 clicks (1 does not parse), raw table and rollup, buffer and batch of 2, lease of one cycle | `NoLoss`, `CountedOnce`, `RollupsAgree`, `AckOnlyConfirmed`, and that the pipeline implements `ClickDelivery` |
| `ClickPipeline_live` | 2 processes, 3 clicks (1 does not parse), batches of 1, up to 3 faults | `EveryClickCounted` |
| `ClickPipeline_stop_mid_tick` | 1 process, stop during a tick | violates `AckOnlyConfirmed` |
| `ClickPipeline_lease_lapse` | 2 processes, cycles of 2 batches and a lease that covers 1 | violates `OneFlusher` |
| `EdgeCache_staleness` | 1 visit, 2 API requests, TTL 2, lag 1, flight 1, expiry at 6, clock to 7 | `BoundedStaleness`, `EntryDiesWithLink` |
| `LinkStore_safety` | 2 slugs, URLs, owners and requests, 2 slug attempts, 3 writes | `KeyFollowsUrl`, `StatusAsAsked`, `DedupUntilSwept`, `SlugsKept` |
| `LinkStore_dedup` | the same | violates `DedupWithinOwner` |
| `RateLimiter_windows` | 3 requests, limits of 2 per address and 1 per owner, windows of 4 and 3, clocks up to 1 ahead, timeout 1, clock to 5 | `AtMostLimit`, `RetryIsHonest`, `DecidesAsRedis`, and that the limiter implements `SlidingWindow` |
| `AbuseReview_review` | 3 reports (2 of one link, 1 of an invented slug), 2 operators, pages of 2, 2 faults or deleted reports | `QueueIndexesTable`, `StaysUntilReviewed`, `EveryReportReviewed` |
| `Rescan_sweep` | 4 links (2 with one target), pages of 2, ceiling 2, fresh for 2 days, 2 faults | `WithinBudget`, `CompleteUnlessWarned`, `OnlyFlaggedDisabled`, `SkippedUntouched`, `FlaggedIsDisabledInTime` |
| `Analytics` | the panel: a link and the totals, 2 zones, cache and poll interval 2, flight 1, 2 changes, clock to 6; or the reads: zones that change by half an hour or an hour either way, at every instant about the window, presets of 1 and 3 days, 3 explicit windows, a click anywhere, in one zone two, in a breakdown of 1 value | `OwnAnswer`, `BoundedAge`, `LoadingEnds`; `StartsItsDay`, `StepsByDays`, `SeriesAddsUp`, `AccurateToAnHour`, `BarPerDayInWholeHours` |
| `Intake_rows` | 27 octets and 3 groups for addresses, a base of 3 for slugs; 2 processes, 3 environments, 3 edge tokens, 4 visitors (1 with a city that is too long), 2 days, 2 clicks, 3 starts | `HostsAreJudgedByAddress`, `OneKeyPerPage`, `SlugsAreSound`, `ProductIsNamed`, `AcceptedIsServed`, `UniqueVisitors` |

Why the bounds are enough:

- **Click pipeline.** Two processes give both flows of both, so every pair of users of
  the in-flight list. Three clicks are a full batch and one more behind it, with one
  that does not parse in either place. A lease and a cycle of two batches reach the
  cycle's limit. Two tables are the smallest case in which an insert reaches some.
- **Edge cache.** A stale value needs one visit that reads it, one writer that
  replaces it and one more whose KV operation comes late. The clock runs to 7, past
  the 5 units of `StaleFor`, and past the expiry at 6.
- **Link store.** Every property names at most two requests, slugs or owners. Three
  writes are a create, a change by one writer and a change by another who read
  before it.
- **Rate limiter.** Three requests are one more than the larger limit. The clock runs
  past the longer window, so a key expires with a member in it and a script runs
  late on either side of that. The second check has the lower limit, so that it
  refuses what the first has recorded.
- **Abuse review.** A page of two has room for the one slug nobody created and the link;
  with more such slugs than fit, `EveryReportReviewed` fails (see below). Two reports
  of the link put one before and one after each step of an operator.
- **Re-scan.** Four links, a ceiling of two and verdicts that stay fresh for two days are
  the most the ceiling can serve; two pages of two cut the scan in the middle.
- **Dashboard.** Six ticks hold a request, an interval, an expired cache entry and a
  second request; two changes are a new question and a return to the old, or a tab
  hidden and shown.
- **Analytics.** Nothing in the code tells two changes of the clock apart that are days
  away from the window, and every position of one change about it is tried. Windows
  are short, old (raw rows deleted) or long (daily rollup). Two clicks are one that is
  inserted before a query and one after it, or two values of which one is cut off; they
  are more than every zone needs, so one zone has them. The panel and the reads take no
  step in common and share `TimeZones`' constants: `MCAnalytics` runs either.
- **Intake.** There is a number on either side of every bound `classifyIpv4` and
  `classifyIpv6` draw. A base of 3 does not divide 8 bytes, as 62 does not divide 256.
  Two clicks on two days at two processes are the smallest case in which a memo of
  one day's salt can be the wrong one.

`CHECK_DEADLOCK` is off where a run really comes to an end: `RateLimiter` and
`AbuseReview` handle each request once, `Dashboard` has a clock that runs out and
`AnalyticsReads` one reply, and an input of `Intake` takes no step. It is on elsewhere:
idle processes tick, visitors and writers come, and the re-scan runs every day.

## Fairness

- **`ClickPipelineLive`.** `setInterval` fires again and again in a running process (weak
  fairness of `BeginTick`); an `await` settles, because Redis commands and inserts have
  timeouts (weak fairness of `FlushStep`); the shutdown hook ends (`Release` or
  `Exit`); a lease nobody renews expires (`LeaseLapses`). A process that is down need not
  come back: the last conjunct assumes only that some process with the flusher enabled
  is running again and again.
- **`AbuseReview`.** A command that was sent runs or times out (weak fairness of `Add`);
  an operator's request goes on to its end (`Operate`). What operators choose is up
  to them: the strong fairness of `Act` says they do not pass over the same link on
  the first page for ever, which is an assumption about people.
- **`Rescan`.** The scheduler starts the job every day, and a run goes on (`Job`).
- **`Dashboard`.** The panel's own request is served or fails, by the `Flight` above. The
  interval needs no fairness: the answer to the first request ends the loading.

Failures are not fair: they are at most `MaxFaults`. Without such a bound ClickHouse, or
the table the re-scan updates, may fail for ever, and nothing could be promised.

## What is proved

The proofs hold for every value of the constants that the `ASSUME`s admit. Every
module's type invariant is proved and is the first conjunct of the others; no run
repeats it.

**`ClickPipelineProofs`.** `TypeCorrect` needs nothing else. The others come in two
halves, joined by `OneFlusher`:

- What makes a flow the only one at work. `OneFlusher` is not inductive, since nothing in
  it says why a second flow is refused. `Exclusion` adds that a flow works only in a
  process in the right state (`Life`) and only while its process has the lease and has
  batches left (`Hold`). It is preserved by every step but two: a lease that lapses under a
  flow of its holder, and a stop signal that falls into a tick. So
  `OneFlusherWhileLeased` assumes of a behaviour that it has no such step (`LeaseIsKept`,
  `StopsBetweenTicks`), and nothing of the constants: production's are admitted, where the
  TTL covers 3 inserts and a cycle may have 20. `OverlapsAreOutOfLease` assumes nothing and
  is about every behaviour: of two flows that work at once, the batches of one have
  outlasted its lease, or its process is stopping. These are the two violation runs, and
  there is no third way.
- What follows when one flow works at a time, whatever the reason. `OneFlusherSuffices`
  and `OneFlusherCountsOnce` assume `[]OneFlusher` and use nothing of leases or processes:
  - no loss, and acknowledgement of confirmed batches only: `Custody` says that what a flow
    holds is what is in flight (`Claim`) and that a flow about to acknowledge has seen every
    table count its rows (`Confirmed`). An `ack()` is then a step of the only flow at work,
    on the batch it inserted;
  - agreement of the tables: what one counts, or an abandoned insert may still write, is in
    flight until all count it (`Agreed`);
  - each click once: `Ledger` says where a click can be. One that is still in the buffer is
    in no table and no abandoned insert (`Unsent`, `Waiting`); one in flight that a table has
    counted is in the last block of that table (`LastIfInFlight`), so that its retry, which
    is the same block, is discarded; and an abandoned insert is executed while the table
    remembers its block (`Abandoned`), which is where `LateInWindow` is needed;
  - `ClickDelivery` is implemented: every step of the pipeline takes a click, counts some,
    settles some, or leaves the promise's variables alone.

`NoClickLost`, `AckedIsConfirmed`, `TablesAgree`, `ClicksCountedOnce` and
`PipelineImplementsDelivery` join the halves for kept leases.

**`EdgeCacheProofs`.** `CacheTypeCorrect`, `StalenessIsBounded`,
`EntriesDieWithTheirLinks`, with no assumption beyond the constants' types. What a
visitor is told descends from a copy taken earlier, so the invariant `Fresh` follows
the copy: how old a read can be (`Lagging`), how old what an operation carries can be
and how far its TTL may reach (`Carrying`), how long a visit may hold a copy
(`Visiting`), and when the entry made of it evicts itself (`Evicting`). The bound is
the sum of these.

**`LinkStoreProofs`.** `StoreTypeCorrect`, `StatusIsTheOneAskedFor`,
`SlugsStayWithTheirOwners`, `KeyIsThatOfTheUrl` and `DedupStaysWithinTheOwner`, with
DynamoDB's deletions and without an assumption about them. The item of a slug, an old
version of it, its index entry and the requests that have found it each name an owner.
They name the same one until an item of the slug is deleted (`Owned`): no step but the put
of a free slug brings a new owner, and a slug that was never swept is free only while
nothing names it (`Standing`).

**`RateLimiterProofs`.** `LimitHolds`, `LimiterImplementsSlidingWindow`,
`RetryAfterSuffices` and `InMemoryDecidesAlike`. That Redis
counts members says nothing of requests, so `Safe` links the two: a script's stamp is
when it was sent, give or take the skew (`Sent`), every member was asked for
(`Logged`), a request passes a key once (`Once`), and the member of a request that was
let through is in the set, and the key alive, for as long as the request counts
(`Remembered`). The last is where the window shrinks to `Sure`. For Retry-After, `Bounded`
adds that no set has more members than the limit: a full one has exactly that many, and
when the oldest is gone there is room, whatever the rounding of the seconds. The
in-memory limiter's list is a bijection from positions to the entries of the set, so that
its filter leaves as many as the script's trim, and in an ordered list the first left is
the oldest.

**`AbuseReviewProofs`.** `QueueIsAnIndex` and `ReportsStay`. A slug leaves the queue by a
`clear` or with a Redis that is lost, and nothing about the queue says which reports its sender knew of. `Seen` does:
who is about to clear has seen every report that waits, and where a late `clear` may
run, none waits.

**`RescanProofs`.** `BudgetIsKept`, `NothingLeftUnnoticed`, `DisabledOnlyIfFlagged`,
`SkippedIsNotStamped`. `Sound` says that lookups are among the links checked (`Budget`),
rows in progress are as the table has them (`Current`), only matches make a verdict
malicious, through the cache too (`Justified`), and below the ceiling every link behind
the cursor is fresh, in the page or excused (`Covered`).

**`AnalyticsProofs`**, of the reads. `StartOfDayIsRight`, `StepsAreDays`,
`CountsAreAccurate`, `SeriesIsComplete` and `ABarForEachDay`, for any clicks, windows and
presets, in zones whose clocks change by less than half a day (`ReadsConstants`; a zone
that crosses the date line is not one), and where raw rows are queried only while they
are kept (`RawRetention + Lag <= Kept`). `zonedStartOfDay` looks at the offset twice: the
second look is at an instant on the right side of the change unless that change crosses
the midnight. `addZonedDays` goes by way of noon, which half a day of change cannot move
out of its day. The walk of `fillSeries` and the fold over its points are functions
defined by recursion; each is shown equal to a closed form that satisfies its equation,
at the least argument where it would differ. The points then partition the rows
(`CountedInParts`), and the walk lands once on every day from the first to the last that
has begun before the window's end: today, but yesterday at the midnight itself. A reply's
parts are compared over what their tables had (`seen`), so the theorems hold whatever is
inserted between the queries. The
names of `AnalyticsReads`' state and specification carry "reads" so that this module can
extend it and `Dashboard`.

**`AnalyticsProofs`**, of the panel. `OwnQuestionAnswered` and `AnswerAgeBounded`. A
request of the current generation asks the panel's question, and what it carries is as
fresh as its stage says (`Flying`, `Cached`). For the age, `Polled` says that there is no
gap in what the panel asked: every interval since it was shown has a request, under way
or ended.

**`IntakeProofs`.** `TakenIsServed` and `VisitorsAreUnique`, for any targets, visitors, environments and processes. A stored target has no issue (`Taken`):
`assessUrlSafety` finds none exactly if the target is short enough and `Sound`, and both
routes ask that of it, in either order. A row's hash is a function of its click alone
(`Hashed`), since the salt a process keeps is of the day it is for and of its own seed
(`Memoized`), which under a configured salt is everybody's (`Seeded`); and an event's
number and the visitor it is of determine each other (`Numbered`).

Its other half is of the inputs tried one at a time, and needs no invariant: an input is
what it was at the start.

- `SlugsHold`, for any base, byte size, lengths, reserved words and numbers
  (`SlugsConstants`; `ReservedInSmallLetters`, which the list in `slug.ts` meets). That
  every slug is drawn from as many streams of bytes is shown without counting them:
  the bytes that make a digit each keep their multiple of the base and get the other
  digit as their remainder, which turns the streams that make one slug, one to one, into
  streams that make the other (`Relettered`). What `encodeBase62` and `decodeBase62` compute
  is found at the least number where they would differ; that the functions defined by
  recursion exist is itself built number by number (`Recursion`).
- `KeysHold`, for any URLs whose parameters are pairs of numbers (`ParamsArePairs`: names
  and values in byte order). A sort is its outcome: a parameter's place is how many stand
  at or before it. Two lists are sorted into one exactly if they have every pair equally
  often, by way of each parameter's twin in the other list, its like with as many before
  it; and that they have is what `Page` says of two URLs.
- `HostsHold`, for any three octets before a last one of 2, and any eight groups
  (`InputsConstants`). A block is an interval of addresses, which the first octets decide
  (`BlocksAre`); the lemma behind the theorem (`QuadIsJudged`) has every last octet above
  1, since `::0.0.0.1` is the loopback address and not an embedded one. The text of an
  address is taken apart where its first `::` is, which is where `Spelled` put it
  (`GapIs`), and what lies on either side is read back (`JoinedIsRead`). A quad takes the
  colon before it along (`QuadTakenOff`): no harm, but where that was half of a `::` and
  what is left is no literal (`ColonLeftOver`). An address
  that embeds none is judged by masks, and a mask is the two bounds of its block
  (`MasksAreBounds`).
- `ProductsAreNamed`: a User-Agent matches a pattern if a part of it does (`HasOfBoth`), save
  for an Android tablet, which depends on what follows (`TabletOfBoth`). A system matches no
  browser's pattern and no browser a system's (`SystemIs`, `BrowserIs`), so that each is
  named as it would be alone.

Only model-checked, not proved:

- liveness under fairness, which is out of the prover's reach: `EveryClickCounted`,
  `EveryReportReviewed`, `FlaggedIsDisabledInTime`, `LoadingEnds`;
- the three violations, which are counterexamples.

## Where code and documents disagree

`flusher.ts:112-131`: `stop()` flushes while a tick may still be flushing
(`ClickPipeline_stop_mid_tick`). An acknowledgement then deletes a batch that is claimed
and not inserted, which `flusher.ts:19-20` calls the one thing that must never happen.

`analytics/pipeline.ts:154-166`: the lease's TTL covers three insert timeouts, and a cycle
may have 20 batches (`ClickPipeline_lease_lapse`). Two flushers then work at once, though
`flush-lease.ts:68-71` asks for a TTL longer than a cycle and `pipeline.ts:162-163` says
that no lease lapses while an insert is in flight.

`dynamo-link-repository.ts:331`: the ttl of an expired link's item is left in place, and the
slug is free once DynamoDB has deleted it (`LinkStore_dedup`), against
`link-repository.ts:72`, `links.ts:282` and `schemas.ts:65-69`. A create may then be answered
with a link another owner has created under that slug since, against `hash.ts:19`.

Met while modelling, with no run of their own; the properties above state what holds
instead:

- **Write-back.** `apps/edge/src/kv.ts:63`: a link disabled since is cached again;
  `edge-cache.ts:7` wants it to stop now.
- **Verdicts.** `services/rescan.ts:152`: the verdict about the URL the re-scan read is
  stored on the URL an edit has set since, against `links.ts:231`.
- **Slugs given again.** An edit that was under way when a slug's item was deleted
  changes the second owner's link, under a dedup key of the first's (`links.ts:253`);
  `KeyFollowsUrl` excepts that case by name.
- **Deduplication.** While the urlHash index lags, a create may be answered with a link
  whose URL has just been edited, or get a second slug for a URL the owner has one for
  (`links.ts:130` promises neither happens).
- **Reports.** `admin.ts:152` says that a new report puts a link back on the queue. One
  that arrives while an operator's action is under way is removed with the entry. An
  entry outlives the reports it is about, which DynamoDB deletes after 365 days: "the
  reports are the record, the queue is an index over them" (`abuse-repository.ts:19-21`)
  is true for a year. An entry of a slug nobody created can be cleared by no one, and enough of them fill the
  first page, which is all an operator sees.
- **Rate limits.** A script that is sent again may be refused because of its own first
  run (`rate-limiter.ts:63`), and a request the owner's limit refuses has used up some
  of its address's.
- **Re-scan.** "The sweep resumes from a different set of links next time"
  (`services/rescan.ts`) holds while the ceiling, times the days a verdict stays fresh,
  covers the table. Past that, links late in the scan are never reached
  (`FlaggedIsDisabled` is the property without the bound).
- **Polling.** The error of the last question is shown with the next until that is
  answered (`use-poll.ts:91`); of two answers of one generation the older may land
  last.
- **Totals.** `analyticsTotalsCacheKey` has no time zone, because the totals of a window
  are the same in every zone (`analytics-cache.ts:18-21`: "byte-identical"). They are,
  but the body carries the zone of whoever asked first, and a window of 24h begins at the
  same instant in all zones: `Fits` asks for the zone of a link's answer only. The web page
  does not read it.
- **Days.** In a zone whose clocks go back over midnight, `zonedStartOfDay` returns the
  second of the two midnights; where they go forward over it, one that is late
  (`time.ts:126-138`). `StartsItsDay` excludes both with `ChangesAcrossMidnight`.
- **Sources.** `shared/analytics.ts:195` says that source and granularity cannot disagree,
  as windows under 12 hours are always served from raw rows. One that lies past the
  raw rows' retention is not, and only the clamp keeps its buckets at an hour.
- **Bars.** "Last 7 days" has eight bars in a zone of half an hour (`series.ts:61`
  against `analytics.ts:230-231`): the rollup's first hour begins in the day before. And it
  has six in the first 15 seconds of every local day: the clock is floored to the cache's
  tick (`analytics-cache.ts:88-91`), so `to` is that midnight, and the walk ends before it
  (`series.ts:47`). `BarPerDay` says so.
- **Reply.** The tile, the chart and the panels are three queries (`analytics-store.ts:186`),
  and the flusher inserts between them rows that are older than the window's end: they
  differ by those until the next poll.
- **Targets.** POST measures a URL with its blanks, PATCH without; PATCH runs the
  schema first, so what is `unsafe_url` for the one is `invalid_request` for the
  other. They do not differ on what they take (`AcceptedIsServed`).
- **Literals.** `parseIpv6` does not read `::` right before a quad (`safety.ts:266-285`
  leaves one colon of it), and `classifyHost` then takes the text for a name of several
  labels: `public`, against the rule of `safety.ts:186-203`. The URL parser writes every
  literal in groups, so no target's hostname has a quad; `ReadsSpellings` states both.
- **Events.** `click.ts` has the edge cut what is too long, as "a backstop ... rather than a
  limit real traffic can hit". It cuts the User-Agent and the referrer; a country, city,
  time zone, PoP or address that is too long is not cut and the click is refused.
- **User agents.** A Windows Phone that names Android is counted as Android.

## What is not modelled

`PROJECT.json` lists every component. Left out for good: HTML pages, headers, log lines,
the wiring of the HTTP server and the rendering of the web app, which are functions of
text or choices made once at start; the in-memory stores of the tests, but for the rate
limiter; the scripts that create tables; the SQL ClickHouse runs; what `Intl` and the URL
parser know.

Of the modelled parts: `GET` routes that only read; Workers KV's own read cache, up to a
minute per location; commands ioredis queues while disconnected and sends after their
caller gave up, in the click pipeline (the rate limiter and the review have them); two
processes whose lease owner ids collide for want of a `HOSTNAME`; an operator's enable
of a deleted link (`admin.ts:128`); the eviction of the Safe Browsing client's cache
(`safe-browsing.ts:131`); the Redis of the rate limiter losing its data.

## Plan

Done: every module of the plan with its runs, and the proofs of all but the properties
listed above. What is left, in this order:

1. **Late commands in the click pipeline.** A push, drain or acknowledgement that runs
   after its caller gave up and after others have run, as `Unheard` has it for the rate
   limiter; and lease owners whose ids collide.
2. **Compositions.** `AbuseReview` with the statuses of `LinkStore` and the entry of
   `EdgeCache`, so that an operator's action is one step of all three; `Intake` with
   `ClickPipeline`, so that a row is a hash and not an id.
3. **The rate limiter's Redis** losing its data, and the bound that still holds then.
