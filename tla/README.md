# Verification of sherlock-web

TLA+ specifications of this repository, TLC configurations that check them on
small instances, and TLAPS proofs of the results that matter most. Source
references are to files of the repository; `PROJECT.json` maps every definition
to the lines it stands for.

## 1. The system

sherlock-web is a FastAPI process with a browser console. A user opens a *case*
(`POST /api/investigate`), streams it (`GET .../stream`, server-sent events), and
the process runs a *pipeline* of engines over it: sherlock in worker threads,
maigret, WhatsMyName and its own detectors on the event loop, then enrichment,
verification, correlation. Everything durable is in one SQLite (or Postgres)
database. Two kinds of code run at once: `async def` handlers, coordinators and
the watchlist monitor share one event loop and are atomic between awaits; `def`
handlers, the quick scan and the sherlock shards run in threads and interleave
with the loop at every database statement, every lock and every call they post.

| component | state it keeps | operations | talks to | module |
|---|---|---|---|---|
| Investigation lifecycle (`app.py`) | `investigations`, `runs` rows; one semaphore; coordinator tasks; stream queues | create, rerun, claim + stream, queue, scan, settle, save history, delete, startup sweep | pipeline, browser (SSE), database | `Investigation`, `CaseLifecycle` |
| Pipeline (`recon/pipeline.py`) | shard threads, engine tasks, pivots, found rows | stages in order; shards post to the loop; cancels children when the run ends | all engines, router, enrich | `Pipeline`, `Gathering` |
| Run router (`recon/router.py`) | per run, under one lock: tallies, transient queue, retry registrations, observation buffer | `observe`, `drain_transient`, `begin_retries`, `finish` | shards, engine callbacks, site health | `RunRouter` |
| Circuit breaker, site health (`recon/router.py`) | `site_health` row per (site, engine): window, failures, open-until, cooldown | `record_batch`, `record`, `open_circuits` | every run: filter at start, flush at end | `SiteHealth` |
| Site plan (`recon/plan.py`, `policy.py`) | none; reads policy and open circuits | filter full and reduced sets of three engines | router, pipeline | `SitePlan` |
| WhatsMyName scan (`recon/whatsmyname.py`) | semaphore, stealth budget of one scan | check a site, retry disguised, gather | pipeline, stealth ladder | `WmnScan` |
| Pivots and detectors (`email_pivot.py`, `phone_accounts.py`, `brokers.py`, `domain_pivot.py`, `detectors.py`) | none between calls | ask every module, record, tally | pipeline, exposure, dossier | `Pivots` |
| Retrieval and enrichment (`recon/retrieval.py`, `enrich.py`, `ladder.py`, `adapters.py`) | per-host backoff, memo, control cache, ladder budget | fetch with retry, back off, escalate, judge | the network | `Enrichment` |
| Stealth browser (`recon/stealthweb.py`) | one session, two locks, last host, cookies | start, check, fetch, clear | ladder | `StealthBrowser` |
| Verification, confidence, correlation (`verify.py`, `confidence.py`, `correlate.py`) | a union-find per run | judge a page, score a row, bond rows, cluster | pipeline | `Judgement`, `Correlation` |
| TTL cache and its users (`cache.py`; `geo.py`, `breach.py`, `timeline.py`, `adapters.py`) | entries with an expiry, LRU order; the geocoder's lock and time | look up, ask, store, evict | outside services | `SourceCache` |
| Avatar proxy (`app.py`) | LRU bounded in entries, bytes, age; a gate | serve an image, embed thumbnails in a report | console, report | `AvatarProxy` |
| Watchlist monitor (`recon/monitor.py`, `app.py`) | `watchlist`, `watch_alerts` rows; the tick's batch | create, toggle, delete; tick, stamp, light scan, diff, write | run router, database | `Watchlist` |
| Quick scan (`app.py` `/api/search/stream`) | per-scan thread, router and queue | scan usernames, save runs, stream | run router, history | `QuickScan` |
| Schema and database layer (`dbschema.py`, `dbconn.py`) | schema version | migrate, connect | everything | `Migration` |
| Proxy pool; rendering (graph, exposure, dossier, report); text helpers; guarded clients; console and Android shell; scripts | | | | section 8 |

### What is hard here

* **Threads against the loop.** `delete_investigation`, `rerun`, `toggle_watch`
  read and then write in separate statements while coordinators run; a shard's
  results and its end reach the loop as separate calls.
* **A promise split over two commits.** The `done` status, the `done` event and
  the history row are three steps; so are stamp, scan and signature of a watch,
  and the statements of a migration.
* **Failure in the middle.** Terminal writes may be lost, the sweep may fail, a
  thread may raise anywhere, a crash may fall between any two transactions.
* **Several runs, one row.** Each run filters sites at its start, buffers its
  observations and folds them into the row at its end, out of order and from a
  read that may be stale.
* **Checked, then awaited, then used.** Budgets, caches, backoffs and the
  cookie rule are tests before an await and must hold after it.
* **Blocked is not absent.** The program's own rule: silence, a refusal or a
  challenge must not become a negative finding, at any of the places where an
  answer is turned into a word.

The full list, at its lines, is `hazards` in `PROJECT.json`.

## 2. Plan

Done: the lifecycle with its abstract specification; site health; the run router; the
watchlist; enrichment; the pipeline, whose queue of calls and stages the router's passes live in;
with an abstract specification of what a run gathers; the services beside the scans; the rules
applied to what was found. Every safety property a run checks is proved as well (section 6).

Left, in order of importance:

1. An abstract specification of a circuit that opens and closes, over `SiteHealth` for one run at a
   time.
2. The proxy pool, `mark_seen` against the console's view, the console's polling after a lost
   stream, the shutdown of the stealth browser.
3. Extraction of identities and links from pages (`enrich.py`, `extract.py`) as rules over classes of pages.

## 3. The modules and the code

A step of a model is what the code does between two points where something else can run: an
`await` that suspends for code on the event loop; a transaction, a lock or a posted call for code
in threads. Operators marked `fault:` are not part of a specification. They are the seeded bugs by
which each property is shown to be able to fail.

### Investigation, over CaseLifecycle (`app.py`)

`row`, `runs` are the tables; `pc` is where the case's coordinator stands (`claimed`: the claim
has committed and the response body has not begun; `settling`: the pipeline has returned, its slot
is given back, the `done` event is held; `saving`: done is stored and said; `unrecorded`: the
terminal write was lost); `waiting` the semaphore's queue; `announced` the events put on the
stream; `deleting` the delete handlers between their SELECT and their DELETEs; `swept` whether the
last startup sweep worked. `starts` is history.

`LoopFree` states the scheduling: from the release of its slot to its end a coordinator does not
suspend (`_set_investigation`, `emit` and `save_run` are synchronous calls), so nothing else on the
loop runs in `settling` or `saving`; threads (rerun, delete) and crashes do. The claim is one
conditional UPDATE. Deletion is two steps.

External: Starlette runs the generator of a streaming response only when it starts to send it,
hence `EventGenStarts` and the possibility that it never happens; `asyncio.Semaphore` is first in,
first out, and a slot that is free is taken without suspending unless somebody waits; a database
UPDATE by id of a row that is gone changes nothing; ids are never given twice (AUTOINCREMENT).

`CaseLifecycle` has no coordinator, slot or restart: a status that moves forward, and a verdict
told to the viewer. The refinement maps the stored status to `status` and the `done`/`fatal` event
to `told`. Deleting a case that is being claimed, failed sweeps and lost writes all have to be
steps of it: that is what the refinement is there to show. What the promise says is `Settle`:
the `done` a viewer hears is the step that stores it.

### Pipeline (`recon/pipeline.py`)

A *scan* is an engine on a handle from one source (the given usernames, the variants of one of
them, the name candidates). Sherlock's scans belong to threads, one per shard; `calls` is the
loop's queue of `call_soon_threadsafe`, first in, first out, and `LoopCall` makes the oldest call.
The other engines' scans, and the pivots, are tasks on the loop; a first-come semaphore is derived
from the order in which `gather` starts them (`Admitted`). On variants the run awaits one engine's
worker after the other, so a scan also waits for its engine's turn (`InTurn`). `Over(src)` is what a stage waits for:
the done events of its threads and the ends of its tasks. `HandleFound` merges rows. `Cancel` ends
the run's own task with the inline workers it awaits; `OnRunDone` is the done-callback that cancels
the rest. `reported` is history. What a result says beyond found or not, progress events, the
router and enrichment's work on the rows are left out. A handle that is given twice is scanned twice
by the code, into the same rows; here it is one scan.

`Gathering` has no stage, thread, task or queue: accounts become known and are filed in any order,
a run sums up when all that is known is filed, nothing is added after that, and it ends once. An
account is an engine on a row; it is known from its report (`reported`), filed when the row names
the engine (`engines`), summed from the enrichment on, and the sum is what `snapshot` holds. That a
report crosses the loop's queue, and that a username and the equal candidate may report the same
account from two threads, is what the refinement has to absorb.

### SiteHealth (`recon/router.py`, the store)

`health` is the committed row of one (site, engine), `loaded[r]` the state a batch folds into,
`buffer[r]` what the run has observed, `lock` the database's write lock, `KeyFirst` the runs in
which this key comes first in its batch and is read before the lock is taken. `Apply` is `_apply`
statement by statement; the window holds 1 for ok and 0 for a failure. `since` and `count` are
history carried along in the state. A key that comes later in a batch is read under the lock
(SQLite takes it at the batch's first upsert and holds it to the commit).

### RunRouter (`recon/router.py`, the passes of `recon/pipeline.py`)

A worker goes through the handles of its plan: scan, report, drain, begin, re-scan, report again.
`transient` is the queue of failures, each told apart by the pass, its place in the pass's plan, the
site and the scan it comes from: one handle scanned by two passes can queue a check twice. A
drain takes any of the handle's failures up to the room left, since their order is the order in
which sites answered. `retrying` is the set `_retrying`. Each method of the router is one step (it holds the lock throughout);
`drain_transient` and `begin_retries` are two. Shards end when an engine raises, the other engines
carry on with the next handle. `owed`, `rescans` are history. `Sole(h)` are the handles
scanned by one pass only: the two passes that share a username (it is given and it is also a name
candidate) do take each other's failures, which the properties do not hide (section 7).

### Watchlist (`recon/monitor.py`, the endpoints of `app.py`)

`batch` is the list of rows `_due_watches` returned, with the values read then: the diff and the
baseline test use those. `age` counts from `last_run_at`; a watch is due when it reaches
`Interval`. A light scan is its outcome, any pair of the keys found and the keys it could decide
about. `DueWatches(ids)` is the SELECT of the due rows among `ids`, oldest id first and cut off at the
batch's size. `verdict`, `baseline`, `rest`, `paused`, `written` are history. Rows are read in id order
(the code orders by nothing; the table scan yields them by id).

### Enrichment (`recon/enrich.py`, `retrieval.py`, `ladder.py`, `adapters.py`)

One phase, one task per row, all on the loop. `at` is where a row's task is suspended: waiting for
its host's lock (`new`), for a slot (`queued`), for an answer (`get`), for a tier of the ladder (in
the slot, or after it when an empty shell is rendered), for the control. Locks and slots are
derived from `at`. An answer is a class `classify()` can tell apart (`Classified`; a run's `Answer` and
`TierAnswer` are subsets of them, by assumption). `backoff` counts ticks, and a
host may start the phase backed off, since the run's `HostState` is shared with discovery.
`asked`, `told`, `probes`, `renders` are history.

### The services beside the scans

* `SourceCache` (`cache.py` and its five callers): `entries` is `_data` in LRU order; `source`
  chooses the caller, whose operator (`GeocodeSays`, ..., `AdapterSays`) translates what its code makes of
  each class of reply (found, absent, nothing to store), and which waits in `queue` for the
  geocoder's lock and its interval or does not. `told` and `unclear` are when the source last
  said something of the key, and when a reply in `Misread` last came for it, one that says nothing
  of the key and is known to be taken for an absence (section 7).
* `AvatarProxy` (`app.py`): the LRU as a sequence of url, size and expiry beside the byte counter
  `bytes`; requests of `/api/avatar` and the tasks of one report pass the gate, look again and
  fetch. `Trimmed` cuts off the shortest prefix after which both bounds hold, which is where the
  loop of `put` stops; `Weight` is the reference the counter is compared with. `kept` is the expiry of
  the last body put and not evicted.
* `StealthBrowser` (`stealthweb.py`): `starter` and `tab` are who holds the two locks, `jar` the
  hosts whose cookies are in the one context, `fetch` where each coroutine is. A clear may fail
  (`leaky`), a fetch may fail or be cancelled with the page half loaded, the browser may die.
* `QuickScan` (`app.py`): `thread` goes through `_run_scan`, which may raise at each database
  call, at a scan, in `finally`; `posts` holds the events for the response, `history` the rows. On
  Postgres the driver's errors are none the guards catch.
* `Migration` (`dbschema.py`, `_init_db`): `db` is what is committed, `txn` what an open
  transaction adds. Two processes go through the same list of statements, crash and boot again, with
  or without the recon package, from four kinds of database. On SQLite a CREATE or ALTER takes effect at
  once until the first INSERT opens the transaction.
* `WmnScan` (`whatsmyname.py`): `doing` is where a site's check is, `left` the shared budget,
  `limited` the sites that asked to slow down. `ClassifyFetch`, `ClassifyResponse` are the code's, on
  answers reduced to their code, marks and blockedness.

### The rules

These are pure functions of the code. Their modules let the environment hand over one input of
every kind and state what must hold of the result.

* `Correlation`: `found` are up to `Rows` accounts of a pool, `candidates` the indexes of those that
  take part, of which some avatars arrive (`DownloadAvatars`); the pairs in `unseen` are compared one
  after the other (`Compare`: placeholders, conflicting names, common phrases, the score) and joined in the
  union-find `parent`. `Root` follows the parents. The reference definition is what a profile
  reaches by spreading over the bonds (`Spread`, `Connected`).
* `Judgement`: what a page is (a profile, a block, the site's page for everybody) the verifier cannot
  see, so the environment hands over every combination of what the code reads off one (`Readable`;
  only what the code itself ties together is tied: a structured name is metadata);
  `VerifyUsername` is the order of the rules, `AccountConfidence` and `AccountTier` the score, over all
  rows of evidence. `JudgementFits` is about how the signs are weighed. It does not promise
  that the verdict is true of the page; where it is not is told in section 7.
* `SitePlan`: six filter calls over the catalogues of three engines, with policy and circuits, while
  other runs may move the circuits once.
* `Pivots`: each source answers in one of its ways, in any order; `entry` is what is recorded,
  `observed` what the router hears, `EmailSentence` what the dossier says of it.

### MCParts

The parts from `RunRouter` on that share no state are explored by one run: `MCParts` chooses a
part at the start and lets only that part step, the others standing still in one state, so the states
add up instead of multiplying. All the parts are extended, none instantiated, so the run checks
the very definitions the theorems are about.

## 4. The runs

| run | instance | states | shows |
|---|---|---|---|
| `investigation` | 2 cases, 1 slot, fair | 30k | safety under crashes, shutdowns, failed sweeps, lost writes, reruns and deletes at every step; refinement of `CaseLifecycle`; streams end; claimed cases settle |
| `investigation_orphan` | 1 case | | finding: a history row outlives its case |
| `pipeline_run` | one username that is also the only candidate, one variant; sherlock, one engine on the loop, one pivot | 2.0M | no late result, a returned run is complete, what outlives a run, no hang; refinement of `Gathering`: nothing found is lost |
| `health_breaker` | 2 runs, one reading before the lock; window 4, trips after 2 in a row or 60 % of the last 3, cooldown 1 to 2 | 1.4M | the breaker's invariants; a fold under the lock loses nothing |
| `health_lostupdate` | as above, both reading before the lock | | finding: lost update |
| `watch_keys` | 1 watch, 2 keys, 1 client, 1 failure | 654k | what alerts and signatures may say |
| `watch_due` | 4 watches, 2 per batch, 2 batches to an interval, 1 failure, no keys, fair | 155k | no hot loop; no starvation |
| `watch_missed` | 1 watch, 1 key | | finding: a lost account never reported |
| `enrich_phase` | 6 rows on one host: denied, API, 3 pages, 1 over budget; 2 slots, 1 browser fetch, fair | 650k | politeness, bounds, one control per host, every target judged |
| `enrich_absent` | 3 accounts of one API | | finding: absent without a request |
| `parts` | eleven parts, one per behaviour (below) | 1.2M | one property or two of each part |
| `quick_lost_find` | 1 username, 1 site | | finding: a recovered account missing from the stored row |

What the invariants say is written above each of them. Why the bounds are enough:

* **Investigation.** Two coordinators contend for one slot, which makes every hand-over contended.
  There is no bound on steps: the state space is finite because a case is claimed once. Longer queues and
  more slots are covered by the theorems, which hold for any finite set of cases.
* **Pipeline.** The username and the equal candidate file results into the same row by two threads
  and a task; the variant makes a stage whose thread starts later. Several engines on
  the loop, which meet in the rows, wait for their turn on the variant and contend for a semaphore,
  longer shards and several usernames are covered by the theorems, which have every property of the
  run. `NothingHangs` is an invariant: while nothing of `CanGoOn` holds, the run
  and all it started are at rest. `CanGoOn` says by hand what is ENABLED of `Progress`;
  `GuardsAreExact` of `MCPipeline` compares the two, and can be added to the run.
* **SiteHealth.** `MaxClock` 4, `MaxObservations` 2 per run, and no run starts after `MaxCommitted`
  4 observations: a circuit can open, be served, be retried half open and open again with the
  doubled cooldown (which is also the cap), the window fills and slides, and the two runs overlap in
  every way. The bounds are tests in `Tick`, `Observe` and `StartRun`. The proofs have no such
  limits (the bounds are arbitrary constants there).
* **Watchlist.** Two keys let one be gone while the other is unchecked; `MaxWritten` saturates a
  history counter; `MaxFailures` 1 is one crash or one failed run at every point. `watch_due` has no keys,
  since neither of its properties depends on what a scan finds. Its four watches are as many as
  two batches of two hold, so the last one waits behind three that are due at the same time.
  `DueIsScanned` is stated under `HasRoom`: the watches are no more than the batches of one interval
  hold (`MaxWatches <= MAX_WATCHES_PER_TICK * (Interval \div MaxLag)`). Each batch takes the first
  due watches by id, and an id is due again only an interval after its stamp, so with room for all
  none is passed over for ever. Without the condition the property fails with one watch more: TLC
  shows it for 5 watches here, for 3 with batches of one and interval 2, for 4 with batches of one and
  interval 3. Nothing in the code enforces it (section 7).
* **Enrichment.** Everything is per host but the slots, the budgets and the semaphore's queue, so
  one host with more pages than slots is the contended case. Two slots let a control probe and an
  API request run next to a page fetch. The answers leave out `wall`, `reset`, `refused`, `page`,
  which take the paths of `walled` or `gone`. Backoffs of one and two ticks overlap.
* **Parts.** *Router*: two passes, one handle shared, two sites, cap 2, so a pass meets an exhausted
  cap before, during and after its drain, and the passes have different site sets, the situation of
  the name candidates. *Cache*: two keys in a cache of one, TTL 2, two callers, three ticks: expiry,
  eviction, replacement, the geocoder's queue; eight classes of reply, one for each distinction some
  source's code makes. *Avatars*: bodies of one, two and four bytes against
  three bytes in all, two images, two viewers and a report, a gate of two; evictions are for bytes,
  since two images never exceed two entries (the theorem has any bounds). *Browser*: two hosts, three fetchers, of which one
  starts, one loads and one waits. *Quick scan*: two usernames, two sites, retries of either, SQLite.
  *Migration*: server and import tool, four databases, SQLite and Postgres. *WhatsMyName*: four sites
  (denied, high-value or not), two slots, a budget of one. *Correlation*: up to four rows of ten that
  differ in picture, name, bio, site and reality, in every selection. *Judgement*: all combinations of signs
  on a page (5,388) and all rows. *Plan*: sites with one and two URLs, two spellings of a name, an alias, a duplicate; every
  denied set; one move of the circuits. *Pivots*: four sources of every kind of answer.

Deadlock is not checked: every one of these systems may come to rest (all cases settled, the run
over, all rows judged), and the bounds stop the others. The liveness properties and `NothingHangs`
say what must have happened by then.

## 5. Fairness

* `Investigation`: weak fairness of each coordinator's step and of the creation of the coordinator.
  The event loop runs every ready callback; engines have time limits, so `run_pipeline` ends; a slot
  goes to the head of the queue. Requests, disconnects, deletes, crashes and restarts have none.
  What `StreamsEnd` rests on besides is proved: one coordinator can go on until all have ended
  (`NobodyStarves`), they go on forward only and in turn (`NobodyOvertakes`), and each that ends
  has posted the sentinel (`EndedIsTold`).
* `Pipeline` states weak fairness of `Progress` (threads are scheduled, engines and pivots time
  out). That a run comes to rest under it has two safety halves, which need no fairness and are proved:
  there is a step until all is at rest (`NothingHangs`), and every step uses up finite work
  (`NothingRepeats`).
* `Watchlist`: the monitor's steps other than failures, the restart, and the clock. A scan ends
  because its requests time out. Clients owe nothing.
* `Enrichment`: some row's step, since the loop runs what is ready and requests and tiers have
  timeouts; no row is owed a turn of its own. The clock is not fair: a row that meets a backoff is
  answered without waiting. `SomebodyGoesOn` and `RowsMoveOn`, which are
  proved, are the two safety halves of `EveryTargetJudged`: some row can go on until each has its
  verdict, and every step moves one row forward. `GuardsAreExact` of `MCEnrichment` compares the
  guards written for the proof with what ENABLED says.

## 6. Proofs

TLAPS checks the eight modules `Investigation_proofs`, `SiteHealth_proofs`, `RunRouter_proofs`,
`Pipeline_proofs`, `Watchlist_proofs`, `Enrichment_proofs`, `Services_proofs` (stealth browser,
WhatsMyName scan, quick scan, migrations, cached sources, avatar proxy) and `Rules_proofs` (site
plan, pivots, judgement, correlation), for every value of the constants that meets the named
assumptions of their modules: a finite set of cases, at least one slot; positive thresholds,
`TRIP_RATE_WINDOW <= WINDOW_SIZE` and the base cooldown below the maximum (the code has a window of
50, rates over the last 20 if there are 10, and cooldowns from 15 minutes to 4 hours); finite site
sets; at least one shard and one slot for candidates; a budget that is a number; hosts and
fetchers other than the marks for none; answers that `classify()` can return; a positive lifetime
and size of the cache; bounds and sizes of bodies that are numbers; site lists in which a name
stands for one site (an alias of WhatsMyName for one spelling); finitely many sources of a pivot and
words of a bio, and a label (site and address) that says which page it is. Three assumptions are
made by single theorems. `ResponsesAreWhole` has the quick scan on SQLite (`~Postgres`): on Postgres the
property is false (section 7). `Pipeline_proofs` assumes `Distinct` where it needs it: usernames differ from
one another and from the tags of the two other sources. `UserEditsStick` assumes `OneClient`: the toggles of a
watch do not overlap. The handler reads the row and writes it back in two statements, so of two
overlapping toggles one is lost whatever the monitor does; the run `watch_keys` makes the same choice.

**Investigation.** None of the properties is inductive by itself: that a case is started once rests
on a coordinator being before its scan only if nothing was started, which rests on `pending` rows
being untouched. `IInv` says for each place of a coordinator what is stored (`RowInv`), how often it
was started (`StartsInv`), what was announced and saved (`AnnouncedInv`), and that the queue
holds exactly the waiting coordinators, each once (`QueueInv`). Each part has a lemma over all
actions; the slot bound needs the cardinality of `Scanning` to grow by at most one, where a slot is
free. `TypeCorrect`, `RunsAtMostOnce`, `SlotsAreRespected`, `VerdictStored` and `HistoryFollows`
follow. `Refinement` maps each action under `IInv` to a step of the lifecycle or a stutter, and
`TerminalFinal` uses the refinement's step. `SlotsComeBack` counts: if nobody can go on, nobody scans, so
all slots are free, and then the head of the queue, which `QueueInv` makes a waiting coordinator
(`HeadWaits`), could be served. `EndsAreTold` has its own small invariant, over what a step may do
to a case and its stream (`StreamStep`); that nothing follows the sentinel is read off it.

**SiteHealth.** The invariant (`IInv`) is that every state of the row, the committed one and each
one being folded, is `Sound`, and every buffered observation is in the past. Since rows are copied
and folded independently, soundness has to survive `Apply` on any sound state, stale or not:
that is lemma `ApplySound`, one part per conjunct. The hard part is `TrippedForReason`: a failure
appended to a window that is trimmed must not lower the failure rate of the last
`TRIP_RATE_WINDOW` entries below the threshold; the counting lemmas map the failures of the old
suffix into the new one. `Retrips`, `LadderCorrect`, `ClimbCorrect`, `BenchCorrect` and
`StreakCorrect` follow. `LockedFoldCorrect` adds `Ahead`: a batch that read under the lock still
holds it, and its state is the committed one plus what it has folded.

**RunRouter.** `RetriesAdd` is inductive only with `retrying` finite (`Counted`); `ReturnFlushes` needs
that a run returns when nobody works any more and that then nothing is observed (`Flushed`). For
`RetriedExactlyOnce` there are two halves. Not twice: `Spent` says that a check of a handle that one
pass alone scans has been scanned again at most `Allowed` times, which is once if that pass has gone
past the handle or is in its second scan of it, and never before. Not forgotten: `Kept` follows each
failure the run still owes a second look. It is in the queue (`Waiting`), in the hands of the pass
that scans its handle (`Served`), or the cap is used up; a pass that has gone past a handle leaves
nothing of it behind unless there is no room (`Attended`). `Books` holds what a queued failure may be: of
a place in a pass's plan (`InPlan`), and of a second scan only when that scan has begun.

**Pipeline.** `ThreadsOutlive` rests on `Settled`: a settled run has ended, so no stage starts
anything. `ResultsComeFirst` is about the queue. `InOrder` says that an `engine_done` is queued or
made only after its scan has closed and a `done_event` only after its thread has ended (`Rested`,
`Queued`), that no result stands behind either (`Ordered`), and that variants lie idle until
their turn (`Untouched`), since starting them would otherwise reopen a closed scan. `NothingIsLost`
adds three parts: what is over stays over (`Past`); what was reported is in its row or on its way
(`Recorded`); the snapshot is the rows (`Taken`). Lemma `Covered` (every sherlock scan is
some shard's, by the remainder) and `Drained` (after the candidates no scan works and no result is
queued) tie them together. `ReturnsWhole` is about the other engines as well. The call an ended
task leaves behind is posted before the task's end is seen and made in order (`Posts`, `Queues`);
`LastWord` says that the last word about a scan, `engine_done` or the report of its failure, is on
its way or was heard once the scan is `Finished`. When a run returns every scan that began was waited
for, so each has closed, is `Noted` among the run's engines, and its failure, if it failed, is
`Explained`.

`NeverStuck` needs what each waiting part waits for (`Awaited`): an ended thread has announced its end, on
the queue or made; an idle thread's turn is still to come; a pivot is cancelled only by a run that
ended. If no call is queued, then of the scans at work in a lane the one that stands first is admitted
(`FirstAdmitted`; a lane is finite, `LaneFinite`, and `LeastOf` finds the first), so if no scan can go
on none is at work (`AtRest`) and the stage that awaits them is over (`RunGoesOn`). `WorkIsUsedUp`
ranks stages, threads, scans and pivots and shows for each action that it moves something forward and
nothing back. Both are over all steps, a cancellation at any time among them.

`GathersAll` is the refinement of `Gathering`. Its invariant `InHand` adds to `Recorded` the other
direction: what a row holds, or a queued call says, was reported (`Truthful`); a row with an engine is in one of
the lists (`Listed`); the snapshot is empty until it is taken (`NotYet`). Each step is then of one of five
kinds (`GatherStep`): it finds, it files what was found, it sums up, it ends the run, or it touches no account; it
is a step of `Gathering` of that kind, or a stutter when the account was known and filed before.
What has to be shown at the sum is that all that is known is filed (`AllFiled`), by `AllOver`
and `Recorded`; that nothing is found or filed after it, by `Drained`.

**Watchlist.** Diffing against a signature read before the awaits is sound because of `Batched`: each row
of a batch stands for another watch and still holds that watch's signature, which nobody else writes,
and `Known`: what a signature holds was found when it was last decided. `GoneAlertsAreSound` follows.
For `SignaturesAreReported`, `Reported` gives every key beyond the baseline its alert, and `Resulted` says
that while nothing failed a stamped watch has a result or is being scanned for it, so that only the
first result is silent. `Rested` relates the time since the last scan to the time since the stamp,
for rows and for what waits in the batch; `IntervalsAreKept` is read off it. `UserEditsStick` needs
`Toggled`, about handlers between their read and their write, and `Orphans`: the alerts that
outlive a watch are of one result.

**Enrichment.** Each step moves one row and takes one lock or slot that was free when it did
(`Enters`, proved per action), charges what it spends (`Spends`), and only pages wait for a slot (`Paged`). `Exclusive`,
that no two rows of a host are at its page or at its control, and `Unanswered`, that a control is
probed only while the host has none, give `HostsAreFetchedOneByOne`. `LimitsAreKept` counts: `SlotsKept`
(a set grows by one where there was room), `Rendered` and `Probed` (a probe that waits for a slot
is an attempt not yet sent). `BackoffIsRespected` is that every step which opens a conversation
tested the backoff in the same step. `NoCircleOfWaiting` is the argument from the order of
acquisition: if no row can go on none is in flight; then every slot is free, so none waits for one;
then nobody holds a host's or a control's lock, so none waits for these. `OnTheWay` adds that a row
ends only with its verdict, and `Turns` that each action of a row moves it forward.

**Services.** *Browser*: `Sound` says who holds which lock where, and `Jar` that the cookies are the
last host's, unless a clear failed; `LocksAreLetGo` adds the other direction, that a held lock has a
holder at work. *WhatsMyName*: `Accounted`, what is left and what was spent make
up the budget. *Quick scan*: `EndedWell` is the order of the queue (the sentinel is the last thing
posted and the last taken, so no response ends early or waits for ever); `Owed` counts an event as
told when it is sent or still queued (`Told`), and lists what must be told by now: the finds of the
pass under way and of every row stored, the end of each username gone through, the reason of an early
end. *Migrations*: `Recorded` says that a version on record has its statements behind it, whoever made
them; `Abreast` that each process sees what lies behind its step (`Made`), in the database or in its own
open transaction. A crash drops only what that process alone saw, which is why the two have to be
told apart. *Cached sources*: `Backed`, an entry that is still fresh repeats what its source said
less than a lifetime ago, or is the absence made of a reply in `Misread` as recent; with one entry per key
(`OfOneKey`) a look-up, a store and an eviction each keep it. *Avatars*: `InBounds` ties the counter to
the weight of the sequence. Lemma `EqualStretches` says that equal stretches of two sequences weigh
the same, from which what removing, appending and cutting do to the weight follows. `HeldWhileFresh`:
an image whose last body has not expired is held, unless it was evicted; a caller that the second
look turns away therefore goes out for lack of it.

**Rules.** *Plan*: `Settled`, a set once filtered has no denied site and each site that was left out is
reported for its reason; the short set of Sherlock is made while the circuits of its full one still
stand. *Pivots*: `Accounted`, each source is to be asked, asked or recorded, and what is recorded is what
its answer stands for; the tallies are then counted over the records (`NoStandsForNoes`). *Judgement*:
lemma `StrikesDoNotConfirm` follows the rules for the page with and without a sign against it: one that is
confirmed with the sign gets past every rule before its own without it; `BackingIsNotRefuted` and
`NothingOfNoPage` do the rest (`VerdictsFit`). The score is compared per row of evidence
(`TiersAreEarned`). *Correlation*, evidence: a bond's score can only reach the threshold on points that
the evidence in `ImageEvidence` and `WordEvidence` gives, whatever the other rows are. *Correlation*,
clusters: `ClusterInv` keeps a root map `rho` and a depth for the forest (`Forest`) and says that `rho` joins
what the bonds join (`Joins`). A union redirects one root and keeps both (`Merged`). That `Root`, a bounded
iteration, arrives at `rho`, and that `Spread` has closed after as many steps as there are rows
(`Span`, by cardinality), is shown without an induction theorem: lemma `Least` gives the least number at
which the statement fails, and the one before contradicts it. The same argument types the running
weight of the avatar cache.

**Only model-checked.** Liveness (`StreamsEnd`, `ClaimedCasesSettle`, `DueIsScanned`,
`EveryTargetJudged`), which rests on fairness, and that `CanGoOn` is what ENABLED says (`GuardsAreExact`):
both are beyond the prover. That the quick scan loses no recovered account, and the other promises of
section 7, are false and stay with the runs that show it.

## 7. Where code and documentation part

Runs that end in a violation; the quoted promise and the line are in `findings`:

1. `investigation_orphan`: a delete between the `done` write and `save_run` leaves a history row
   without a case (`app.py:1285`).
2. `health_lostupdate`: the first key of a batch is read outside the transaction (`router.py:402`).
3. `watch_missed`: an account that a scan could not check drops out of the signature and cannot be
   reported gone any more (`monitor.py:245`).
4. `enrich_absent`: a host that backs off answers with its last status, and a 404 among concurrent
   answers makes the next account absent unasked (`adapters.py:158`). The answer is cached as well
  (`adapters.py:220-221`), so later runs repeat it for six hours.
5. `quick_lost_find`: the quick scan's row is built from the first pass although its retry found
   more (`app.py:849`); `recovered` of its summary is always 0 for the same reason.

Met while modelling, visible in the models, with no run of their own:

* `router.py:692`: the retry cap (`router.py:25-26`) is tested in `drain_transient` and charged in
  `begin_retries`: two overlapping passes make three retries under a cap of two.
* `router.py:695`: a failure of a retry stays in the queue and a second pass over the handle drains
  it; `router.py:685-686` says it is not retried. `pipeline.py:426`: a candidate pass drops the
  base pass's failures it drained; `router.py:24-26` promises a retry. `RetriedOnce` is therefore
  about handles of one pass.
* `router.py:289-291`: the store's guard names `sqlite3.Error` and `OSError`; on Postgres the
  driver's error escapes. In a quick scan it ends the thread in its setup or in `finish()`, before `done` and
  the sentinel, and the response is never told to end. `ResponseIsWhole` is shown for SQLite; with
  `Postgres = TRUE` the model `QuickScan` violates it.
* `router.py:29`, `router.py:511` and `README.md:163` promise that runs rotate over the proxies. `pick` does go
  round, but each run makes a pool of its own (`router.py:590`) whose index starts at 0, so every run
  takes the first proxy that is not banned.
* `enrich.py:574`: whether the host was backing off is read before the wait for a slot, so a row that was
  not fetched can say it was (`fetched` of a `rate_limited` verdict).
* `retrieval.py:600`: the ladder starts without looking at the backoff, `enrich.py:15` promises no
  more requests to such a host. `NoNewConversation` is about what does look: page, API and control
  requests.
* A document the code does not know is stored as an absence and served for the cache's lifetime, by
  every source in its own way (`Misread`, the exception stated in `AnswersAreTimely`): the geocoder
  takes anything but a list for an empty one (`geo.py:271-274`); the IP locator an object without `success`
  unless its message speaks of a limit or quota (`geo.py:338-347`); the breach service any JSON without
  a readable infection (`breach.py:82-98`, `breach.py:140-143`); GitHub any object without `created_at`
  (`timeline.py:239-245`); an adapter whatever its `exists_when` does not accept
  (`adapters.py:168-175`), and the 404 of finding 4. Error statuses, timeouts and bodies that are no
  JSON are never stored.
* `geo.py:237` promises one request per second; the time is noted at `geo.py:265` after an answer, so a
  request that fails does not count.
* `verify.py:34` (`"Blocked" is not "absent"`): a block page the verifier does not
  recognise, which looks like the control's and has the site's og tags or a title of more than
  four words, is refuted by rule 4 (`verify.py:160-174`, `verify.py:420-430`); where no control ran and it
  names the handle it is confirmed. A real profile is refuted too if its title alone, a template around its
  handle, equals the control's once the handles are masked (`verify.py:413-417`). The verifier sees the
  same signs in all these cases, so no property of it can tell them apart.
* `monitor.py:339`: each tick takes the first five due watches, and nothing limits how many there are
  or how long their scans take. With more than one interval has room for, the first ones are due
  again before the last ones' turn, which are then never scanned (`HasRoom`). If five scans
  and the minute's sleep take ten minutes, intervals of six hours have room for 180 watches.
* `email_pivot.py:161-163` says that a search that could not look is not a negative one; without
  the library the tally is of 0 modules, which is not "undetermined" (`test_email_recovery.py:222` pins
  it for an empty list), and the dossier says that no exposure was found. A module that says nothing reads as a decisive no.
* `confidence.py:110-111`: a name candidate is said to stay weak; with a second engine and an identity it
  reaches 40, which is `strong`.
* `correlate.py:26-27` asks for a genuine avatar match between accounts of one site, but `correlate.py:278`
  takes a picture that two handles of one site share for a placeholder, so only pictures that
  are nearly equal can bond there; `BondsNeedEvidence` states what both rules leave.
* `monitor.py:309`: after a failed first run the next result is not silent (`monitor.py:8-9`);
  `NewIsReported` excludes it. `monitor.py:324`: an account missing from one scan is
  reported as new when it is seen again.
* `app.py:1723`: deleting a watch deletes its alerts, `app.js:3321` says "Its alert history stays".
* `app.py:1438`: leaving the page does not cancel a run, although `app.py:1032-1033` and
  `app.py:1234-1236` count on it.
* `dbschema.py:94-95` and `app.py:602-603` say that the monitor's and router's tables are created before the
  index migration; `migrate` creates them after the migrations.
* `migrate_to_postgres.py`: its table list omits `started_at`, `finished_at` and `error` of
  `investigations`.

## 8. Not modelled

* The scan engines themselves, parsers and text: requests to outside services. They reach the models
  as answers, observations and outcomes.
* `graph`, `exposure`, `dossier`, `report`, `rows`, `connections`: pure rendering of a summary,
  without state between calls (one sentence of the dossier is in `Pivots`). `names`,
  `permutations`, `phone_pivot`, `htmltext`, `validate`, `sources`: string work; what it yields is
  an input of the models.
* The proxy pool: a run takes the first proxy of the list that is not banned (section 7), one read
  over one row per proxy.
* `safeweb` (address checks, clients) is one answer of every model that fetches. Hashes, shingles
  and text similarity are classes in `Correlation`.
* `aclose` of the stealth browser, which only the end of the process calls; the loader of the site
  lists; the polling of the console (`app.js`) and the Android shell. The viewer of `Investigation` and the
  client of `QuickScan` stand for their streams.
* Postgres differs in three places that matter: every key of a batch is read unlocked, which is
  `KeyFirst = Run`; a migration is one transaction; the driver's errors pass the store's guards.
* Scripts, tools, tests, assets; of the copying tool only the second process that boots the schema.

`components` in `PROJECT.json` has every part and its status.
