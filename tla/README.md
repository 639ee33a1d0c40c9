# Verification of affiliate-auto-poster

TLA+ models of the backend in `app/`, of its migrations and of its backup
scripts, TLC configurations that check them on small instances, and TLAPS
proofs of their main safety properties for every value of the constants. Paths
below are relative to the root of the repository.

## Reading order

| File | Content |
| --- | --- |
| `PublishLedger` | what the publishing engine promises about posts, everything else forgotten |
| `PublishingQueue` | the publishing engine: jobs, queue, workers, retries, dead letters, requests |
| `MCPublishingQueue`, `Publish*.cfg` | its small instances |
| `PublishingQueueProofs` | type correctness; the engine implements the ledger; failed jobs keep a dead letter, closed jobs stay closed, posts are accounted for, claimed rows have an owner, retries are bounded and counted |
| `PostLifecycle` | what the scheduler promises about a scheduled post |
| `Scheduler` | the scheduler of confirmed posts: claims, deliveries, verdicts, outbox |
| `MCScheduler`, `Schedule*.cfg` | its small instances |
| `SchedulerProofs` | type correctness, one owner per post, outbox and verdicts, the scheduler implements the life cycle |
| `ProductCatalog`, `MCProductCatalog`, `Catalog.cfg` | import, refresh, edit and delete of products over the table and the cache |
| `ProductCatalogProofs` | type correctness, one row per lookup, cache, answers, history and refreshes |
| `ShopeePage`, `MCShopeePage`, `Page.cfg` | how the parser makes an offer of a page |
| `ShopeePageProofs` | the object is cut out whole, its search loses no product, prices are understood, the made-up price comes last |
| `ContentEngine`, `MCContentEngine`, `Content.cfg` | templates of texts and images, their caches, generated texts and their versions |
| `ContentEngineProofs` | type correctness, version numbers, answers of regenerations, the template caches |
| `ImageLog` | what the image engine promises about the versions of an image |
| `ImageVersions`, `MCImageVersions`, `Images.cfg` | the image engine: generate and regenerate around the call to a provider |
| `ImageVersionsProofs` | type correctness, the versions implement the log, history rows, the cost of an image |
| `Platform`, `MCPlatform`, `Platform.cfg` | tenants, workspaces, members, subscriptions, the other rows and the audit timeline |
| `PlatformProofs` | type correctness, one membership, limits follow the plan, grants go back to administrators, the audit timeline is complete |
| `Migrations` | every schema migration as its statements, and the transactions of the driver |
| `Deployment`, `MCDeployment`, `Deploy.cfg` | migrations, start of servers, backup and restore composed |
| `DeploymentProofs` | files of images, the migration of the products, the recorded revision, the schema a server sees |

Definitions named `X_Something` and commented `mutant` are deliberately broken
variants of `X`. No specification uses them; they show that a property can fail.

## The system

A FastAPI server and worker processes share one SQL database (the shipped
compose file uses SQLite). Every request and every worker pass opens a session
of its own; a handler reads, calls an external service, writes and commits in
that session. Routes declared `def` run in a pool of threads and interleave
between any two statements; routes declared `async def` interleave at an
`await` only. No component holds a lock over a call to the outside, so what a
handler read before the call may be stale after it.

| Component | State | Operations | Interacts with |
| --- | --- | --- | --- |
| Publishing engine, `services/publishing_service.py`, `repositories/publishing_repository.py` | jobs, queue rows, dead letters, history, accounts, schedules, audits; a circuit breaker per service object | publish now, schedule, retry, cancel, process a queue pass, recover dead letters, expire | workers call it; it calls social providers; analytics commits its session |
| Workers, `workers/*`, `services/publishing_workers.py` | none of their own | poll loops for the queue and retry passes, a dead-letter pass nothing starts | publishing engine |
| Social providers, `services/social_providers.py` | none | one post on the first provider that takes it | publishing engine |
| Scheduler, `services/scheduler_service.py`, `repositories/scheduler_repository.py` | scheduled posts with a version, executions, audits, outbox events | schedule, confirm, run due posts | API requests; publisher; analytics commits its session |
| Post publishers, `utils/post_publisher.py` | none | send one post to a webhook | scheduler |
| Analytics, `repositories/analytics_repository.py` | event rows | record an event **and commit** | every service that passes its session |
| Product catalogue, `services/product_service.py`, `repositories/product_repository.py` | product rows with unique URL, item and fingerprint, version history, TTL cache per process, list of refreshes | import, refresh, update, delete, search | marketplace providers, cache |
| Marketplace parsing, `utils/shopee_parser.py`, `utils/shopee_validator.py` | locals of one call | a page to an offer | product catalogue |
| Templates, in `ai_content_service.py` and `image_engine_service.py` | template versions, template ids cached per process | create, update, delete, read by version or latest | cache, generation |
| Generated images, `image_engine_service.py`, `image_engine_repository.py` | images with numbered versions, cost, history; files in the storage backend | generate, regenerate, preview, history | image providers, storage, templates |
| Generated content, `ai_content_service.py` | contents with numbered versions, cost | generate, regenerate, history | AI providers, templates |
| SaaS, `services/saas_service.py`, `repositories/saas_repository.py` | tenants, organizations, workspaces, members, invitations, subscriptions, payments, usage, keys, notifications, calendar, insights, feedback, audit events | one write with an audit event per request | API |
| Migrations and start, `alembic/`, `services/bootstrap_service.py` | the schema, the revision number, the first administrator | upgrade, downgrade, start | every component rests on the schema |
| Backup, `scripts/backup.py`, `scripts/restore.py` | a backup directory with a manifest | backup, restore | database, image files |
| Authentication, users | users | register, login | API |
| Dashboard, middleware, configuration, legacy captions and images, cleanup and health workers, frontend | little or none | single statements, read-only queries | |

### What is hard

* **Publishing**: a job is claimed, loaded, posted and recorded in separate
  steps by several workers, while the request that created it publishes it as
  well, its owner cancels or retries it, and a recovery pass puts it back.
  Correct means: a claimed row is always somebody's work, a failed job can be
  found again, a closed job is left alone, retries are bounded, no post is made
  that the code did not provide for, and every job ends somewhere.
* **Scheduling**: concurrent runs claim batches under optimistic locking,
  `record_event` commits in the middle of the handler, and what fails after it
  can no longer be undone. Correct means: one run per post, one delivery per
  post, verdicts that are true, an outbox that tells the state.
* **Images and texts**: version, cost and duplicate test of a regeneration rest
  on a read made before an await; version, file and history row are stored in
  three steps. Correct means: versions run on without gaps, no charge is lost,
  nothing is stored twice in a row.
* **Catalogue and templates**: caches that outlive the row, queries that assume
  one row, numbers taken from a read made before the call to a marketplace.
  Ids of deleted rows are given again. Correct means: the cache leads to another
  product or template through such an id only, every version of a row is in its
  history, no lookup meets two rows.
* **Platform**: checks of rights and rows made before the write, partial
  UPDATEs. Correct means: rights go back to administrators, one membership per
  user, limits that belong to the plan, an audit timeline that tells what is
  there.
* **Deployment**: migrations that die between statements, servers that start
  together, backups of a directory and a database that change. Correct means:
  a server that runs finds its schema, an upgrade can be taken up, no row
  loses its file.

`PROJECT.json` lists every hazard at its line with the properties that watch it.

## PublishingQueue

### State

`status`, `retries`, `expiry` are columns of `publishing_jobs`; `queue` and
`visible` (`visible_at <= now`) of `publishing_queue`; `letters` holds the ids
of a job's dead letters, `history` counts its history rows. `posts` is the
outside world: what the platform accepted. `permits` is a ghost: how often the
code put a job up for a post. `pc`, `batch`, `cur`, `seen`, `held`, `failures`
are the local variables of each session: the entries it claimed, the job in
hand, what it read of it, the dead letters it listed, and the circuit breaker
of its service object.

A job stands for its idempotency key: a second request for a key returns the
stored job, and of two concurrent ones the second fails on the unique column.

### Steps

A step is one transaction of one session, or the provider call between two.

| Action | Code |
| --- | --- |
| `PublishNow`, `SchedulePublish` | `_create_and_optionally_publish` up to its commit |
| `SelectCandidates`, `ClaimCandidates` | the SELECT and the conditional UPDATEs of `claim_due_queue_jobs` |
| `LoadJob`, `LoadRaises`, `ExpireJob` | `_process_single_job` up to the expiry test |
| `MarkFailure`, `CircuitOpen`, `ProviderRefuses`, `ProviderAccepts`, `SavePublished` | the rest of `_process_single_job` with `_mark_failure`, `_mark_retry`, `_trip_circuit` |
| `ProcessingRaises` | any other exception, counted and dropped by `process_queue` |
| `RequestRetry`/`CommitRetry`, `RequestCancel`/`CommitCancel` | the read and the write of `retry_publish` and `cancel_publish` |
| `ListDeadLetters`, `RecoverDeadLetters` | `process_dead_letter` before and after its first write |
| `Crash`, `BecomeVisible`, `ExpiryPasses` | a killed process, the clock |

Two details of SQLAlchemy decide the outcome of races and are therefore in the
model. A flush writes a column only if its new value differs from the one the
session loaded (`Written`): a worker that read "retry" and writes "retry" leaves
a concurrent "cancelled" alone, and the same worker writing "failed" overwrites
it. And a commit expires what was loaded, so every handler starts from a fresh
read after it.

### Abstractions

* The queue row and the job of one entry are read as one step. On SQLite no
  writer commits between the first write and the commit of another session, so
  a transaction that has begun to write is one step.
* Account state, the provider's answer and the breaker's cool-down are free
  choices; posts go to one platform, so there is one breaker per session.
* `lock_owner`, `locked_at`, `next_retry_at`, audit rows and analytics rows are
  not kept: nothing in the code reads them to decide anything.
* Back-off and publication times are the one bit `visible`. Priorities are all
  100, so any due rows may be selected first.
* The dead-letter pass takes at most 100 letters; the model takes all.
* A letter gets one more than the largest id in its table, so the id of a
  deleted letter may come again (`dead_letter_queue` has a plain integer key,
  models/publishing.py:285-301).
* `NaiveTimestamps` says whether the driver drops time zones. SQLite does;
  PostgreSQL would not. `publish_batch` runs with it, `publish_one_job` without,
  so that scheduled jobs go on to the races that the exception would cut short.

### Runs

| Run | Instance | Question |
| --- | --- | --- |
| `publish_one_job` | 1 job, 2 workers, 2 clients, 1 recovery pass, 2 faults, 2 requests | all safety properties, where every pair of actors meets on one job; the count a worker will write back is the stored one |
| `publish_batch` | 2 jobs in one claim on the shipped database, 1 retry, breaker opens at the first refusal, 1 recovery pass, no fault | every job that can be read settles, also behind an entry that raises; a recovery pass over several jobs loses no letter |
| `duplicate_post` | 1 worker, 1 client, no fault | README.md:530 against the row that is visible while the request publishes it: two posts |
| `scheduled_job_stuck` | naive timestamps | README.md:531: a scheduled job raises `TypeError` and stays claimed for ever |

Bounds. One job suffices for the races on rows, because a session's steps touch
one job at a time except in the claim and in the recovery pass; those two are
covered with two jobs by `publish_batch`. There a scheduled job raises
`TypeError` whenever it is loaded and never settles (the finding of
`scheduled_job_stuck`), so `EveryJobSettles` is asked of the others, which
share its batch. Two workers and two clients are the
least with two stale readers of each sort. One retry (`MaxRetries = 1`) gives
both sides of the exhaustion test. Two faults let a
second one fall on the work that the first one left; the theorems cover every
number. One recovery pass at a time is an assumption of
`FailedHasDeadLetter` (`OnePass` of its theorem): with two, both list a letter;
a request retries the job between the test of one and the delete of the other,
the job fails again, its new letter gets the old id, and the slower pass deletes
it. `MaxFaults` and `MaxRequests` bound only the environment. Every run
says `CHECK_DEADLOCK FALSE`: with all jobs closed and the budgets spent the
system rests. The same holds for the configurations of the other modules.

Fairness (`FairSpec`): a worker takes a step if it can, because the poll loops
never end; a request and a recovery pass once begun run to their end; back-off
ends. Weak fairness suffices since what a session is about to do cannot be
disabled by another. No client has to send a request, nobody has to start a
recovery pass, no job has to expire.

## Scheduler

`state`, `version` and `due` are the scheduled post, `events` counts its outbox
events by kind, `deliveries` is what the webhook received. `pc`, `batch`, `cur`
and `seen` are the locals of each request.

| Action | Code |
| --- | --- |
| `SchedulePost` | `schedule_post` |
| `ReadPost`, `Confirm`, `ConfirmLosesRace`, `ConfirmAgain` | `confirm_post`: the read, the locked update, the lost race, the post past confirmation |
| `SelectDue`, `ClaimDue` | `claim_due_confirmed` |
| `LoadPost`, `Deliver`, `PublisherRefuses` | `run_due` up to the publisher's answer |
| `RecordPublished`, `RecordFailed` | the two branches that record a verdict |
| `UpdateRaises`, `RefreshRaises`, `RunAborts`, `RunAbortsLate` | an exception in those branches, by where it strikes relative to the commit inside `record_event` |
| `Crash`, `BecomeDue` | a killed server, the clock |

A transaction ends where `record_event` commits it. Executions and audit rows
are written with the events and not kept apart. A confirmation of a post past
confirmation writes an event again; the repository's tests expect that.

| Run | Instance | Question |
| --- | --- | --- |
| `schedule` | 3 posts, claims of 2, 2 runs, 2 confirm requests, 2 faults, 3 confirmations | all safety properties and the refinement |
| `schedule_live` | 2 posts, 2 runs, no fault | a claimed post gets its verdict, also behind a refused one |

Three posts with claims of two give a batch, a remainder and a second run that
selects an overlapping set; two faults allow one in the published branch and a
second in its handler. Fairness: a request once begun runs to its end. Runs are
started by API calls only, so nothing obliges one to start.

## ProductCatalog

`products` holds of each row what identifies it (`src`, `url`, `fp`, `item`),
its `aggregate_version` and whether it has expired; `history` the rows of
`product_version_histories`, each with its product and number. `cache` is
`InMemoryTTLCache`, `queued` the list of refreshes. A request has a place
(`pc`), the URL it works on, the product it has found and that row as its
session knows it (`seen`).

| Action | Code |
| --- | --- |
| `Import`, `ServeCached`, `MissCached`, `ServeValid`, `NoneValid` | `import_product` up to the call: the cache, the cached row, the valid row |
| `FetchFails` | the provider raises |
| `FindRow`, `FindNoRow`, `InsertRow`, `OverwriteRow`, `UpsertRejected` | `upsert_from_provider`: the SELECT on either unique column, then the INSERT or UPDATE and the commit, or the unique column that rejects them |
| `FillCache` | the last statement of import and refresh |
| `Refresh`, `QueueRefresh` | `refresh_product` in the foreground and in the background |
| `ReadForEdit`, `CommitEdit`, `FillEdited` | `update_product` |
| `ReadForDelete`, `DeleteRow`, `DropEntry` | `delete_product` |
| `RowGone` | an UPDATE that finds no row |
| `RowExpires`, `EntryExpires`, `Restart` | the clock and the process |

An UPDATE writes only columns that differ from what the session read
(`Written`), and a row that was loaded before the call comes back from the
identity map as it was. URLs are model values with three functions: `Normal`
(query string and trailing slash go), `Folded` (lower case) and `Item` (the id
in the path).

The database is SQLite, as shipped. It enforces no foreign key, and a new row
gets one more than the largest id in its table, which may be the id of a deleted
row that a request or the cache still holds. `delete_product` drops the cache
entry of the URL that it read, after its commit; whatever fills the cache later,
or was filled under another key, goes on to hold the id. Two ghosts say when
this can matter. `ambiguous` has the products that got their id while a cache
entry or another request held it; nothing after that can tell them from the
product that had the id before. `exposed` has the products with a history row
that got its id while a deletion of another product held it (`delete_product`
loads the history rows of its product and deletes them by id). The properties
hold for every other product. Without the exceptions they fail, and TLC shows
it with `Catalog.cfg` and no fault:

| Property without its exception | Shortest failure |
| --- | --- |
| `CacheNamesItsProduct` | 4 requests: an entry filled after the delete leads to the product that got the id |
| `ImportAnswersUrl` | 5: the next import of that URL answers with it |
| `VersionsCovered`, `ambiguous` dropped | 4: a stale refresh writes its number over the new product |
| `VersionsCovered`, `exposed` dropped | 4: two deletions of one product; the slower one deletes a history row of the next |
| `RefreshFindsProduct`, `ambiguous` dropped | 4: the refresh's id is another product by then |
| `LookupIsUnique` | 5, on a catalogue without old products: a stale overwrite leaves the URL of one product and the fingerprint of another |

Run `catalog`: five URLs of two items, one of them with a query string, one
another spelling of the same item, and two that differ in case only and show no
item id; one product that was there before migration 0010 under a URL with its
query string; three requests at a time, four in all, one expiry or restart; three
product ids and five of history rows. Three requests are two writers and a third
whose read is older than both; four requests are enough to delete a product, to
give its id again and to come back to it. A refresh of the old product looks for
the normal form of its URL, does not find its row, and the unique columns reject
the insert: `RefreshFindsProduct` says that this is the one case in which a
product that is there is not found, and that no second one arises from it.

## ShopeePage

One call of `parse`, a turn of a loop or a source at a time: the search of the
closing brace behind each of the three markers (`ScanChar`, `CutObject`,
`NextMarker`, `NoState`), the search of a product in the first state object
that loads, with its stack (`Expand`, `Candidate`, `NoCandidate`), JSON-LD, meta
tags, item API and the made-up offer in this order (`AskSource`), and
`validate_payload`. A page is what its sources hold: what follows each marker it
has (`blobs`), with the text of a JSON object
with what the JSON grammar says of it (`WellFormed`: where its strings begin and
end, which backslashes escape, which braces belong together), the script that
shows this object and whatever follows, or is cut short (`Scripted`), a tree of
nodes with what is below each (`IsNode`), lists of items and tags. Loading JSON
and finding tags are taken to work; a price that is not a number is left out.
`PagesAssumption` says all this of `Pages` and `Below`, and TLC evaluates it on
the pages of the run.

Run `shopee_page` starts from every page of a set: objects with up to two
strings of up to two pieces (a brace, an escaped quotation mark, an escaped
backslash), each with different trailing texts and cut short at every place;
pages of up to three markers of which some have no object that loads; trees of
two levels and two branches; items (with none, one or two offers), tags, item
API and ids combined;
one price in each unit around every threshold; and one price in several sources
of which some show nothing usable. These are the sizes at which every turn of
the loops is taken; the theorems have objects, states and prices of any size.
`BraceEndsObject` and `PriceUnits` compare with what the page was made from,
`NoProductLost` and `MadeUpPriceIsLastResort` with the nodes below the root. A
page whose sources mean one price (`cents`) shows it in full units, or in
1/100000 where it is above 1.00 (`Priced`): the parser takes an amount up to
100000 to be in full units, so a price of 1.00 or less in 1/100000 is
misunderstood, and so is a price above 100000.00 in full units. Seen while
modelling: a product whose title is blank, or whose price is null, in the state
still counts as the candidate, and the validator or the next source decides; an
address with a slug before the item id shows no ids to the parser. Only the
first offer of an item is read (`FirstOffer`), and only the first state that
loads is searched, whether or not it holds a product: an item with its price in
a second offer, or a product in the state of a second marker, is passed over,
and where the address shows the ids an offer at 1.00 is made up although the
page shows a price. `MadeUpPriceIsLastResort` is about what the parser looks at:
the first offer of every item and the first state that loads.

## ContentEngine

Templates of texts and of images are kept, looked up and cached the same way,
so one module has both: `templates` is the row of each id, `cache` the id kept
for each group and version (or the latest). `versions`, `current` and `origin`
are the generated contents. `loop` is the coroutine that runs: a generation
gives way only at the call to the provider, while the routes that edit
templates run in threads.

| Action | Code |
| --- | --- |
| `CreateTemplate`, `UpdateTemplate`, `Drop`, `DeleteTemplate` | the template routes of both services; the cache entry is dropped after the commit |
| `GenerateFrom`, `Generate`, `Load`, `FindLatest`, `Fallback`, `FillCache` | `_resolve_template` of both services, statement by statement |
| `Regenerate` | `regenerate` up to the call, with the versions it has read |
| `CallFails`, `StoreContent`, `StoreVersion` | what follows the call |
| `EntryExpires`, `Restart` | the clock and the process |

`Polished` is what `_quality_check` makes of a text: hashtags, emoji, length.
The comparison of a regeneration is between the raw answer and the stored,
polished text of the last version it has read. The unique column on content and
version turns the number of a version into an optimistic lock.

The ids are SQLite's, as in the catalogue, in a table for each kind of template.
Deleting a template drops no cache entry at all, so even one request after the
other can mislead: where the template of an entry is deleted and the next one
created, the entry leads to the new template for as long as it lives, of
whatever category, type or version that is. `ambiguous` has the templates that
got their id while an entry, or a request about to fill one, held it, and
`CacheFits` is about all others; with the exception dropped it fails in three
requests (`Content.cfg`, no fault). Seen while modelling: a content keeps the
id of its template, so a regeneration may take the texts of another template in
the same way.

Run `content`: one category of prompts, one type of image, two versions, two
ids of each kind, one content, three texts of which one is polished into
another, two requests at a time, five in all, one restart or expired entry. Two
ids are the least with a confusion, two requests the least with a stale read;
three of the five requests delete a template, create one in its place and use
the cache in between.

## ImageVersions

`rows`, `current`, `total` and `history` are the tables: the versions of an
image, `current_version`, `total_cost_usd`, the number of its history rows.
`file` is the picture stored under the image's key. A picture stands for its
SHA-256 hash. `pc`, `cur`, `seen` and `result` are the locals of a request;
`seen` is the image with its versions as the request read it before the await.

| Action | Code |
| --- | --- |
| `Generate`, `GenerateFails` | `generate`: flush, files and commit, or files and a failed commit |
| `ReadImage` | the read of `regenerate` |
| `ProvidersFail`, `NewPicture` | `generate_with_failover`, first or second call |
| `AskVariation`, `RejectDuplicate` | the two searches for a duplicate that find one |
| `StoreOutputs` | `_store_outputs` |
| `InsertVersion`, `VersionTaken` | `add_generated_image_version`, or its unique constraint |
| `AddHistory` | `add_history`, which commits by itself |
| `Abort` | an exception or a crash between two steps |

The session's identity map decides the races. `add_generated_image_version`
queries the image again, but gets back the objects it loaded before the await,
with the versions of that time: nothing has been committed in between that
would expire them. The number of the new version and the new total therefore
come from the same old read, and the unique constraint on image and version
turns that number into an optimistic lock: whoever works from an old read is
refused. The mutant that reads the versions afresh but not the total
(`NextVersion_Reread`) loses a charge. The search for a duplicate is a query
for rows that may not be loaded, so it sees what is committed.

A step is one statement or one transaction, so requests may belong to one event
loop or to several API processes. What a provider returns and charges is a free
choice (the local provider is one that never charges); a free version adds
nothing to the total, so the flush leaves the column out, as in
`PublishingQueue`. Templates and their cache are in `ContentEngine`. Left out:
`preview`, which stores under a key of its own, deletion of a product with its
images, and answers that change nothing (404, 422 of the quality check, which
comes before the first write).

| Run | Instance | Question |
| --- | --- | --- |
| `image_versions` | 1 image, 3 requests at a time, 4 in all, 4 pictures, costs 0 and 1, 2 faults | versions, cost and history, and the refinement of `ImageLog` |

Images share nothing, so one is enough. Three requests at a time are a writer
and two with older reads, four in all allow a request after a refused one; four
pictures give each of them one of its own. Costs 0 and 1 are the two cases of
the flush. Two faults allow one in `generate` and one later. No liveness is
claimed: whether a request succeeds is up to the providers.

## Platform

`members`, `subscriptions` and the other tables are sequences, since nothing is
ever deleted; `rows` has the kinds of row of which only tenant, workspace and
number matter. `audit` is the audit timeline. `job` is what a request has read.
A request whose checks cannot become false before its commit (a tenant exists,
a user is a member) is one action; those whose checks can are two or three:
`CheckMember`/`SelectMember`/`WriteMember`, `CheckInvitation`/`WriteInvitation`,
`SelectSubscription`/`WriteSubscription`, `ListInsights`/`WriteInsight`. `Abort`
is any of them rolled back. `Flushed` is the UPDATE of changed columns.

Run `platform`: two users, two requests at a time, two tenants, one workspace,
three plans of which two share their feature flags, five requests. One
workspace is enough because no check relates two. `LimitsAssumption` (no two
plans have the same limits) is what `_plan_defaults` has; without it
`LimitsFollowPlan` fails, and so it does for the feature flags, which plans
share (below).

## Migrations and Deployment

`Migrations` has each `upgrade()` and `downgrade()` as a sequence of statements
that make, need or remove objects of the schema: a table, its indexes as one
object, and the columns, indexes and keys that a later migration works on. An
`Ensure` asks whether the object is there, as migration 0010 does. `Rebuild` is
a batch that SQLite cannot do without copying the table. The driver opens its
transaction at the first statement that changes rows; those before are
committed one by one, and the number of the revision is written last. That is
what makes an interrupted migration hard.

`Deployment` composes them with the other programs that touch the database
from outside: servers that start (schema check, user count, first
administrator), write images (file first, row later) and stop; `backup.py` and
`restore.py` step by step; deaths of each, a spoiled archive, a lost host. A
backup has a copy of the database and an archive of the images only of what
exists (`Copies`): a database without tables may or may not have a file, and a
directory without images may or may not be there. The
operator stops the servers for a restore, as `database-backup.md` (line 51)
says; for a migration `docker-compose.production.yml` (lines 47-49) starts the
backend only after the migration has completed.

Run `deployment`: three old products of which two are the same item and two
have categories of one slug, two servers, one image, three commands and one
fault, downgrades to the revisions before migrations 0010 and 0007. It starts
from an empty database and from revision 9 with any of the products.

`After[r]` is the database that the upgrades to revision `r` leave: what they
make (`Leaves`) and no later one takes away (`Loses`). The copies in a backup
directory are sequences that are empty or hold one database, one archive.

* `ServerSeesSchema` holds although a server only looks for tables. A table
  made late (the audits of 0008, the outbox of 0009, the version rows of 0010)
  is made when the columns of its migration are there and dropped before they
  go, so where the tables are the columns are too. Undoing migrations down to
  the scheduler's and upgrading again cannot break this: the downgrade of 0005
  fails on the index that the downgrade of 0008 does not make again, so the
  scheduled posts of old columns and the tables of the later migrations never
  meet.
* `RevisionHolds` has one exception, which the code has too: the downgrade of
  0008 does not make the index on `status` again.
* `ProductsResume`, `OneFirstVersion`: migration 0010 can be taken up wherever
  it was interrupted, but never finishes on products that its unique columns do
  not allow side by side.
* `ImagesHaveFiles`: since the database is copied before the images, an image
  in the backup has its file. Some restores leave rows without files, and the
  code has no step that would notice (`partial` marks them): one that is killed,
  or stopped by the checksum of the archive, between database and images; one of
  a backup that was taken before there was a database, which replaces the images
  and keeps the rows (backup.py:23, restore.py:16); and one of a spoiled archive
  in a backup without the manifest to verify it by. `ImagesHaveFiles` is about
  every other course of events; a later complete restore ends the exception.

## What is proved

All theorems hold for arbitrary sets of jobs, posts, workers, clients, runs and
any bounds, under the named assumptions `QueueAssumption`, `SchedulerAssumption`,
`ImageAssumption`, `PlatformAssumption`, `LimitsAssumption`, `CatalogAssumption`,
`MigratedAssumption`, `ContentAssumption`, `MigrationsAssumption`,
`DeploymentAssumption`, `PagesAssumption`, `NormalAssumption` and the two named
`RowAssumption`
(sets of sessions are disjoint, null values are no values, numeric bounds are
natural numbers, no two plans have the same limits, normalising a URL twice is
normalising it once, and products brought along by migration 0010 satisfy the
unique columns that it makes, every old product has a category with a slug,
downgrades go to revisions that exist, and pages are JSON, scripts and nodes as
said under ShopeePage). `NormalAssumption` is about the URL normaliser: a URL
that differs from a normal one in the case of letters only is normalised to one
that differs in the case of letters only. One theorem has a hypothesis of its
own: `FailedJobsAreFound` assumes at most one recovery pass (`OnePass`).

| Theorem | Statement | Argument |
| --- | --- | --- |
| `PublishingQueueProofs!TypeCorrect` | `Spec => []TypeOK` | inductive as it stands, one step per action |
| `PublishingQueueProofs!Refinement` | `Spec => PostsWithinPermits` | `LedgerInv`: a session posts only what is in its batch (`InBatch`), a claimable or open row still has a permit behind it (`Queued`), and posts made plus posts still to come are covered by permits (`Covered`). The count of sessions that hold a job is a cardinality, so the lemmas on it show that every action adds or removes at most one holder |
| `PublishingQueueProofs!FailedJobsAreFound` | `OnePass => (Spec => []FailedHasDeadLetter)` | a letter that the one pass has listed is still there until the pass deletes it, so the letter that a worker adds in the meantime gets another id, and the pass either deletes what it listed of a job that it puts back, or finds the newer letter left |
| `PublishingQueueProofs!ClosedForGood` | closed jobs stay closed and unposted | each action either does not concern a closed job or needs a session interested in it |
| `PublishingQueueProofs!PostsRecorded` | history and posts differ only by sessions about to save, and by faults | the set of such sessions gains a member exactly where `posts` grows |
| `PublishingQueueProofs!RowsAreOwned` | without a fault, a claimed queue row has a session at work on it | `Owned`: a row that is "publishing" has an owner that has not read the queue row yet or has read it so. An owner that ends its work therefore takes the row out of "publishing", and nobody else's write puts it there |
| `PublishingQueueProofs!RetriesAreBounded` | `Spec => []RetryBudget` | `RetryInv`: a counter beyond the limit, stored or read by a session, is paid for by permits that are neither held nor queued (`Charged`). Every step is balanced (`Balanced`: what it gives out it adds to `permits`), so what is paid for stays so, and the session that exceeds the limit gives its permit up |
| `PublishingQueueProofs!RetriesAreCounted` | `Spec => []NoLostRetry` | `Fresh`: a session that works on a job handed out once knows its stored counter. By `LedgerInv` one permit has one holder, so nobody writes the counter in between |
| `SchedulerProofs!TypeCorrect` | `Spec => []TypeOK` | one step per action |
| `SchedulerProofs!OneOwner` | `Spec => []ProcessingHasOwner` | `SchedulerInv`: who works on a post has it in its batch (`InBatch`), an owner is alone, holds the stored version and is the only one to have sent the post (`Ownership`), and without a fault no claimed post is without one (`NotAbandoned`). Ownership is needed because "the version still holds" is not preserved by steps of other runs unless they own nothing |
| `SchedulerProofs!Refinement` | `Spec => FollowsLifecycle` | under `SchedulerInv` every step is a move, a claim, a delivery or a stutter of `PostLifecycle` |
| `SchedulerProofs!OutboxIsTold`, `VerdictsHold` | `OutboxTellsState`, `VerdictsAreTrue` are invariants | `VerdictInv`, on top of `SchedulerInv`. A run that records a verdict owns a post without one, or one that it has itself recorded as published under a fault (`Sent`), so each event follows its state (`Told`). Posts that were sent and that nothing says so or will say so (`Lost`) are finitely many and at most as many as the faults (`Paid`), since only a step with a fault adds to them, and that one post at a time |
| `ImageVersionsProofs!TypeCorrect` | `Spec => []TypeOK` | from `ImageInv` |
| `ImageVersionsProofs!Refinement` | `Spec => KeepsLog` | `ImageInv`: versions are numbered 1 to `current_version` (`Numbered`), pictures are distinct (`Distinct`), what a request has read is a prefix of what is stored (`ReadsPrefix`), and what a provider returned is none of the pictures of that prefix (`ResultIsNew`). Hence a request whose number is free has read everything, and its picture is new: the insert is `Add` of the log |
| `ImageVersionsProofs!HistoryIsKept` | `Spec => []HistoryFollows` | `Followed`: `current_version` lies between the history rows plus the requests about to write one, and that plus the faults. A version comes with its writer, and a writer leaves its row or goes with a fault |
| `ImageVersionsProofs!CostIsKept` | `Spec => []CostAddsUp` | `CostInv`: a request that has read every version there is has read the present total (`KnowsCost`). By `ImageInv` a request whose number is free has read them all, so the total it adds its own cost to is the present one |
| `PlatformProofs!TypeCorrect` | `Spec => []TypeOK` | one step per action; `job` is a record of one of four kinds |
| `PlatformProofs!LimitsMatch` | `Spec => []LimitsFollowPlan` | `LimitsInv`: the rows match, and so does what a request has read. A crossing UPDATE that leaves the plan alone leaves the limits alone and the other way round, because limits tell plans apart |
| `PlatformProofs!MembershipIsUnique` | `Spec => []OneMembership` | `MemberInv`: what a request has read of a membership is still that row, since rows only grow and keep their user |
| `PlatformProofs!GrantsAreTraced` | `Spec => []GrantsFromAdmins` | `GrantInv`: the timeline is a chain (`Chain`: each grant has an earlier event that makes its actor an administrator), it knows every administrator in the table, and it knows the actor of every request that has passed the check. A demotion takes the role from the table but not from the timeline, so a request that was checked before it stays covered |
| `PlatformProofs!AuditIsComplete` | `Spec => []AuditTellsRows` | `Agreed`, with the types: what the events of a kind, tenant and workspace tell of (`ToldBy`, the pairs of an event and a number up to its count) is finite and as much as there are rows. A step that adds rows adds one event that counts as many, of the same kind, tenant and workspace, and any other event counts none |
| `ProductCatalogProofs!TypeCorrect` | `Spec => []TypeOK` | from `CatalogInv`, one step per action |
| `ProductCatalogProofs!OneRowIsFound`, `CacheLeadsRight`, `AnswersFit`, `HistoryIsWhole` | `LookupIsUnique`, `CacheNamesItsProduct`, `ImportAnswersUrl`, `VersionsCovered` are invariants | `CatalogInv`, about the stored products that are not ambiguous (`Firm`). Fingerprint and item of each are those of its URL, and no two rows clash (`RowsAgree`). A step leaves such a row its fingerprint, or removes it, or has just given out its id while nothing held it (`RowsKept`): what was on target when it was read is on target when it is written, cached or answered (`OnTarget`). The version a request has read is covered by the history (`ReadCovered`), the number it writes is one more or unchanged, and a deletion holds history rows of its own product only, but for products that are exposed (`DeletesOwn`) |
| `ProductCatalogProofs!RefreshFindsItsRow` | `Spec => []RefreshFindsProduct` | `RefreshInv`: the source of a row leads to its fingerprint (`Even`), or the row is as the migration left it, with its URL for a source (`SourceAgrees`; by `NormalAssumption` no import through another address comes to overwrite such a row), and what a request has read of the row is as good as the row (`Refindable`). So a request that inserts beside its row has read one of the second sort, and its insert clashes with the source of that row |
| `ContentEngineProofs!TypeCorrect` | `Spec => []TypeOK` | from `TextInv` |
| `ContentEngineProofs!VersionsRunOn`, `AnswersAreNew` | `NumbersRunOn`, `NoRepeat` are invariants | `TextInv`: the version a regeneration has read is stored, with the text it has read. If the next number is still free, that version is the last one, so the new number follows it and the comparison made before the call holds against the neighbour |
| `ContentEngineProofs!CacheLeadsRight` | `Spec => []CacheFits` | `LookupInv`: what a request has found, and is about to put into the cache, fits its key (`FoundFits`). A step leaves a template that is not ambiguous its category and version, or removes it, or has just given out its id while no entry and no such request held it (`RowsKept`) |
| `DeploymentProofs!ImagesKeepTheirFiles` | `Spec => []ImagesHaveFiles` | `Filed`: the images of a backed-up database, if there was one (`DatabaseCopy`), have their files in the directory until the archive is made and in the archive from then on (`InBackup`), and a restore between its two halves is marked as partial until the archive that goes with its database is in place (`InRestore`). A server commits a row only for a file it has saved, and nothing but a restore or a lost host removes files |
| `DeploymentProofs!ProductsAreTakenUp`, `VersionsAreFirst` | `ProductsResume`, `OneFirstVersion` are invariants | `Numbers`: below revision 10 no product has a version row, from it on each has one, in the database and in the backup (`Settled`), and in the middle of a migration by whether it is past the statement that writes the rows (`Versioned`). The copy that a rebuild of the products makes is there only inside a transaction (`CopyPlace`, `Opened`), so an attempt that dies leaves no copy in the way of the next, and no version rows |
| `DeploymentProofs!RevisionIsHeld` | `Spec => []RevisionHolds` | `Held`: while a migration runs, what it has made so far and what its revision stood for and it has not taken away is there (`Kept`). Two facts about all the revisions carry it over the number of the revision: an upgrade takes nothing away before its transaction is open, so its death loses nothing (`OnceOpen`), and a downgrade that ends gives back what its upgrade had found |
| `DeploymentProofs!ServersSeeTheirSchema` | `Spec => []ServerSeesSchema`, for downgrades to any revision | `Stacked`: a late table has its columns with it, and either there are no late tables (`Early`) or the scheduled posts have lost the index that a downgrade past them needs (`Late`, both in `Layered`); in the middle of a migration, how far it must be before it takes either away (`Reached`). Servers run only while no migration does, on a schema that they have found complete |
| `ShopeePageProofs!ObjectIsCut` | `Spec => []BraceEndsObject` | `ScanInv`: after each character the loop knows what the grammar says of that place: whether a string is open (`InString`), whether the next character is escaped, and as depth how many braces are open (`Open`). A step over a character in a string changes the first two as the grammar does (`CharInString`), one outside opens or closes one pair of braces (`CharAndBraces`), and pairs are open everywhere up to the last brace (`OpenAtEnds`), so the depth is zero there for the first time |
| `ShopeePageProofs!ProductsAreReached` | `Spec => []NoProductLost` | `SearchInv`: the entries of the stack are nodes, and the products below them are those of the state. A node that is no product gives way to the nodes in it, below which the same products are (`LikelySplits`) |
| `ShopeePageProofs!PricesAreUnderstood`, `MadeUpPriceComesLast` | `PriceUnits`, `MadeUpPriceIsLastResort` are invariants | `SourceInv`: where a source is asked, all before it are spent (they show nothing usable; for the state, by `SearchInv`, one product was unusable or there is none), and an offer is what its source said. If all sources mean one price, each amount that is understood is understood to the cent (`Understood`, from the bounds of the quotient in `Decimal`), so an offer is right (`OneSource`); and one source shows it, so the made-up price is not reached (`OnePrice`) |

Where a theorem depends on what the migrations are (`RevisionIsHeld`,
`ServersSeeTheirSchema`), lemmas first say of each of the twenty-eight lists of
statements which tables, columns and copies it makes and takes, and the rest of
the proof uses these facts only. `CostIsKept` is about `SumFunctionOnSet` of the
community modules, a recursive function that takes elements away in an order
left open. The first lemmas of `ImageVersionsProofs` show, by a smallest set of
elements for which it could fail, that the order does not matter: the sum is the
number of things on a heap to which each element contributes as many as it
counts for.

The parser is proved against a description of its input, not by induction over
it: the prover cannot show what a recursive definition computes for every
argument. So the grammar is stated as relations between places of a text
(`WellFormed`), and the nodes below a node as a constant function that satisfies
its defining equation (`IsNode`). Both are assumptions on the pages, and the
theorems say what the loops make of any page that satisfies them. For a
finite tree only one function satisfies that equation, the nodes below each.

Only model-checked: all liveness (`EveryJobSettles`, `ClaimedPostsClose`). The
prover has no support for fairness and ENABLED. Every safety invariant of a
passing run is a theorem.

## Where the code and its documents disagree

Two runs end in a counterexample; `PROJECT.json` quotes the lines. A job
published at once can be posted twice; on SQLite a scheduled job never gets
beyond its claim.

Further properties are stated in the modules and fail. They are no runs of the
project; each is reproduced by naming it in a configuration:

| Property | What happens | Configuration |
| --- | --- | --- |
| `PublishingQueue!RestartFreesQueue` | a killed worker's claim is never released (docs/runbook.md:17 prescribes a restart) | `PublishNaive.cfg` with `NaiveTimestamps = FALSE`, `MaxFaults = 1`, `MaxRetries = 0` |
| `PublishingQueue!RequestsRespectStatus` | cancel and retry requests write over a status that they would have refused | `PublishDuplicate.cfg` with two clients and two requests |
| `Scheduler!PublishedIsFinal` | an exception after the commit inside `record_event` turns a published post into a failed one | `Schedule.cfg` |
| `ImageVersions!VersionsKeepTheirFile` | regenerating an image replaces the file of its earlier versions | `Images.cfg` |
| `ContentEngine!RegeneratedIsNew` | the answer is compared before it is polished, so the stored text may repeat | `Content.cfg` |
| `ContentEngine!FallbackIsFree` | the template that stands in for a missing one has a name that may be taken, by a user or by an inactive predecessor | `Content.cfg` |
| `Platform!FlagsFollowPlan` | crossing updates of a subscription leave the flags of one plan under the name of another, where plans share flags | `Platform.cfg` |
| `Platform!AuditTellsRole` | crossing changes of one membership are audited in one order and written in the other | `Platform.cfg` |
| `Platform!OneSubscription` | two requests both find no subscription and insert; no unique column stops them | `Platform.cfg` |
| `Deployment!UpgradeResumes` | a migration that died before its first row leaves a table or a copy, and the next `alembic upgrade head` fails on it | `Deploy.cfg` with `OldProducts = {p1}` |

## Not modelled

The dashboard, middleware, configuration and the frontend keep no state of the
kind a model checker helps with. The legacy caption and image services insert
one row after a pure computation; registration of a user is the check and
insert that `Deployment` has for the first administrator, and tokens and
passwords are handled by libraries. The cleanup worker's `cleanup_expired`
lists the jobs of owner 0 and so changes nothing. Providers and remote storage
are I/O with a free outcome. Rate limits, business hours and `sync_analytics`
of the publishing engine are left out: they decide when or how often a request
is accepted, never what happens to a job once it is. `list_` routes, the usage
summary, customer health, optimizer score and connector status only read.

## Plan

1. An abstract specification of the template cache (a register that returns a
   template that was the newest within one time-to-live), with
   `ContentEngine` refining it but for ids given again while held.
2. The catalogue with two API processes, each with a cache of its own: stale
   entries then last until they expire, and the properties must say so. The
   proof of `CacheLeadsRight` already speaks of whatever the cache holds, so
   its invariant carries over to each of the caches.
