# Formal models of the Workforce Intelligence platform

TLA+ models, TLC configurations and TLAPS proofs for the recruiting and
GovCon-intelligence platform of this repository. Paths below are relative to
the repository root.

## 1. Inventory

The repository is a Python monorepo: FastAPI services, shared packages, OPA
policies, SQL schemas, and two Next.js front ends. `govcon-wfi`, `rules`,
`capture` and `bench` are built and tested today; the other services are
"frozen" (kept in the tree, left out of the test collection by `conftest.py`)
but are complete programs and part of the inventory.

| Component | State it keeps | Operations | Talks to | What is hard |
|---|---|---|---|---|
| **govcon-wfi** store, ingestors, contract API (`services/govcon-wfi`) | `contracts`, `agencies`, `vendors`, `recompete_events`, audit events | SAM / FPDS upsert per document, USAspending enrichment, create, patch | Postgres or an in-memory store, embeddings over HTTP, ClickHouse | select-then-insert across awaits, whole-row writes from old snapshots, re-delivery, crash between two writes |
| **govcon-wfi** sync state (`ingestors/state.py`, `sched/`, `routers/admin.py`) | one record per source in Redis: last sync, error counts, cursor | scheduled runs, paging, success and failure writes, health score | SAM, FPDS, USAspending APIs | windows, truncated paging, a source that changes while it is paged, crash before the state is written |
| **govcon-wfi** workforce API (`routers/employees.py`) | `employees` | create, patch, list | the same store | the same check-then-insert |
| **event stream** (`packages/py-events`) | Redis stream, consumer group, DLQ, ClickHouse mirror | publish, consume, ack, retry, dead-letter | all services | consumer crash, dual writes, bounded retries |
| **audit log** (`packages/py-audit`) | ClickHouse `audit_log` | record, record_many, read | all agents | failures are swallowed |
| **pipeline** (`services/pipeline`) | silver-medalist pool in memory; stages and entry times live with the clients | transition, health, route, hold, release, promote, submit to ATS | stream, Greenhouse | promote pops before it audits, ranks; clients with old stages; no idempotency keys |
| **outreach** (`services/outreach`) | A/B counts in memory; the step instances of a sequence live with the client | materialise, next step, send, classify a reply, falloff, A/B verdict | LLM, SendGrid, Twilio, stream, audit | repeated replies, labels that different parts name differently, four stores per reply |
| **candidates** (`services/candidates`) | candidates with a stored score; reads submissions, rights, do-not-contact, non-competes | create, parse a resume, search, check and submit ownership | Postgres | no natural key, a score that ages, three transactions for one decision |
| **rules** (`services/rules`, `rules/wfi`) | none (policies) | evaluate one, batch | OPA | undefined decisions, outages, policies reloaded between two questions |
| **screening** (`services/screening`) | none | pre-check, rubric, LLM judgment, audit | rules, LLM, audit | order of guard, judgment and audit; missing LLM answers |
| **interview** (`services/interview`) | chat sessions in memory | start, answer, evaluate, schedule, call | LLM, audit, Google, Vapi | answers posted twice, model output of any shape, restarts |
| **client-advisory** (`services/client-advisory`) | none | feasibility report, diagnosis of a stalled search | rules | verdicts that are neither good nor bad; empty denominators |
| **bench** (`services/bench`) | none (contractors come with the request) | alerts, co-employment, conversion fee | background-check provider | adjacent bands of days |
| **capture** (`services/capture`) | letters of intent in memory | draft, package, feasibility, heat map | | a restart loses letters; nothing signs one |
| **outcomes** (`services/outcomes`) | two models, in memory and in files | retrain, predict, retention score | | the file is not written atomically |
| **market** (`services/market`) | samples and API keys, fixed | percentiles | | |
| **py-data**, **py-llm**, **py-rules-sdk**, **py-schemas** | pools, none | repositories, model router with retries, typed client, schemas | Postgres, Anthropic | retries |
| **infrastructure**, **apps** | schemas, migrations; UI | run migrations; render | | re-run of a half-applied migration |

### What makes each of them correct

* Store and ingestors: one row per natural key (PIID, agency code, UEI, notice
  id) whatever interleaves; identifiers held across awaits still mean what they
  meant; columns one writer owns are not undone by another; what a run counted
  as handled is in the database; audit events match committed rows.
* Sync state: nothing the source published before the recorded `last_sync` was
  left unread; the health endpoint reports failing sources.
* Event stream: an event that was published is handled at least once or is in
  the DLQ, and it leaves the pending list only then.
* Pipeline: backups are promoted in their order and once; nobody is placed who was not
  vetted, whatever stages clients believe in; a stage is announced before it overruns.
* Outreach and interview: after a falloff nothing is sent; what a client was told of is on
  record; a question is asked once.
* Candidates: what keeps somebody from being submitted is seen, unless it appears after the
  table was asked; a hit of a search meets its query; a person whose one client does not post
  twice is stored twice only after a lost answer.
* Calls to providers: a success that is reported happened; a second effect has a fault.
* Rules, advisory, capture: a verdict is one that the rules, the checks and the people counted
  for it support.
* Bench: alerts and exposure never ease off by themselves.
* Outcomes, infrastructure: a stop at any point leaves the last model or no service, never
  an older model in silence; PostgreSQL has whole migration files, and all files can be run again.

## 2. Modules

| Module | Models |
|---|---|
| `ContractIngest`, `MCContractIngest` | The contract store and everybody who writes it, as coroutines of one event loop. |
| `ContractIngestProofs`, `ContractStoreProofs` | Types and unique PIIDs; everything else the tables and the audit log promise. |
| `SyncCursor`, `MCSyncCursor` | One scheduled ingestor: its window, its paging, its sync state in Redis. |
| `FeedCoverage` | What an incremental ingestor promises; `SyncCursor` implements it. |
| `SyncCursorProofs` | The window and the recorded day, and that `SyncCursor` implements `FeedCoverage`. |
| `EventStream`, `MCEventStream` | Publisher, Redis stream, consumer group and dead-letter queue. |
| `EventStreamProofs` | What happens to an entry of the stream, and how often. |
| `Screening`, `MCScreening` | Screening requests and the agent, await by await. |
| `ScreeningProofs` | Slots, audited replies, and that decisions are those of the rubric. |
| `SilverPool` | The silver-medalist pool of the pipeline service. |
| `BackupQueue` | The line of backups the pool promises; `SilverPool` implements it. |
| `PipelineStages`, `PipelineMonitor` | The stage machine and its clients, the diagnosis of a stalled search; SLA answers and routing. |
| `Providers`, `RemoteCalls` | The adapters of all services for outside providers; requests to them, with lost answers. |
| `Outreach`, `AbTest` | One candidate under a sequence, with replies; one A/B experiment. |
| `Interview` | A chat session and an evaluation. |
| `CandidateStore` | Candidates: create, score, search. |
| `Ownership` | Ownership checks and submission. |
| `Workforce` | Employees of govcon-wfi. |
| `Outcomes`, `Bench`, `Advisory`, `Capture` | The services of these names. |
| `Migrations`, `MCMigrations` | The migration runner and its files. |
| `Platform`, `MCPlatform` | All modules from `SilverPool` on, side by side. |
| `RecordProofs` | Records that requests interleave on: submissions, employees, the pool as a queue. |
| `PlatformProofs` | The properties of `Platform`. |
| `Sorting` | Sorting as Python's `sorted` and SQL's `ORDER BY` do it. |
| `DataProofs` | Lemmas about data: least counterexamples, sums, numbers of members, sorted lists, sequences. |

Operators marked `[fault]` are not part of a specification: each is a wrong version
of the definition that follows it, and exchanged for it breaks a property (`PROJECT.json`
lists them under `mutants`). They show that the properties, and each named part of a
property that is a conjunction, can fail.

### ContractIngest

*Tasks.* The SAM and FPDS ingestors, the USAspending enrichment and a set of API
clients. They are coroutines of one asyncio loop. `turn` is the coroutine that
owns the loop, `pc[t]` the await at which `t` is suspended, and every action is the
code between two awaits with the database call that ends it. `Suspends(op)` says
which awaits really give the loop away: database calls only with Postgres
(`InMemoryDatabase` never suspends), embeddings only with OpenAI
(`NullEmbeddingProvider` hashes), adapters and the audit writer only when
`enable_real_ingestors` is set. `Postgres`, `OpenAI` and `RealServices` are
constants, so one module covers the eight builds that `main.py` and
`get_embedder` can start. The in-memory store with real ingestors is one of them: `main.py:38-46`
falls back to it when the database cannot be reached at the start. `Outages` says whether
statements to Postgres may fail on the way.

*The two stores.* `InMemoryDatabase` keeps any object and has no unique key. PostgreSQL has
unique keys, but the pool (`db/pool.py:61`) registers no codec for `jsonb` and `vector`, so
asyncpg raises on a statement that binds a dict or a list (`BindsObjects`). With PostgreSQL
the INSERT and UPDATE of contracts and events by the ingestors, the enrichment and the API
therefore end in an error, agencies and vendors are inserted, and the contracts in the table are those of
the seed script, which binds text. That asyncpg behaves so is knowledge of that
library, not in the repository. What interleaved writers do to a
contract is seen in the in-memory builds.

*Data.* A document is what the code tells apart: its source, PIID, agency code,
vendor UEI (or an awardee without UEI), notice id, and whether it has a posted
date. A contract row keeps the document its synced columns came from (`cols`),
the document in `raw_json` (`raw`), whether the `usaspending` key is there
(`usa`), its agency and vendor ids (`ref`), and which kinds of columns a person
patched (`edits`: `synced` for columns the ingestors also write, `kept` for
`status`, `recompete_risk` and the other columns they never write).

*Actions.* `StartSync`, `PickDoc`, `FindParent`, `AddParent`, `SelectContract`,
`EmbedDoc`, `SaveContract`, `FindEvent`, `AddEvent`, `EndSync` follow
`run_*_sync`, `_normalize_and_upsert` and the helpers of `upsert.py` in the order
of the code; `Reject` is the per-document exception handler, taken on unique
violations (`ParentConflict`), on objects that cannot be bound (`BindsObjects`), on embedding
errors and, where `Outages` allow, on any statement to Postgres (`StatementFails`). `StartUsa`, `FetchAward`, `EnrichContract` are the enrichment
run; `CheckCreate`, `EmbedCreate`, `InsertCreate`, `PatchContract`, `RecordAudit`
the API. `SeedParent` and `SeedContract` are the statements of the seed script, `ON CONFLICT DO
NOTHING`, a process of its own. `Crash` restarts the service: coroutines are lost, and with
them the in-memory tables.

*Abstractions.* The order of the documents of a page is arbitrary; a page is a
subset of the source's documents. `current_value`, which the enrichment also
writes, is not a column of the model. That a restart may change the build
(Postgres unreachable on the next start) is not modelled, nor which agency a seeded contract
points to.

### SyncCursor and FeedCoverage

*State.* `day` is the UTC date; `posted` and `place` are the external feed, the
days of its notices and the order it lists them in; `pc`, `from`, `offset`, `pages`, `total` and
`page` are the locals of `run_sam_sync` / `run_fpds_sync`; `state` is the source's
`SyncState` in Redis. `handled` and `since` are history variables.

*Actions.* A run chooses its window (from the recorded day, or `Backlog` days back),
fetches a page, handles its records one by one, fetches again while
`max_pages` and `total` allow, and writes success or failure. A fetch may fail and a
run may be lost with the process. Around it the feed publishes, inserts anywhere
in its order, withdraws, and days pass. What a record does to the database is
`ContractIngest`; here it is one step. FPDS is the instance with one page.

*Refinement.* `FeedCoverage` says only this: the recorded date advances over a notice
after the notice was handled. `ImplementsFeedCoverage` is checked with the feed
preserving its page positions while a run is under way.

### EventStream

*State.* Per event the writes `publish` still has to make; the stream as a sequence
of entries with `low` (trimmed up to), the group's `cursor`, its `pending` list; per
consumer its place in `consume()` and the rest of its batch; per entry how often
its handler succeeded and how often it was dead-lettered.

*Actions.* `publish` is `gather(_write_clickhouse, _write_redis)`: two writes in any
order, each of which may fail and is then only logged. A consumer reads a batch with
`>`, skips what it cannot parse, handles, acknowledges, dead-letters on an
exception. Every remote call may fail with or without its effect, and a consumer
may crash or be stopped anywhere. `Consume` is a step of `consume()`, `Start` the start of a
consumer, by hand or by whoever supervises it. Redis itself is external.

### SilverPool and BackupQueue

*State.* The dict of `SilverPool` as a sequence of items in insertion order, because
`promote_next` sorts stably and the dict keeps that order; the promotions whose audit
write is under way.

*Actions.* `Hold` with or without `rank` (an asked rank that is taken overwrites the item
under the same key), `Promote` (sort, pop, renumber, then await the audit), `Release`, and
`PoolRestart`, which empties the in-memory pool. `release` has no endpoint: only the
tests call it. It is an action because it is part of the class and leaves gaps in
the ranks.

*Refinement.* `BackupQueue` is a line per requisition: a hold without rank joins at the
end, a promotion takes the head, a hold with a rank may be inserted or displace
one backup, and nobody returns. The mapping calls an entry gone as soon as it was promoted,
so an entry that stayed in the pool as well would break it.

### Screening

*State.* Per request what it asks for and the free slots of its semaphore; per
screening (request and candidate) the await it is at, its scorecard, its audit
entry; per request its reply. Two requests share only the stateless agent, so one
request at a time is checked.

*Actions.* `Submit`, `Enter` (a slot of the semaphore), `OwnershipAnswer`, `LlmAnswer`
(predicates, judgment, decision: no await in between), `Record` (the audit write),
`Raise`, `Respond` (gather's result or first exception), `Restart`. `/v1/screen` is a
batch of one; `/v1/calibrate` is sequential and stops at the first exception. The
rules service and the model answer anything of two small sets, among them
answers that leave out criteria and an answer that is not JSON. The ratio is compared
in integers, with the one place where doubles decide otherwise: velocity mode subtracts
0.10 from the threshold, and for the thresholds in `RoundedUp` (0.80 is one) the difference comes out above the
number it stands for, so that a ratio equal to it does not reach it. The set was computed for every
threshold of whole percents; ratios and thresholds that differ are farther apart than rounding.

*Left out.* Escalation flags, dimensional scores, the wording of the recommendation.
The calls of `acomplete` are one call that answers or raises: its `@retry` names the
builtin `TimeoutError` and `ConnectionError`, and the Anthropic client raises neither.

### PipelineStages and PipelineMonitor

*State.* The service keeps no stage. `copy[r]` is the stage recruiter `r` believes in; a
transition is judged by that stage alone and, accepted, appended to the event log
`decided`. `stay` is the stage a requisition is in, for how many quarters of a day, and the
hour at which a dashboard asks for its health.

*Actions.* A recruiter moves the candidate by its own copy, or refreshes the copy. Time
passes in quarters, and the SLA answer is asked for once a day. `pipeline_route` ranks other
requisitions for a candidate. The diagnosis of client-advisory (`low_conversion`,
`drop_off_stage`) is computed from the log. *Left out:* the naive or zoned form of
`entered_at`, and the bottleneck's wording.

### Providers and RemoteCalls

`Providers` is which adapter the environment selects and what each makes of a status and a
body. `RemoteCalls` has the requests (`calls`), what the provider did (`remote`), and what a
mock captured. A request has no idempotency key, so a caller that was told of a failure
asks again, while the provider may still act on the first request (`Act` after
`Response`). Answers get lost or garbled, and the service restarts. Items with a job id
that is no number raise before anything is sent, as `int(...)` does.

### Outreach and AbTest

*State.* `book` is the client's copy of the step instances, `touches` the steps it sent,
`replies` the requests to `/v1/close/response` with the copy each carries, its place among
the awaits of `handle_response`, its label and the records it made.

*Actions.* `SendDue` sends what `next_step` chooses, or fails; `PostReply`; `Repeat` gives up
waiting and posts the reply again while the first request goes on; `Classify` (keywords,
then the model); `Store` (reply event, falloff event, audit, each may be lost and is only
logged; the last one ends with the answer); `OutreachRestart`. The client is external, and is
taken to do what `main.py` says of clients. A text is the set of keyword lists it matches.
`AbTest` counts messages and replies of arms, and computes the z-test in integers.

### Interview

A session in memory with the questions asked and the answers filed; the client posts an
answer again when no reply came, so an answer may be filed twice. A chat handler has no
await and is one step. `evaluate` sends a transcript to the model, whose answer is any of a
set of shapes (no JSON, wrong fields, no dimension, weights of its own), and then audits.

### CandidateStore and Ownership

`CandidateStore`: a create embeds, then inserts, in a transaction that is rolled back on an
error; the client may not hear of a success and posts again. The score is computed at the
insert and `year` goes on. `semantic_search` orders by distance, filters and cuts off. The
documents speak of an approximate index of pgvector, and no file of the repository defines the table or its
index, so the rows the index looks at are any subset of the table (`scanned`): a search may miss
somebody nearer, and no property says otherwise.

`Ownership`: tables that other programs fill, with dates that may be missing or pass
(`Midnight`), and a submission that asks `has_active_exclusivity`, then `is_dnc`, then
inserts, each in its own transaction. `rows` and `entries` in a request are history variables: what
other programs added to a table after the request asked about it, which is what an insert that follows a
check may overlook. `record_submission` ends in an error, always (see below).

### Workforce

Employees of govcon-wfi on PostgreSQL: POST looks for the email and inserts, PATCH updates
the columns it was sent, each statement a step; audit writes may fail. A value of a field is
the number of the PATCH that wrote it.

### Outcomes, Bench, Advisory, Capture

`Outcomes`: a start loads each model file or trains; a retraining saves, then swaps the
model in memory; a stop may come between, or while the file is written, which leaves a torn
file that every later start fails on. `Bench`: days pass until the contract ends, and the
alerts are asked for on any of them; an engagement grows by months. `Advisory`: two rules
are asked one after the other, OPA's policies change in between, and an answer may be
undefined or an outage; a report has a verdict and the levers offered to the client. `Capture`:
letters by id in memory, lost with a restart; the gap report and the heat map are computed
from inputs of a small set. `Percent` is `int(100 * (1 - ratio))` in doubles: for the integers in
`Truncated` the product comes out below, and one is lost (8 people of 10 leave a gap of 19).

### Migrations

PostgreSQL files are sequences of objects, run in a transaction each; ClickHouse files are
sequences of lexemes that `_split_statements` cuts at semicolons, as the code does. The
runner stops at the first refusal, may be killed anywhere, and is started again.

### Platform

These services share no process, memory or table, so a step of one changes nothing of
another. `Platform` has all their variables, and `active` says which of them takes the
steps of a behaviour: looking at one at a time loses nothing, because every property speaks
of each service's state alone. Its properties say what the services promise about one
kind of hazard (repeats, stops, time, limits, two judges), each part by its own module.

## 3. Runs

| Run | Instance and bounds | Checks |
|---|---|---|
| `ingest_postgres` | Postgres with outages, OpenAI, real services; one run per task, the seed script, one crash | `ParentKeysUnique`, `NoPhantomAudit` |
| `ingest_remote` | in memory, OpenAI, real services; one run per task, SAM with a batch of three notices, one crash | `TypeOK`, `EventOnItsContract`, `LinksMatchDocument`, `StoredIsPresent`, `KeptEditsSurvive` |
| `ingest_offline` | in memory, local embeddings, mocks; every task twice, one crash | `PiidUnique`, `CheckStillHolds`, `RawMatchesColumns`, `ApiRowsAudited`, `OneEventPerNotice` |
| `cursor_sam` | 3 notices, pages of 1, at most 3 pages, 3 days, one failure | `TypeOK`, `CoveredUpToCursor`, `NoGapBeforeWindow`, `ImplementsFeedCoverage`, `EventuallyHandled` |
| `cursor_truncated` | the same with at most 2 pages, no failure | `CoveredUpToCursor` is violated |
| `stream_faults` | 2 events (one malformed), 2 consumers, batches of 2, stream trimmed to 1, 3 faults | `TypeOK`, `NoSharedEntry`, `AckedIsSettled`, `HandledAtMostOnce`, `EventSettled` |
| `stream_abandoned` | the same, no trimming, 1 fault; consumers are started again (`SupervisedSpec`) | `DeliveredIsSettled` is violated |
| `screening_batch` | 3 candidates, 1 to 3 slots, 21 criteria, 6 answers of the model, threshold 0.80, 1 error or restart | `TypeOK`, `SlotsKept`, `RepliedIsAudited`, `DecisionFollowsRubric`, `RequestAnswered` |
| `screening_rubric` | the same with 5 criteria and answers, threshold 0.85 | `QualifiedMeansRubric` is violated |
| `services` | one service at a time, each with the bounds below | see below |
| `ownership_unasked` | 1 client, 1 row, 3 days | `OwnershipEnforced` is violated |
| `migrations_comment` | the runner alone; 3 runs, 2 kills | `EverythingApplied` is violated |

`services` checks, of every service, its part of these (`Platform.tla` has the conjunctions):

| Property | Says | Service and bounds |
|---|---|---|
| `ImplementsBackupQueue` | backups go in their order, once, and only an asked rank displaces one | pool: 2 requisitions, 2 candidates, ranks 1 and 2, 3 holds, 1 restart |
| `PlacedWasVetted` | screening before offer before onboarding before placement | stages: 2 recruiters, 6 transitions |
| `EffectsExplained` | a reported success happened; a second effect, or a second row of a person with one client, takes a fault | calls: 2 items, 3 requests, 1 fault; candidates: 3 people, 3 creates, 1 lost answer |
| `SequenceHonoured` | steps in order, none after a stored falloff, a falloff is on record | outreach: 3 sequences, 4 texts, 2 replies, 1 outage |
| `SessionSound` | questions once and in order; nobody qualifies without a good score | interview: 3 roles, 8 answers of the model, 8 answers, 2 faults |
| `OnlyLateBlockers` | an exclusivity or do-not-contact entry that stands at an INSERT appeared after the request asked for it | ownership: 2 clients, 2 rows, 3 days |
| `EmployeesKept` | emails are unique and no PATCH undoes another | workforce: 2 emails, 2 fields, 2 posts, 2 patches |
| `RestartsRecover` | while the service is up it serves the retrained model; PostgreSQL files are whole, all files repeatable; a package misses only lost letters | outcomes: 4 trainings, 3 stops; migrations: 3 runs, 2 kills; capture: 3 drafts, 2 restarts |
| `TimeNeverEases` | alerts and exposure do not ease off, stages of four days or more warn before a breach, old scores are not too low | bench: 185 days, 30 months; monitor: 60 quarters of a day; candidates: 6 years |
| `ChoicesAreBest` | winners, routes, blamed stages, alerts, counts and averages agree with a plain definition; hits meet their query | A/B: 2 arms of up to 10; routing: 5 requisitions; and the above |
| `VerdictsAgree` | the ownership bundle agrees with the single checks, a report with what its rules said, a counted opportunity with the people counted | ownership; advisory: 3 reloads; capture: 1 or 2 labour categories |

*Why the bounds are enough.* A property of the store relates at most two rows and
two writers, and each run has at least three writers on one key. A gap in the
cursor needs one notice in a window, one after it and one that shifts the pages, and
two successful runs with a failed one in between. A shared or lost stream entry
needs two readers and as many faults as an entry has calls (XREADGROUP, DLQ, XACK).
The pool's order is a relation of two entries and a third that comes between them.
A batch of three has one screening that holds a slot, one that waits and one that
fails; its rubric has every severity, and its answers put candidates on either side of both thresholds,
and on each of them. Of the services: two requests and a third party are enough for every
interleaving of statements; the bench runs through every day of all three bands and both
ladders, the SLA past the longest budget at every hour of polling; arms of up to
ten messages have verdicts either way, ties, rates of 0 and 1, and a better rate with fewer replies; six years pass all
ages a score tells apart; the three sequences are covered to their last
step. What an input may be is listed in `MCPlatform`, with a member on either side of every
threshold of the code.

*Fairness.* `SyncCursor` assumes that a run's next step is taken: the scheduler fires
at a fixed interval and requests time out after 30 seconds. With a bounded number
of faults a run then succeeds. `EventStream` assumes it of the steps of `consume()` and of nothing else:
XREADGROUP blocks for `block_ms`, calls return, handlers end. Nobody is obliged to
publish, and nobody to start a consumer, or to start a dead one again: no file of the repository
supervises them. `EventSettled` is therefore about entries in the stream while a consumer runs, and excuses those
that are pending when it stops. Only `stream_abandoned` adds that whoever stops is started again
(`SupervisedSpec`), so that its counterexample is not merely a consumer that stays away. `Screening` assumes it of each
screening and reply: the clients of the rules service and of the model have time-outs,
and the audit writer runs in a thread that ends. `ContractIngest` and the services of `Platform` claim no
liveness: an ingestor that is not scheduled again leaves rejected documents unread, and
whether a request, a reply, a promotion or a start of the runner ever comes is for people
to decide.

*Deadlock.* `services`, `ownership_unasked`, `migrations_comment` and the screening runs say `CHECK_DEADLOCK FALSE`, because the numbers of
requests are bounded and a finished instance stops there. That no screening waits
for ever is `RequestAnswered`.

### Disagreements between code and its own claims

1. The paging test of SAM is named for reaching the total
   (`test_ingestor_sam.py:68`). A window with more notices than `max_pages` pages is
   recorded as covered (`cursor_truncated`).
2. `consumer.py:22` promises at-least-once delivery. The pending list is never
   claimed or read again: what a dead consumer had in hand is handled by nobody, even when every
   consumer that dies is started again (`stream_abandoned`).
3. `requisition.py:59-60` promises 85% of the active criteria. Criteria the model does not
   answer are not counted, and an answer that is no JSON counts as none: a candidate qualifies on
   the predicates alone, a judged must_have included (`screening_rubric`).
4. `run_all.py:1` promises to run every migration in order. `_split_statements` cuts at
   every semicolon; the one in the comment at `clickhouse/03_audit_log.sql:2` leaves a piece
   that is no statement, ClickHouse refuses it, and nothing after it is ever applied
   (`migrations_comment`).
5. The root `README.md:89` says that exclusivity, RTR, DNC and non-compete are enforced before any submission.
   `ownership_submit` asks for the first and the third (`ownership_unasked`).

Met while reading or modelling, with no run of their own:

* `usaspending.py:8-9` says the response is stored under the `usaspending` key. The code stores the whole
  `raw_json` it read at the start of the run. In memory with real services it undoes what a sync stored meanwhile
  (`RawMatchesColumns` fails in `ingest_offline` with `RealServices = TRUE`); with PostgreSQL it stores nothing.
* `contracts.py:90` rejects duplicates on the PIID, and `upsert.py:3-4` keeps the in-memory and the
  asyncpg store in sync. In memory there is no unique key, and with remote embeddings two coroutines
  both pass the check (`CheckStillHolds` and `PiidUnique` fail in `ingest_offline` with `OpenAI = TRUE`). With PostgreSQL the dict and the
  list of a notice cannot be bound, and every notice is rejected.
* `fpds.py:7-9` promises the most recent `LAST_MOD_DATE` as cursor. `SyncState.cursor` is never written, and
  the clock at the end of a run becomes `last_sync`: of a run over midnight, notices published between its request
  and midnight are skipped (`CoveredUpToCursor` fails in `cursor_sam` with `SpansMidnight = TRUE`).
* `agent.py:12-20` lowers the threshold by ten points in velocity mode. 0.80 - 0.10 is more than 0.7 in
  doubles, and seven of ten do not pass.
* `rules_svc/main.py:72` calls an undefined result a default-deny. A report whose rules are undefined is
  feasible: `_roll_up` looks for adverse verdicts only. `VerdictsAgree` says nothing of undefined rules.
* `feasibility.py:6-7` promises counts of people. The endpoint passes no function that counts, so an
  opportunity that needs anybody is infeasible, however many there are. `VerdictsAgree` is about counted ones.
* An XACK that fails after a successful handler sends the handled entry to the DLQ
  (`consumer.py:80-93`).
* A candidate blocked by ownership is not audited (`agent.py:120`), although `agent.py:16` says
  every decision is; `RepliedIsAudited` excepts it.
* Half of the policies of `rules/wfi` (`lcat`, `ownership`, `non_compete`, `co_employment`,
  `counteroffer`, `fiscal_year`) use `if` or `or` in rule bodies, which is not Rego; a
  server that loads the directory rejects them.
* `record_submission` (`ownership_repo.py:133`) adds two `timestamptz`, for which PostgreSQL
  has no operator: every submission that passes its checks ends in an error. No file of the
  repository creates the tables of the candidates service.
* Outreach: `select_channel` knows no `phone`, which `velocity_outreach` uses; an
  out-of-office text hides a counteroffer; the terminal classes name `wrong_fit`, the
  classifier answers `wrong_fit_route`; labels of the model are not validated; a reply
  posted twice publishes two falloffs. `ab.py:5` names a continuity correction that is not
  there: 2 of 2 against 0 of 2 is significant.
* Interview: weights of a score are the model's, not the rubric's; the comment about a
  variance above 1 stands over a spread of 2.5.
* Mocks: case ids start again after a restart; the id of a mock channel is always the
  first; the second background provider is selected by no setting. The ATS adapter makes
  an integer of the job id and raises for others.
* Pipeline: an `entered_at` without zone is compared with `utcnow`; a stage with one or three days is
  breached before a daily poll warns; an unknown minimum clearance ranks as none in routing.
* Bench: a clearance or a contract that has already lapsed raises no alert.
* Rules: `POST /v1/rules/batch` is shadowed by `/{name}` and `evaluate_many` has no caller.
* `stalled.py` says "longer than 7 days" and asks for no duration.
* Capture: no operation signs a letter; `int(100 * (1 - ratio))` makes 19 of 8 people for 10 places.
* Ownership: nothing holds the tables between a check and the INSERT, so what appears there is overlooked.
* Outcomes: a stop during `joblib.dump` leaves a file on which every later start fails. `RestartsRecover`
  asks only for the right model whenever the service is up.
* Migrations: a ClickHouse file with two statements can be applied by half, which `run_all.py:4-5` refuses; only
  files of PostgreSQL are whole. That all of them can be applied again is what `Repeatable` says.
* `list_rows` has a LIMIT and no ORDER BY.

## 4. Proofs

The theorems are about the specifications the runs check, for all values of their constants:
every set of documents, keys, clients, notices, events, candidates, rubrics, rows and queries,
every bound. A safety property is proved from an inductive invariant; the property itself
is seldom inductive, and what has to be added says why the code is right. `PROJECT.json` lists
every theorem with the property it states.

### The contract store

`ContractIngestProofs` proves, for all eight builds:

* `TypeCorrect` (`TypeOK`). The invariant `IType` adds `LocalsBound`, which says where a coroutine's
  document, contract id and snapshot are set: `TypeOK` alone is not inductive, because a handler
  writes rows and rejected documents from local variables whose type depends on where the
  coroutine is suspended.
* `PiidStaysUnique` (`PiidUnique`), assuming Postgres or local embeddings. With
  Postgres only the seed script inserts contracts, and the guard is the unique key. In memory the invariant
  `LoopProtects` carries the argument: whoever is between its SELECT and its INSERT
  owns the loop, and what the SELECT said still holds. It is inductive because no
  step of another coroutine is possible while it owns the loop (`LoopStep`). The
  assumption is needed: with an in-memory store and remote embeddings the SELECT and
  the INSERT are separated by an await that gives the loop away (see section 3).

`ContractStoreProofs` adds `StoreInv`, from which ten theorems follow. Its parts: ids are never
given twice (`IdsInv`); a coroutine works on a document of its own source (`DocsInv`); the id it
carries over an await is that of a row with its document's PIID (`HitInv`), which stays true
because rows keep their ids and PIIDs and are never deleted (`TablesGrow`); in memory, whoever
found no agency, vendor or event is alone until its INSERT (`ParentLoop`, `EventLoop`); and the ids
of parents it has gathered are those its document names (`LinksInv`).

* For every build: `OneRowPerParent`, `NoticeHasOneEvent`, `EventsHangOnTheirContract`,
  `LinksAreTheDocuments`, `StoredDocumentsArePresent`, and the action property `EditsSurvive`.
* With a hypothesis on the build, the one under which a run checks the property:
  `AuditsNameRows` (Postgres, or no ClickHouse: an in-memory table is lost with the process and an
  audit trail in ClickHouse is not), `ApiRowsGetAudited` and `RawJsonIsTheDocument` (in memory and
  without services: otherwise a crash falls between row and audit, and a sync between the read and
  the write of the enrichment),
  `CheckedPiidStaysFree` (in memory with local embeddings).

### The sync cursor

`CursorTypeCorrect` holds for every feed. `CursorIsCovered`, `WindowsLeaveNoGap` and the refinement
`CursorKeepsThePromise` (`SyncCursor` implements `FeedCoverage`) assume `FeedFits`: no run spans
midnight, nothing is withdrawn between the first and the last fetch of a run, and there are no more
notices than `max_pages` pages hold. Each clause is needed: `cursor_truncated` violates the
property where the last fails, a run over midnight where the first does, and a notice that is withdrawn moves
those behind it to a page that was read already.
`CursorInv` says of a run that pages (`PagingInv`) that what lies before its offset in the list has
been read. It is inductive because a notice that is inserted pushes others back and never forward, and
a fetch that is not the last one returns a full page; the rest is counting notices in
front of others (`Before`). The refinement is proved step by step: beginning, reading and the end of a run and each
step of the feed map to a step of `FeedCoverage` or to a stutter.

### The event stream

`StreamTypeCorrect`, `EntriesNotShared`, `AcknowledgedIsSettled` and `NeverHandledTwice`, for every
number of events, consumers and faults, every batch size and every trimming. The invariant: an event
whose write to Redis is still to come is not in the stream, and none is under two ids
(`StreamInv`), which bounds the stream; nothing was done with an entry past the cursor; and where a
consumer is in `consume()` tells what it has done with the entry in hand (`InHand`).
`NeverHandledTwice` alone is not inductive: it needs to know that an entry still held has not been handled.

### Screening

`ScreeningTypeCorrect`, `SlotsAreKept`, `RepliesAreAudited` and `DecisionIsTheRubrics`, for all sets of requests and
candidates, all rubrics, severities, thresholds and answers of the model. Slots: the free
ones and the screenings that run add up to what the request was given (`SlotsInv`). Replies: a
screening that is done has its card in the audit log, or lost there, unless ownership blocked
it (`ProgressInv`). Decisions: every card is the score of one of the model's answers
(`CardInv`); results that hold every criterion of the rubric once are a bijection onto the rubric, so
what the code counts in the list is what the rubric says of the set. `DecisionFollowsRubric` has two halves:
nobody qualifies whom the rubric does not qualify, and whom it qualifies does, but for a score that is exactly the threshold
velocity mode lowered, where the doubles decide. `ScreeningAssumption` says
that candidates and criteria are finite, `NoneAssumption` that `None` is no card, request or reply.

### Records

* `BlockersCameLate` (`OnlyLateBlockers`), for all clients, histories of the tables and numbers
  of days. `PassedChecks` says at each await of a request that what stands in its way was added since it asked. It is
  inductive because a check that lets a request pass found nothing in its way, a row that is added is kept by the request, and
  rows that go or run out only take something away. It says how wide the gap between check and INSERT is, not that
  there is none.
* `RequestsKeepEmployees` (`EmployeesKept`), for all numbers of requests. Emails stay unique because
  every statement that writes one is checked by the table's unique key, whatever was found
  before. For the fields the invariant is `FieldsTraced`: a value is the number of a PATCH that
  set the field, and a PATCH that was carried out left a value in each of its fields.
* `PoolIsAQueue` (`ImplementsBackupQueue`): `SilverPool` implements `BackupQueue`, for all requisitions, ranks,
  numbers of holds and restarts. Only holds without a rank join at the end; who asks for one may come in before others or displace
  one of them. The mapping takes a bucket to the line of its entries by rank
  (`LineOf`). `PoolInv` says that a bucket gives no rank twice and that no entry waits twice or waits
  after it was promoted. Distinct ranks have one ascending order only, so
  inserting, replacing or removing one item of a bucket is inserting, replacing or removing one
  entry of the line, and the renumbering of `release` leaves the line alone.

### The services of Platform

The services share nothing, so a step of `Platform` is a step of one service or leaves it alone
(`StepOfServices`), and each invariant is about one service.

* `PlacementsAreVetted` (`PlacedWasVetted`). `StagesInv`: whatever stage a recruiter's copy shows, the
  candidate came to it through the stages it requires, for copies may be old but were true once.
* `SequencesAreHonoured` (`SequenceHonoured`). `OutreachInv` is about the book and about the copies of it that are under way in
  replies: what is pending in a copy that may replace the book lies behind what was sent; after a
  falloff nothing is pending; what the record misses was lost in an outage.
* `RepeatsNeedFaults` (`EffectsExplained`), for clients that ask one thing at a time. `CallsInv`: of the requests for one item at most one is under way
  or was successful, and the effects nobody heard of are no more than the faults. `RowsInv`
  says the same of rows and requests that create a candidate.
* `TimeIsNoFriend` (`TimeNeverEases`). Of the stages, those with a budget of four days or more are warned of
  before their breach; intake and screening (three days and one) are excepted, and breached unannounced. Alerts, engagements and scores are monotone in the days
  that pass (`GradedType`, `MonthOnlyGrows` and their like); `WarnedInv` says how a daily poll has gone
  through the answers so far; `ScoresInv` that a stored score was right on an earlier day.
* `InterviewsAreSound` (`SessionSound`), of chats and of evaluations, each on its own: the transcript of an evaluation is
  its caller's, and nothing in the code ties it to a session. `ChatInv`: an answer is never filed under a question ahead, and every wrong filing
  has cost a reply. `CardInv`: a weighted average reaches the threshold only if a dimension does, by the lemmas on sums.
* `StopsLoseNothingElse` (`RestartsRecover`). It does not say that the model service comes up again: a stop during a second
  save leaves a torn file on which every start fails. `ModelsInv`: a file that is whole is no older than what
  clients were told of. `PgInv`: PostgreSQL has the first files of the list, whole, for some number
  of them. `ChInv`: the runs on ClickHouse have one furthest place; all before it is taken again
  without error, and what was refused was refused there. `LettersInv`: a letter is known or was lost.
* `JudgesAgree` (`VerdictsAgree`). Three statements: of the ownership checks, of a report, of a counted opportunity. What an
  undefined rule makes of a report, and what the endpoint of capture answers, is not part of them: the code is at odds with its own
  words there (section 3). The bundle and the single ownership checks are equivalent
  predicates on all rows and days, so there is nothing to be inductive. `ReportInv`: each verdict in a report was an
  answer of its rule while the request lasted, and the levers are those of its verdicts. `StaffingIsShort` bounds the ratio of people to heads.
* `ChoicesAreTheBest` (`ChoicesAreBest`). `ArmsInv`: no arm is kept twice, and the z-test is symmetric.
  `SearchInv`: hits are rows that meet the query, ranked by distance, whatever part of the table the index looked at. Routing,
  alerts and hits rest on sorting: a sorted list ascends, and its first k members are k
  best ones (`Ascends`, `FirstOnes`). Heat map and averages rest on sums: parts that do not overlap add up to the whole.
* `PlatformTypeCorrect` (`PlatformTypeOK`). The invariants above hold most types; each service adds the bounds
  they leave open. A row was inserted by a request of its own, so there are no more rows
  than requests (`RowsCounted`); no arm has more replies than messages (`ArmsBounded`); polls of a stage
  only report worse, so that there are at most three different answers (`Worsening`); a bench gives at most one alert per
  date (`AtMostTwoAlerts`); a server holds objects of the migration files only (`MigrationsTyped`).
  For the pool, ownership and the workforce it uses the invariants of `RecordProofs`.

### Lemmas about data

The installed provers cannot use the library's induction theorems, which take a predicate as a
parameter. `DataProofs` goes around it: a set of naturals has a least member (`NatMin`), so a set of
subsets with the empty one that is closed under adding one member has them all. So it proves what the folds
of the community modules add up to (`SumOnSet` and what follows it), and what sorting does.
`SortSeq` is defined by a choice among functions that need not be unique, and no stable sort; `Sorting` therefore has
the sort that Python and SQL perform, as a function of the ranks of positions.

### Assumptions

Each specification names its own, and TLC evaluates all of them. They give bounds and sets their
types, say that special values (`None`, the empty arm) are not among the others, and that sets of which
the code counts or sorts the members are finite: `Notices` of the feed, `Events`, `Candidates` and `Criteria` of a
screening, `Openings` of routing, the lists of requirements and of supply of capture. `ConstantsAssumption` also says
that documents are well formed and that an API body has a PIID (the schema of `ContractCreate` requires it). No theorem has other
hypotheses than those named above.

### Not proved

Liveness (`EventuallyHandled`, `EventSettled`, `RequestAnswered`) stays with TLC: the
proof system cannot reason about fairness. `RoundedUp` and `Truncated`, where doubles differ from exact
numbers, are sets of numbers computed outside of the models; the proofs need only that the ones exceed 10 and the others 0. The claims that violation runs refute are no theorems.

## 5. Plan

What is modelled is modelled as far as it has control to model, and every safety, action and refinement
property of a passing run is proved. What is left:

1. `FeedCoverage` and `BackupQueue`: what these specifications promise, proved on their own.

## 6. Not modelled

* Text and arithmetic without state: templates, prompts, resume text, embeddings,
  compensation estimates, market briefing and percentiles, the submission package,
  dashboards and lists, escalation flags, transcripts of voice calls.
* Training of a model (scikit-learn): a trained model is a number.
* Enrichment adapters: their answer is returned and stored nowhere.
* Policies in Rego: OPA evaluates them; which verdict they reach is an input of `Advisory` and
  `Screening`.
* Remote services (SAM, FPDS, Anthropic, Greenhouse, Redis, ClickHouse, OPA): external, and
  modelled only as answers, errors and time-outs. So are the clients that keep stages and
  sequences.
* `market` and the front ends: no operation changes a stored record. Seed scripts write
  demonstration data; what the one of govcon-wfi does to agencies, vendors and contracts is in `ContractIngest`.
