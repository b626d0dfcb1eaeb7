# Verification of GenBI

TLA+ models of GenBI, the TLC runs that check them on small instances, and
TLAPS proofs of what matters most for every size. The program is a FastAPI
backend (`backend/app`), a Next.js client (`frontend/src`), a PostgreSQL
database with row security per tenant, Redis, a Cube semantic layer and LLM
providers. Paths below without a prefix are under `backend/app`.

1. [The system](#1-the-system)
2. [Modules, and how they correspond to the code](#2-modules)
3. [Runs](#3-runs)
4. [Fairness](#4-fairness)
5. [Proofs](#5-proofs)
6. [Where code and documents disagree](#6-disagreements)
7. [What is not modelled](#7-not-modelled)
8. [Plan](#8-plan)

## 1. The system

`infra/docker-compose.yml:58` starts four gunicorn workers. Each is one asyncio
loop with memory of its own; what they share is in PostgreSQL and Redis. Every
`await` lets another request of the same worker run, and the other workers run
at any time. Most services open a connection per call, at READ COMMITTED, and
use a transaction only where the code asks for one. Many helpers fail open: an
exception is swallowed and the request goes on without that step. These three
facts are behind nearly all that is hard here.

| Component | State | Operations | Interacts with | What makes it correct |
|---|---|---|---|---|
| Tenant users (`services/users.py`, `api/v1/users.py`) | rows of `users` | create, update, delete, reset password, each guarded by a count of the other admins | admin audit, tenant deletion | a tenant stays administrable, deleted users stay deleted, patches merge by field, the audit tells the truth |
| Login throttle (`api/v1/auth.py`, `core/cache.py`) | one Redis counter per email | check, INCR and EXPIRE, clear | users, `change_password` | a bound on guesses per window; lockouts end |
| Control-plane checks (`core/auth.py`, `services/platform_admins.py`, `services/tenants.py`) | database rows, an in-process copy per worker, a copy in Redis | check a status or a grant, change it | every request | a suspension or revocation binds within a known time |
| BYOK keys (`services/byok.py`, `llm/resolver.py`) | the key row and its version, resolutions per worker, version pointers in L1 and Redis | save, delete, change status, resolve | LLM client | a version names one key, and answers settle on the row |
| LLM client (`core/llm_client.py`, `llm/providers`) | the attempts of a call | invoke with retries, audit, thumbs on the answer | resolver, audit | what was paid is recorded, a bad key is told at once |
| Wiki (`services/wiki.py`, `api/v1/wiki.py`) | page, revisions, embedded chunks | save, restore, delete, embed, search | cache, embeddings | the page is its last revision, history is append-only, search finds what the page says |
| Reports and schedules (`services/reports.py`, `services/report_schedules.py`) | reports and sections, schedules, a loop per worker | generate, regenerate, replace, schedule, unschedule, tick | chat agents, Cube, dashboards | one regeneration at a time is visible, runs are punctual, recorded truthfully and never starve |
| Chat pipeline (`services/chat_service.py`, `services/conversations.py`) | conversations and turns, cached query results | POST and stream variants of one pipeline | agents, validation, connector, cache, lineage | rows belong to query and tenant, the gate holds, turns agree with what clients were told |
| Agents and validation (`agents/`) | none | route, write SQL, validate, chart, narrate | LLM client, connector | only SELECTs that the role may run get through; charts match their data |
| Cache service (`core/cache.py`) | L1 per worker, Redis | get, set, invalidate per entity | all of the above | the key holds all that the value depends on |
| Retrieval (`core/embeddings.py`, `services/schema_retrieval.py`) | none of its own; its answers in the cache | embed, search, fall back to words, fail open | NL2SQL step, wiki, cache | a prompt is told what fits its question, and not for long what is out of date or was not found |
| Semantic layer client (`semantic/cube_client.py`, `api/v1/metrics.py`) | the last /meta response per worker, catalog and results in the cache | list, query, refresh | Cube, cache | what is served is of the query asked, and of a bounded age |
| Dashboards and lineage (`services/dashboards.py`, `services/lineage.py`) | dashboards, pins, a property graph | create, pin, unpin, refresh lineage | reports | places are distinct, clients are told the truth, edges follow pins, lineage names the tables read |
| Tenant lifecycle (`services/tenants.py`, `api/v1/admin.py`) | tenant rows, analytics tables | provision, update, suspend, decommission | users, control plane | administrators are told what happened; a tenant with users is not deleted by accident |
| Audit, masking, observability | append-only rows | record | all | fails open |
| Browser client (`frontend/src/hooks/use-chat-stream.ts`, `lib/api-client.ts`) | messages, an abort handle, a conversation id | send, confirm, retry, cancel, load | chat stream, feedback | what is on screen is what was selected, asked, confirmed and told |
| Scripts, migrations, deployment | none at run time | set-up | database | out of scope |

The behaviours that are hard to test: requests that overlap between a read and
the write that depends on it (users, schedules, dashboards, settings); values
that were checked or cached and are stale when used (control plane, BYOK,
confirmations, query results); work done after a commit on another connection
(audit rows, chunks, lineage); failures that are kept as answers (contexts of prompts); workers that die between two commands (login
counter, reports); writes whose failure nobody notices (turns, reports).
`PROJECT.json` lists every hazard at its line, with the properties that cover it.

## 2. Modules

A model keeps the control of the code, one action for each stretch between two
awaits that others can see, and names data: a text, a key or a result is known by
where it came from. Definitions named like `Patched_NoKeep`, or introduced by a
comment as those "of a bug", are not used by the specifications: each is a
plausible mistake that some property is there to notice.

| Module | Models | Properties | Proofs |
|---|---|---|---|
| `TenantUsers` | requests on one tenant's users and its decommissioning | `LockoutNeedsRace`, `OverlapsMerge`, `AuditTellsTruth` | `TenantUsersProofs` |
| `LoginThrottle` | attempts on one email around the counter | `GuessBound`, `CounterExpires`, `LockoutLifts` | `ServiceProofs` |
| `ControlPlaneCache` | checks and writes of one status or grant through two caches | `RevocationBinds` | `ControlPlaneProofs` |
| `ByokResolver` | resolution of one tenant's key against its writes | `VersionNamesKey`, `AnswersSettle` | `ByokResolverProofs` |
| `WikiHistory` | abstract: a page and its append-only history | (is one) | |
| `WikiPages` | one page, statement by statement; implements `WikiHistory` | `HistoryKept`, `VersionIsNext`, `ChunksFromHistory`, `EveryRequestEnds` | `WikiPagesProofs` |
| `ReportScheduler` | scheduler loops, regenerations, schedules | `OneRegeneration`, `Punctual`, `RunRecorded`, `DueIsHandled` | `ReportSchedulerProofs` |
| `ChatPipeline` | questions on their way through the pipeline | `RowsOfQuery`, `LargeAsked`, `TurnsKept`, `HistoryIsPast` | `ChatPipelineProofs` |
| `Dashboards` | pins of a report's sections, its regeneration, the edges in the graph | `PlacesDistinct`, `AnswersTrue`, `EdgesFollowPins` | `DashboardsProofs` |
| `ChartRules` | the chart step of a turn: hints, two validations, the bridge | `SilentIsRight`, `TwoValidationsSettle` | `ServiceProofs` |
| `SqlRules` | the text of a query through both gates, EXPLAIN and lineage | `GatesAreExact`, `LineageIsExact` | `ServiceProofs` (the first) |
| `LlmCalls` | the calls of one answer, their audit rows, the thumb under it | `CallsAccounted`, `FeedbackAgrees` | `ServiceProofs` |
| `CubeMetrics` | the metric catalog and metric queries through three caches | `MetricsServed` | `ServiceProofs` |
| `TenantAdmin` | overlapping requests of administrators on one slug | `TenantsTold` | `ControlPlaneProofs` |
| `ChatStream` | turns, streams and histories in the browser | `ScreenTells` | `ServiceProofs` |
| `PromptContext` | what prompts are told of the tenant, through retrieval and its caches | `PromptsAreTold` | `ServiceProofs` |

`MC<Module>` instantiates each of the modules down to `Dashboards` for TLC (the abstract `WikiHistory`
through `WikiPages`), and `MCServices` the other seven. `ServiceProofs` and `ControlPlaneProofs` hold
the proofs of several modules, in a section each.
The components share no variable in the code either: they meet through database rows
that each model owns, so each module leaves its neighbours' answers open instead of
composing with them (the pipeline allows any LLM outcome, including the failures that
`ByokResolver` can cause). In the same way a behaviour of `MCServices` is about one of
its seven parts (`part`), while the others never start: one run for seven small instances.

**TenantUsers.** `users[u]` is the committed row, reduced to its state and whether
it is an admin; `rowLock[u]` is the open transaction that wrote it. A request
goes through the statements of its handler: the SELECT of the row, the count of
the other admins (`services/users.py:204`), the UPDATE or DELETE, which waits for
the lock and acts on the newest committed row, the commit, and the audit row on a
connection of its own. `DecommissionCheck` and `DecommissionDelete` are the two
halves of `decommission_tenant`, which uses several connections. `AuditTellsTruth` looks at the step
that leads to the audit row: what is recorded was done by the statement before it. Its one exception
(`Vanished`) is the PATCH or DELETE whose user another request has deleted since the SELECT: the statement
matches no row and the action is recorded all the same.

**LoginThrottle.** The check, the lookup, the INCR and the EXPIRE are four steps of
an attempt. `count` and `ttl` are the Redis key. Time is a countdown in ticks of
`Window`; a worker may die between any two steps, and Redis may fail a command.
`guesses` and `missed` are history: what the properties count, and the exceptions.

**ControlPlaneCache.** `db[f]` is a tenant's status or a user's grant, with
`since[f]`, the ticks since it changed; `l1[w][f]` and `l2[f]` are copies with ages.
A check is L1, Redis, database and back, a write is the database, then L1 and
Redis; each await may take up to `Delay` ticks. `link[w]` is the memo of
`RedisCache._ensure`, which never tries again after a failure.

**ByokResolver.** A key is the number of the save that brought it. `row` has
version, key and status; `res[w][v]` is the dict of worker w, which has no expiry;
`ptr1` and `ptr2` are the version pointers. A call resolves by the pointers, then
by the dict, then by the row (`llm/resolver.py:72-120`); a write changes the row and
drops only its own worker's resolutions.

**WikiHistory, WikiPages.** `upsert_page` is SELECT, INSERT or UPDATE, the next
version and the revision, COMMIT; then `_sync_embeddings` is a DELETE and one
INSERT for each chunk, each committed by itself. `page.id` tells a page from one
created after it under the same slug. `HistoryKept` is `WikiHistory!Spec` under
`current <- page.text, history <- revs`: only commits move the abstract state.

**ReportScheduler.** `head[p]` and `sections[p]` name the regenerations that the row
and the sections of a report are from. A worker's `job` is its tick: the queue of
schedules as selected, the time of the tick, and the error to record. `Generate`
runs the pipeline, `Replace` is the UPDATE that takes the row's lock and, in the
same transaction, the DELETE and the INSERTs; `Commit` ends it; `Mark` writes the
schedule by id with what the tick knew. `missed` is history: the exceptions
that `Punctual` and `RunRecorded` name. `blind` has the schedules made by a tenant that does not see
their report: the route takes any report's id and the foreign key does not know tenants. For those
`regenerate_report` returns None, no failure to the tick, which records a success.

**ChatPipeline.** `pc[r]` is the await a request is at. `ask[r]` says what it asks:
its conversation or a new one, tenant, role, worker, POST or stream, and whether it
confirms. `Ask` resolves the conversation, `History` reads the last turns,
`Question` persists the question, `Generate` stands for routing, the wiki answer and
NL2SQL, whose outcomes are open, `Validate` is the gate with the row estimate, `Lookup` and
`Fetch` are the two tiers of cached results and the database, `Answer` persists the
assistant's turn and `Tell` ends the response. `Leave` is the cancellation of a
stream and `Crash` the death of a worker. A lookup may miss what is
cached, which covers expiry, eviction and a Redis outage. Chart and narrative
catch all their exceptions and change nothing that others see; they lie between
`Fetch` and `Answer`. The outer `except` of both variants is not modelled: every step
before it catches its own. A client confirms only in a conversation where it was
asked to, as the browser does.

**Dashboards.** A pin is `SELECT max(position)`, the INSERT, the read that answers and the
refresh of the graph, each on a connection of its own; `req[r]` is where request r is and what it
carries. `report[p]` names the metric at a position, which a regeneration numbers anew.
The refresh reads the pins (`before` and `late` remember the order of readers) and
replaces the edges in one transaction. `missed` names why the edges may not follow.

**ChartRules.** The state is the specification on its way: `Generate` takes what the
model answered, or the agent's own hints, `Check` is the agent's validation, `Render` is
the bridge and `Recheck` the second validation and the answer. A column is its kind, a field a
column spelt right or nearly right, or none. The codes of issues and the corrections are
operators named after the validator's functions. `notes` are the warnings that reach the answer: what
`_validate_spec` of the bridge says of an unknown type is dropped where the rendering succeeds.

**SqlRules.** A text is a sequence of the words that the regular expressions tell apart.
`Queries` builds texts with their meaning (tables read, statements, writes), and `Valid`,
`RunsReadOnly` and `Extracted` read them as the gate, the connector and the lineage do;
the two properties compare the two. The operators were compared with the Python functions on
all 1,232 texts of the grammar, and those of `ChartRules` on 4,000 random cases.

**LlmCalls.** `Invoke` begins a call of an answer, an attempt is in `flight`, in its `audit` or
in the `sleep` before the next; `log` counts requests, paid ones and wasted ones, and `trail` is the
audit rows with their scores. `agent` is the caller: the router, "sql" (for the wiki, NL2SQL and the
narrative, which name user and session), the chart's agent, the planner or the summary of a report.
`Identified` and `AuditRow` are what each passes: no user from the router and the summary, a session that
is no UUID from the planner, so that their rows are skipped; no session from the chart's agent, so that
its row gets one of its own and no score. The library below an attempt repeats requests by itself.
`shown`, `posts` and `clicks` are the thumb, which is set at once, posted, and rolled
back when the post fails; `trouble` names how posts met.

**CubeMetrics.** A copy is how long it has been out of date. `meta[h]` is the /meta response
in a worker, `catalog` and `results` the two tiers of the cache service, `job[r]` a request that
waits for Cube. `CacheKey` is what the key keeps of a query.

**TenantAdmin.** `tenant` is the row under one slug, or none: who provisioned it, and for each of
name, status and settings the request that wrote it. `sales` are the tenants with rows in the analytics tables,
`Elsewhere` standing for those of other slugs; `req[r]` is a request with what it asks and where it is.
A PATCH has any of the fields, none included, and may bring a name that is taken; what raises rolls the
fields before it back (`RolledBack`). `CleanAnalytics` has no tenant, as the DELETEs have none and row
security does not bind a superuser. `effect[r]` and `audited` are history: what a request did or met,
against what it was told. Settings are NULL until they are first patched, and never merged after that.

**ChatStream.** `turns` are the questions on screen with their bubbles, below the history
of `base`; `chat` is the selected one, `tracked` the stream that `abortRef` holds, `streams` those
open and `loads` the histories being fetched. A part of a bubble remembers the run and
the question that it came from, which the code does not. An event is one step, with all it sets.
`mishaps` names, by turn, what the property excepts.

**PromptContext.** The NL2SQL step gathers metrics, tables, examples and wiki pages one after the
other through one pattern: L1, Redis, retrieval, and what came back into both (`chat_service.py:569-633`).
They share nothing, so a behaviour is about one `subject`. A copy in `context[p]` knows whose
question it was selected for (`Selection`: only above 20 metrics does that differ for metrics), how it was
found ("best", by "words", by a "failure") and for how long a retrieval would have found otherwise.
`Key` is what the key keeps of the question. `making[r]` is what a prompt waits for, `given` what the
last step told one. `PlanReport` and `AnswerFromWiki` are the two readers that bypass the caches.
`InvalidateSchema` is the end of the nightly sync: it runs in a process of its own and reaches Redis
only. Metrics change when the answers of `CubeClient` do, whose own memory is in `CubeMetrics`.
Redis is taken to answer at once: its commands are short against TTLs of minutes and hours.

## 3. Runs

TLC checks deadlock unless the configuration says otherwise; it does where a bound on
writes, time or requests lets the system stop.

| Run | Configuration | Instance | Distinct states | Shows |
|---|---|---|---|---|
| `users` | `MCTenantUsers` | 3 users, 2 requests | 1.4 M | only an overtaken request locks a tenant out; no user comes back; patches merge; the audit is true but of users who vanished |
| `login` | `MCLoginThrottle` | 3 attempts, limit 2, crashes, Redis failures | 180 k | the bound on guesses, that counters expire and that lockouts lift |
| `control` | `MCControlPlaneCache` | 2 calls, 2 workers, a status or a grant, TTL 1, delay 1, all faults | 964 k | a suspension or a revocation binds within 2 TTL + 3 Delay - 1 |
| `byok_versions` | `MCByokResolverSafe` | 2 calls, 2 workers, 3 writes, deletes, all faults | 1.9 M | a version names one key until a row is deleted |
| `byok_settle` | `MCByokResolverSettle` | 2 calls, 2 workers, 2 writes, no deletes | 475 k | answers come to be what the row says |
| `wiki` | `MCWikiPages` | 2 requests, 3 texts, 3 writes, all faults | 23 k | the page implements its history; versions are never refused; chunks have an origin; saves end |
| `reports` | `MCReportScheduler` | 1 report, 2 workers, 1 user, 1 fault | 1.3 M | regenerations do not mix, runs are punctual and truthfully recorded |
| `reports_due` | `MCReportSchedulerDue` | 3 reports, LIMIT 2, a pipeline that may always fail | 273 k | a due schedule is handled, behind the LIMIT too |
| `chat` | `MCChatPipeline` | 2 questions, 2 tenants, 2 workers, 3 queries, 1 fault | 586 k | rows, gate, turns and history are right however two questions overlap |
| `chat_confirm` | `MCChatPipelineConfirm` | the same, 2 large queries, no faults | violation | a confirmation lets an unseen query run |
| `dashboards` | `MCDashboards` | 2 requests, 2 metrics, 2 sections, 2 pins, all faults | 881 k | places, answers and edges are right, up to named races |
| `services` | `MCServices` | seven parts, bounds below | 3.1 M | charts, SQL, model calls, metrics, tenants, the browser's screen and prompts: what each tells or is told is so |

Why the bounds are enough. The races are between one actor's read and another's
write: two requests give every order of two handlers' statements, and the third
attempt of `login` lets two overtake one. Three users are needed for two admins who remove
each other beside a bystander. A TTL of 1 tick with a delay of 1 distinguishes
"fresh" and "expired" copies; the bound is proved for every TTL, and was met by TLC at TTL 2 as
well. In `control` a behaviour changes one of its two facts (`OneFact`): their keys are distinct,
and no action reads both. Three BYOK writes are a save, a delete and a save again. Three texts let a
save, a newer one and a restore differ. LIMIT 2 with three due schedules is
the least in which one waits. In `chat`, "count" and "COUNT" share a cache slot, "scan" is
large and not for viewers, a window of 2 turns holds one question with its answer,
and one fault suffices for each of its exceptions.
In `services`: charts of results of up to three columns, with at most one of an odd kind, of 4, 15 or
10,001 rows, which lie on the sides of every limit (ten rows shown to a model, 100 inline, 10,000 in
all); model answers for up to two columns; three calls (router, NL2SQL and chart, or planner and summary) with
three attempts each and three clicks; two requests of administrators (three were tried with fewer faults); two slots on one worker over Redis, with three queries of which two share a
key; two questions, three streams and one history, so that every exception of `ScreenTells` occurs (leaving
any of them out is refuted); two prompts on one worker over Redis, two questions, a TTL and a transit of one
tick, which is the least at which each of them adds to the age of a context (a bound smaller by one tick
is refuted). `ChatStream` also holds with four streams, and with two histories. `MaxFaults`, `MaxWrites`,
`MaxRows`, `MaxTime` and `CountBound` are bounds of the models only. Symmetry is
used where only safety is checked.

Further configurations, kept beside the runs to be tried by hand (each takes
minutes at most):

| Configuration | Finds |
|---|---|
| `MCTenantUsersRace` | a tenant without an active admin, by two overlapping requests |
| `MCControlPlaneCacheMinute` | a revocation that outlives one TTL |
| `MCControlPlaneCacheRefresh` | the refresh of a status change overwritten by an older read |
| `MCByokResolverRecreate` | a deleted key in use after the row is saved anew |
| `MCByokResolverMemory` | a replaced key kept in memory without end |
| `MCByokResolverOutage` | a configured tenant served by the platform key while the database is down |
| `MCByokResolverNoKey` | a tenant without BYOK refused by a worker without an encryption key |
| `MCReportSchedulerReplaced`, `MCReportSchedulerUnsaved` | why `Punctual` and `RunRecorded` name their exceptions |
| `MCReportSchedulerCrash` | nothing: `DueIsHandled` with crashes |
| `MCWikiPagesChunks` | an older embedding pass leaves chunks of an old text |
| `MCDashboardsDrift` | a pin that shows another metric after a regeneration |
| `MCChatPipelineEnds` | nothing: every request that runs comes to an end |

## 4. Fairness

Liveness is checked under weak fairness of steps that the code is bound to take
once begun: a handler's next statement (every driver call returns or raises; the
connector and the providers have timeouts), the scheduler's loop
(`services/report_schedules.py:185-195` catches what a tick raises and sleeps
again), Redis's expiry and the clock. Nobody is obliged to log in, to ask for a key,
to save or to ask a question. Strong fairness appears twice, for a statement that
waits for a row lock (`Save` of WikiPages, `Replace` of ReportScheduler): the lock
is free and taken again and again, and PostgreSQL serves its waiters in order.
`AnswersSettle` needs the expiry of pointers but not that anybody writes.

## 5. Proofs

All theorems are for any sets of actors and data, any bounds that satisfy the
assumption of their module (`ChatAssumption`, `CacheAssumption`, ...), and any
faults. Each proof finds an inductive invariant, checks it action by action, and ends
with one temporal step. All safety properties of the
passing runs are proved but one, `LineageIsExact`.

| Theorem | Inductive invariant, and why it is needed |
|---|---|
| `TenantUsersProofs!LockoutNeedsRaceHolds` | a request that was not overtaken still reads the row that is committed, and its "other admins" still are (`Undisturbed`, `GuardPassed`); without it the write tells nothing about the guard. `SerialAdministrable` follows for requests that never overlap |
| `TenantUsersProofs!AuditAlwaysTrue`, `OverlapsMergeHolds` | a lock is held by an update about to commit, of a row that is there (`Locked`), labels belong to operations (`Labels`), and whoever was selected was inserted once (`Selected`), so that one who is not there was deleted; an update that commits without the lock sets nothing or has found nobody (`Held`); deleted stays deleted (`StatesOnward`) |
| `ServiceProofs!GuessesBounded` | the history of guesses is below the counter, which bounds the attempts past the check (`GuessInv`); cardinalities from `FiniteSetTheorems` |
| `ServiceProofs!CounterAlwaysExpires` | inductive with the types |
| `ControlPlaneProofs!RevocationAlwaysBinds` | `AgeInv`: every copy and every value in flight that differs from the database has an age that bounds the time since the change, place by place (L2: 2 delays, L1: a TTL more) |
| `ByokResolverProofs!VersionsNameKeys` | values between "load" and "store" carry their version's key (`Names`, `Carried`) |
| `WikiPagesProofs!ImplementsHistory`, `VersionsInOrder`, `ChunksHaveOrigin` | a transaction past its write holds the row and it alone can commit (`Holding`), page and last revision agree (`Latest`), ids are fresh (`Fresh`), what a pass will embed was saved (`Syncing`); the refinement maps `Commit` to `Save` and deletion to `Remove`, and the rest to stuttering |
| `ReportSchedulerProofs!OneRegenerationHolds` | a transaction about to commit holds the report and has seen what it replaces (`Locked`) |
| `ReportSchedulerProofs!PunctualHolds` | a tick knows the frequency of what it holds unless that was replaced (`FrequencyHeld`) |
| `ReportSchedulerProofs!RunsRecorded` | what a worker is about to write is no older than its tick, unless its tenant does not see the report, and contents only get newer (`FreshJob`, `HeadGrows`) |
| `ChatPipelineProofs!RowsOfQueryHolds`, `LargeAskedHolds` | every entry of both caches is of its slot (`CacheServed`), and a request at the cache or with rows is past the gate (`OwnServed`) |
| `ChatPipelineProofs!TurnsKeptHolds`, `HistoryIsPastHolds` | the turns of a request in its conversation are its question and then its answer, as far as it has come (`Spoken`), and its history is a stretch of the conversation from before its question (`Remembered`); lemmas on `SelectSeq` and `SubSeq` of a log that only grows |
| `DashboardsProofs!PlacesDistinctHolds` | a request between its SELECT and its INSERT knows a place after all others, or was overtaken (`AfterAll`) |
| `DashboardsProofs!EdgesFollow` | what a refresh carries was right when read or a later reader follows (`CarriedRight`, `Readers`) |
| `DashboardsProofs!AnswersTrueHolds` | each request keeps its fate (`Fate`): a pin asked for is not there yet, one inserted is there or was removed, and no two requests ask for one id (`Numbered`) |
| `ServiceProofs!CallsAccountedHold` | while a call is under way its attempts bound the requests, and what was paid is wasted or about to be audited (`UnderWay`); once it is over, audited or counted as not, by who called (`Over`) |
| `ServiceProofs!FeedbackAgreesHolds` | the posts of the thumb that the server has not seen form a chain from the score in the rows of the session to the one on screen (`Chain`), as long as none failed or overtook another |
| `ServiceProofs!MetricsServedHolds` | a copy is no further out of date than its age and what it was when it was made, place by place (`Aged`, `Since`): one delay for /meta and rows, a TTL more for the catalog made of it, another for a copy out of Redis |
| `ServiceProofs!ScreenTellsHolds` | one stream at most is to be waited for (`Awaited`), its bubble spins (`Spinning`) and has its run, not ended by another (`Feeds`), it asks what its turn asks (`Asks`), histories are of the selected chat (`Fetches`), each up to the mishaps. That a confirmation finds the last card that waits needs the last index below another: `NatLessThanWellFounded` and `WFMin` |
| `ServiceProofs!PromptsAreToldHolds` | a copy was out of date no longer than its age and, in Redis, the transit, in a worker a TTL more (`KeptAt`); a value on its way no longer than it has been under way (`MakingOK`) |
| `ControlPlaneProofs!TenantsToldHolds` | the row was inserted once, each field of it is as inserted or as an update wrote it, and settings that were written are unset only to requests they overlapped (`RowInv`, `Unread`), without which a confirmed patch could be replaced unseen; what a request did, the row and the audit agree at each stage of its operation (`Known`, `Updating`, `Deleting`, `Provisioning`) |
| `ServiceProofs!SilentIsRightHolds` | at each stage the specification is the one that the result and the answer lead to (`ChartInv`), so a silent end is one of a validation without codes, of a type that the bridge draws; a mark is the type or one that it has no builder for |
| `ServiceProofs!TwoValidationsSettleHolds` | the same invariant; the fallback of types gives nothing new from its third use on (`Fallback` over what it gave), a specification without errors stays so, and the agent's hints suit columns that both see alike, by the number of the columns of each kind |
| `ServiceProofs!GatesAreExactHolds` | outcome and estimate are those of the query at each phase (`SqlInv`); the words of a text of the grammar are those of its pieces, so what the gates find in it is what its marks say |
| `TypeCorrect` of most | `TypeOK`, in parts, with what a step says of its data |

About 12,700 proof obligations in all; none is left to trust.

Only model-checked: all liveness (`LockoutLifts`, `AnswersSettle`, `EveryRequestEnds`,
`DueIsHandled`, `EveryAskEnds`), because ENABLED is out of the prover's reach; and `LineageIsExact`, for
`Cleaned` and `Clauses` read a text recursively, and what a recursive function computes is a matter of
induction over data. That loses little: the property depends on nothing but the text, and TLC goes through
every text of the grammar. `GatesAreExact` needs no such unfolding: the recursion of `Stripped` only begins
at a comment or a parenthesis, which the property excepts. The theorem says more than the run in the roles and
the faults, not in the texts. No module declares a RECURSIVE operator, and no claim rests on induction over
data.

## 6. Disagreements

Found while modelling; `PROJECT.json` has the lines and the runs.

- Two overlapping requests leave a tenant without an active admin, which
  `services/users.py:11-12` excludes.
- A worker that dies between INCR and EXPIRE leaves a counter that never expires.
- A revocation can take two TTLs, not "a minute"; a status refresh can be
  overwritten by an older read.
- A BYOK row that is deleted and saved anew starts again at version 1, which other
  workers may still hold.
- Overlapping embedding passes leave chunks of an old text.
- A PATCH or DELETE of a user who was deleted meanwhile is recorded as done.
- A tick puts the frequency of a replaced schedule back, and records as a success a report
  that could not be saved, or that the tenant of the schedule does not see.
- A confirmation is not tied to the query that was shown (`docs/api-reference.md:143`).
- `_hash_sql` folds the case of string literals, so two different queries share
  cached rows.
- An unreachable database refuses a query that "fail-open otherwise" promises to let pass.
- POST and stream treat a query without rows differently.
- Two pins get the same place; a pin shows another metric after a regeneration; an
  overtaken refresh puts edges back that a later one had dropped.
- `extract_tables` misses tables that end a text with ";", follow a line break or stand in
  a subquery, and takes some words for tables.
- More than 100 inline rows are moved to where the renderer does not read; a model is
  shown ten rows, and its chart shows those ten; types without a builder are drawn as bars, and the
  bridge's warning of an unknown type is dropped.
- The rule for viewers looks at words: comma joins and nested queries pass.
- A key that Anthropic rejects does not fail fast, and any error with a 401 or 403 in its
  text counts as a rejection by OpenAI; a call makes up to nine requests instead of three.
- Calls of the router, of a report's planner and of its summary never leave an audit row, and the
  chart's row is of no session, so that feedback does not reach it.
- A thumb that is rolled back, and posts that overtake each other, part the browser from
  the audit; a score for a session without rows is answered as recorded.
- `?refresh=true` on metrics reads a /meta response up to five minutes old; metric
  queries that differ in case or in the order of sort fields share rows; the Redis tier of
  `CubeClient` is never connected.
- A second patch of a tenant's settings is refused; users added during a decommissioning go
  with the tenant, without force; and the decommissioning of one tenant empties the analytics
  tables of all.
- No chart of a stream reaches the screen, for every chart event has a null that the
  browser's schema refuses; a confirmation or a retry runs the last question in the bubble of
  another; a response closed early spins for ever; a late history replaces what is on screen; a
  retry keeps the narrative of the run that broke.
- Above 20 metrics, the selection for one question is told to all questions of the tenant for
  minutes; a retrieval that failed open is kept for a day like any answer, and the nightly sync
  invalidates it in Redis only.

## 7. Not modelled

Stateless or read-only: the prompts and the parsing of the router, NL2SQL and narrative
agents, PDF export, health and data source endpoints, walks over
the lineage graph, masking, observability. Declarative: schema and migrations (their
constraints and cascades are in the actions that meet them). Scripts are run by hand
against an idle system. The scores of retrieval and the wording of contexts are left out. Start-up and shutdown of the application, pooling and timeouts of the
connector, and the refresh of a browser session are left out as well.

Two abstractions bound what the rules modules say. `SqlRules` knows the queries of its
grammar and no other; a word the regular expressions do not tell apart stands for all
like it. `ChartRules` takes the values of a column to be distinct, and its warnings about
axis bounds and negative values are left out.

Hazards seen while reading that no run covers: a tenant's traffic goes to the platform
account while the database cannot be read (`llm/resolver.py:106`; `MCByokResolverOutage`
exhibits it), resolved keys stay in memory (`:72`; `MCByokResolverMemory`), an embedding pass that
fails half-way leaves a page partly found (`services/wiki.py:103`), a report may be read
between two statements of its reader (`services/reports.py:413`), and the shutdown awaits the
scheduler under `suppress(Exception)`, which a cancellation passes (`main.py:45`).

## 8. Plan

What would add most from here:

1. `ChatStream` over the events of `ChatPipeline` instead of over any: what the browser
   shows against what the conversation keeps.
2. `ChatPipeline`'s cached lookup as an implementation of an uncached one, up to the folding
   of the key.
3. `PromptContext` and `CubeMetrics` as two instances of one abstract cache of bounded age, which
   `ControlPlaneCache` would implement too.
4. Shutdown and start-up (`main.py`), with the schedulers that are cut off.
