# Verification of the Canvas RAG backend

This directory models the concurrent and stateful core of the backend under
`app/` in TLA+, checks the models with TLC and proves the most important
properties with TLAPS. Paths below are relative to the repository root.

## 1. The system

The backend keeps, for every tenant (a student with a Canvas token), a copy of
the student's Canvas records in PostgreSQL and answers questions about it.

| Part | State it keeps | Operations | Interacts with |
|---|---|---|---|
| sync pipeline (`app/sync/pipeline.py`, `watermark.py`) | the row `sync_state(tenant, "users")`: watermark, last run, status, error | `sync_tenant`: read the watermark, fetch, upsert, advance, or record a failure | lock, Canvas client, repository; called by the scheduler and CanvasService |
| sync lock (`app/sync/lock.py`) | PostgreSQL advisory locks; for SQLite a registry of in-process locks | try, release | transactions of the pipeline's callers |
| scheduler (`app/sync/scheduler.py`, `app/main.py`) | the APScheduler job, a semaphore of four workers | start, tick, dispatch with jitter, run one tenant, shutdown | tenant service, lock, pipeline |
| manual synchronisation (`app/services/canvas_service.py`, `app/controllers/sync.py`) | the row `sync_state(tenant, "manual_sync")` | check and stamp the rate limit, run, answer | tenant service, lock, pipeline |
| tenant directory, credentials and the way of a request to them (`app/services/tenant_service.py`, `app/controllers/auth.py`, `app/core/deps.py`, `app/security/`) | tenants and encrypted tokens, in process memory (default) or in tables | connect, resolve tenant, store, decrypt | scheduler, every authenticated route |
| Canvas client and pagination (`app/canvas/client.py`, `pagination.py`) | visited URLs of one listing, attempt counter | request with retries, follow `next` links | Canvas |
| DTOs and peer filter (`app/canvas/dto.py`) | none | parse, strip records of other students | pipeline |
| repository (`app/repositories/upsert.py`, `app/models`) | the five record tables | upsert by Canvas id, soft delete, foreign-key guard | pipeline, /query |
| embedding ingest and vector store (`app/services/ingest_service.py`, `app/rag/vector_store.py`) | content hashes already stored (process memory), the vectors | sanitise, chunk, upsert unless seen, search | Ollama, PGVector |
| question answering (`app/rag/`, `app/services/rag_service.py`, `app/controllers/query.py`, `app/text_to_sql/`) | none | route, build and validate SQL, answer | record tables, vector store |
| HTTP shell (`app/middleware`, `app/core/errors.py`, `logging.py`, `app/controllers/health.py`, `app/observability`) | correlation id of a request, metrics | wrap every request | all routes |
| configuration, database sessions, migrations (`app/core/config.py`, `db.py`, `alembic/`) | settings, engine | build | all |
| legacy scripts (`main.py`, `src/*.py`) | a Chroma directory | extract, embed | none of the above |

What is hard about it: several runs of one tenant (scheduled, manual, in more
than one process) meet at one lock and one `sync_state` row; each run lasts
minutes of network requests in one transaction while Canvas keeps changing;
any request, flush or commit may fail; processes are killed and restarted with
in-memory state; and what a run fetches depends on a cursor an earlier run
left behind.

What makes the parts correct:

* pipeline and lock: runs of a tenant do not overlap; rows and watermark become
  visible together; no change made before the watermark is missing; failures
  and crashes change nothing but the failure marker; runs end; successes
  converge to Canvas.
* scheduler: at most four tenants at a time, no tenant twice, one tenant's
  failure does not affect another, every tenant whose token can be read is
  attempted, shutdown leaves nothing running.
* manual synchronisation: one accepted request per interval, truthful answers,
  a client that waits as told is not refused for the same stamp unless it comes
  within the last millisecond.
* tenant directory: one tenant per backend user, a request is served with a token
  of its own user that no later connect has replaced, what was connected is
  found again while the process lives, and every request is answered.
* client and pagination: every item once, none skipped while the list grows, the
  loop ends, bounded attempts.
* repository and peer filter: one row per tenant and Canvas id, no peer record
  stored, soft deletion follows the workflow state.
* HTTP shell: every request is answered, under one correlation id.
* ingest and vector store: unchanged content is embedded once, failed content
  is retried, tenants do not see each other's vectors, and an answer does not
  name a search that did not happen.

## 2. Plan

Order of work, most important behaviour first.

Done:

1. `Mirror`, `SyncRuns` and their proofs: what a run promises, and how runs
   under the lock keep it.
2. `ManualSync`: the rate limit of `POST /sync` in one and in several processes.
3. `Fleet`: scheduler ticks, worker pool, shutdown, and the tenant directory
   whose entries it serves.
4. `Listing`: the Canvas client's retries under the pagination loop, and a list
   that changes while it is read.
5. `Records`: upsert, soft delete, foreign keys and the peer filter.
6. `Retrieval`: vectors, content hashes and the route of a question.
7. `Requests`: an authenticated request from receipt to answer, with the tenant
   it gets, the token it is served with, the keys of tokens, the event loop, and
   the correlation ids.
8. Theorems for every safety property the runs check.
9. `Directory`, what the credential store promises, implemented by `Requests`;
   `RecordsAlone`, the tables as one tenant sees them, implemented by `Records`.
10. The steps behind the liveness properties: variants, what a wait waits for,
    and that nothing is left behind, as theorems.

Left:

11. The statements `text_to_sql` accepts, as operators on classes of statements
    checked against the rule they are meant to implement.
12. The in-process lock registry of `lock.py` that stands in for PostgreSQL in
    SQLite, with the nesting of a caller's transaction.
13. `Fleet` and `Records` joined by the tenant id, for the rows that a restart
    orphans when the directory is in memory.
14. A record that is active again after it was soft deleted, as a run of
    `Records` of its own (section 7).
15. Column values in `Records` that Canvas withdraws (`to_payload` leaves out
    null fields, so they stay).

Modules are written to be proved about: constants with named assumptions, one
action per operation, no RECURSIVE operator.

## 3. Modules

The modules share no variables. What one takes from another is named where it
is used: `Requests` ends where `ManualSync` and `Retrieval` begin, at the handler
that has its tenant and token; `ManualSync` and `Fleet` see a run of `SyncRuns` only as the time
during which a lock is held, and rely on its `RunsEnd`; `Records` leaves out
runs that fail because `SyncRuns` shows that they change nothing; `SyncRuns`
sees the rows of `Records` only as the time of the change they hold, and a
`Listing` as one step per record. Operators whose comment begins with "Mutant"
are bugs the code could plausibly have; no specification uses them.

### Mirror

The abstract specification of the stored copy: per tenant a copy of the Canvas
records that changes in atomic refreshes up to a time `w`, the status of the
last run and its time. It knows nothing of runs, locks or transactions.

### SyncRuns

Calls of `sync_tenant` in flight at once. A Canvas record is represented by the
time of its last change and a stored row by the time of the change it holds,
which is all the watermark compares.

| TLA+ | code |
|---|---|
| `state[t]` | the row `sync_state(t, "users")`; `wm = 0` is a NULL watermark |
| `rows[t]`, `canvas[t]` | the committed record tables of the tenant, the records at Canvas |
| `lock[k]` | `pg_try_advisory_xact_lock(k)`; `LockKey` is `hashtext`, which may collide |
| `run[r]` | the locals of one call: `run_at`, the row it loaded (`seen`), the listings left (`todo`), its uncommitted upserts (`staged`) and its uncommitted `sync_state` values (`draft`) |
| `Start`, `Acquire`, `Busy` | a caller begins a transaction and tries the lock |
| `Enter`, `ReadState` | the head of `sync_tenant` |
| `Fetch` | one record of the favourites listing or of a course's assignments, upserted |
| `AdvanceWatermark`, `Commit` | `advance_watermark`, the end of the outermost transaction |
| `Fail`, `RecordHeld`, `RecordOwn`, `RecordLost`, `CommitFails` | the `except` clauses and `_finish_failure` |
| `Crash` | the process dies or the task is cancelled |

There are two ways to call `sync_tenant`. In `"callerLock"` (the scheduler and
`CanvasService`) the caller has begun a transaction and holds the lock, and the
run works in a savepoint. In `"ownLock"` (`lock_id=None`) the run begins the
transaction, reads the watermark, and then takes the lock; its failure is
recorded in a second transaction without the lock. `Flush` models the unit of
work of the ORM: a row that was loaded keeps its loaded attributes, and an
UPDATE names only the columns whose value differs from them. `RowLocked` is the
row lock of PostgreSQL between that UPDATE and the commit.

`Filtered` says which listings honour `updated_after`, which Canvas decides and
no code here. The code sends it with both. `Reached` are the records that every
run asks for under `Filtered`: the courses, and the assignments unless the
favourites listing is filtered, because the assignments of a course that is not
listed are not fetched. What the runs and theorems say of completeness
(`ReachedComplete`, `Converges`, `CatchesUp`, the refinement of `Mirror`) they say
of `Reached` for every `Filtered`, so with a filtered favourites listing they
promise nothing of assignments; `Complete`, which asks it of all records, is
what the documents promise, and is violated then (section 7). In `Mirror` a
change of a record outside `Reached` is only a `Tick` of the clock.

`LocksAreHeld`, `RunsAdvance` and `CatchesUp` (section "Ends") say how runs come to
an end and what their success leaves.

### ManualSync

Requests to `POST /sync` from receipt to answer.

| TLA+ | code |
|---|---|
| `stamp[t]` | `last_run_at` of `sync_state(t, "manual_sync")`, 0 without a row |
| `lock[t]` | the tenant's advisory lock: the request or process whose run holds it |
| `req[q]` | the handler of one request: how far it is, the `now` it was checked with, whether it will insert the row, and the answer |
| `Receive`, `Check`, `Lookup`, `Write` | `post_sync`, `enforce_manual_rate_limit`, the two halves of `_stamp_manual_run` |
| `NoCredentials`, `TryLock`, `Finish`, `DatabaseError` | 403, `_run_locked` with its 429, the end of the run, 500 |
| `ScheduledBegin`, `ScheduledEnd` | the scheduler of a process takes and releases the lock |
| `Crash` | a process dies with its requests and locks |

The handler is `async` but its database calls are synchronous: `LoopBusy` says
that no other task of the process runs between the check and the lock. Whether
the rate limit holds depends on exactly this, so it is a guard of its own.
Retry-After is `int(minimum - elapsed + 0.999)`: a `Second` has any number of
clock units and `Round` of them are the 0.999 s, so with a clock of microseconds
`Second` is 10^6 and `Round` 999000. A remainder below a millisecond is rounded
down, and a client that waits as told can be refused once more for the same
stamp within it; `HonestRetry` says that this is the only way. The rounding of
the floating-point sum may move the boundary by a unit, which is another
`Round`.

### Fleet

The scheduler and the credentials it works from.

| TLA+ | code |
|---|---|
| `job`, `tick` | the APScheduler job and the one tick that may be running (`max_instances=1`) |
| `task[t]`, `free` | the dispatched task of tenant t (asleep for its jitter, queued, in a slot), the semaphore |
| `lock[t]` | who holds the tenant's lock: the scheduled or a manual run |
| `memory`, `rows` | credentials in process memory; credentials in the table, each with the key it is encrypted with |
| `key`, `bound` | the key this process is configured with; whether a connect has bound its cipher in `_ciphers` |
| `Start`, `Fire`, `List`, `ListFails`, `TickEnds`, `Shutdown` | the scheduler's life and its ticks |
| `Wake`, `TakeSlot`, `ReadToken`, `Open`, `OpenFails`, `Finish`, `Cancel` | one task: jitter, slot, token, client and lock, run, cancellation |
| `Connect`, `ManualBegin`, `ManualEnd`, `Exit` | the rest of the application; the next process may have another key |

`Store` is `"memory"` for `TenantService()` as `get_tenant_service` builds it,
and `"database"` for a service with a session. The scheduler lists the table in
both cases. A row can be read (`Readable`) by a process in which a connect has
bound a cipher, if it was written with the key of that process: `_ciphers` is
process memory that only `store_canvas_token` fills, and every cipher and row
has version 1. `ReadToken` skips the others, as `TenantNotFound` makes
`_run_for_tenant` do.

### Listing

One call of `paginate` on top of the client's retries. `list` is what Canvas
holds, `url`, `visited`, `passes` and `attempts` are the locals of the loop and of
the request, `yielded` the items handed out. With `wild` the `next` links lead
anywhere; otherwise they are Canvas's own. `Key` is the normal form in which
`page=1` and no page are one URL. `Added` and `Removed` change the list between
two requests; `atStart`, `changes` and `removed` remember what it was, so that
"every item" can be said of a list that has moved under the pages.

### Records

What the runs of all tenants write into the record tables. A row is known by
tenant, table and Canvas id; `parent` and `user` are foreign keys, and `about`
and `text` remember whose record and whose body a row was filled from, so that
"no data of another student" is a statement about a history and not about one
upsert. `Upsert`, `Resolve`, `Merged`, `Kept` and the `Store...` operators are
`upsert_by_canvas_id`, `_resolve_local_uuid`, the column-wise update with
`soft_delete_if_inactive`, `strip_peer_data`, and the per-record code of the
pipeline. A run is four phases per tenant; runs of different tenants interleave.
Runs that fail are left out (they are rolled back as a whole). An account may
change between runs of a tenant, because a tenant can connect another token.

### RecordsAlone

The refinement mapping from `Records` to `Records` with a single tenant: the rows
and the run of `Self`. It is the purpose of every `tenant_id` filter in one
formula, `AsIfAlone`.

### Directory

The abstract specification of the credential store for those who call it: one
register per user. A connect takes effect when it is answered or not at all, a
use is served with the token on file at one instant, and a restart drops all
calls and, for a store in memory, all tokens. It has no tenants, rows,
transactions or keys.

### Retrieval

A `VectorStore` that is given a store and an embedder, and `post_query` with a
`RAGService` over it. `hashes` and `health` are the attributes of the store
object, `vectors` the rows in PGVector, `up` whether the embedding provider
answers; `up` changes between any two steps. `Ingest` is
`prepare_assignment_chunks` and `upsert` of one assignment, with the three ways
it can go. `Restart` empties what is in memory.

Several questions are under way at once. `get_rag_service` is a synchronous
dependency, so `RAGService.__init__` probes the provider in a worker thread
(`Ask`) and sets the flag that all requests share (`Construct`) while another
question is on the event loop. There it is one question at a time: `Refresh`,
the route (`AnswerFromTables` or `TakeVectors`), the look of
`similarity_search` at the flag (`Look`), and the search (`AnswerFromVectors`,
`AnswerFails`). `misled` remembers that another constructor found the provider
down between the route and the search. In `app/` as it stands nobody calls
`upsert` and `get_rag_service` passes no vector store, so this module is about
the components, not about a deployment.

### Requests

Requests of several users at once, from the middleware to the answer.

| TLA+ | code |
|---|---|
| `tenants[u]`, `creds[i]` | the tenant of a backend user and the credential of a tenant, in the dictionaries of `TenantService` or in their tables |
| `current`, `bound` | `TENANT_TOKEN_KEY` of the process; the key of the one cipher in `_ciphers` (every cipher has version 1) |
| `req[q]` | the handler of one request: its stage, the tenant `require_tenant` returned, whether its row is inserted and not committed, the credential row it loaded, the token, and the answer with the ids in its body and header |
| `Receive`, `Answer`, `Raise`, `Unhandled` | `CorrelationIdMiddleware` and the handlers of `errors.py` |
| `Authenticate`, `ResolveInMemory`, `Lookup`, `InsertTenant` | `verify_backend_jwt_dependency`, `require_tenant` over the two stores |
| `Refused`, `StoreInMemory`, `StoreInTables`, `InsertCredential`, `Commit` | `connect_canvas` and `store_canvas_token` |
| `ReadToken`, `Serve` | `require_tenant_token` and the routes behind it |
| `DatabaseError`, `Restart` | a failed statement or commit; a process is replaced, maybe with another key |

`store` is `"memory"` for `TenantService()`, which the shipped routes use, and
`"tables"` for the same handlers over a service with a session whose owner
commits. `InsertTenant` and `InsertCredential` wait, as the INSERT of PostgreSQL
does, for a transaction that has inserted the same key, and fail when it
commits; `Waits(q, p)` says which request waits for which. `connect_canvas` is a
coroutine, so its database calls block the event loop: `HoldsLoop(q)` says that
its INSERT is under way, and `LoopBusy` that nobody else can be received,
resumed by the loop or answered meanwhile, while the dependencies of other
routes go on in worker threads. `OnFile` and `CallOf`
map the state to that of `Directory`: what is on file for a user is the token of
the credential of its tenant. `accepted`, `done` and `stale` are histories: what
Canvas accepted for a user, whose connect was answered, and what a later connect
has superseded; `live` are the users whose connect the present process answered.
A new process answers nothing of its predecessor's.

### Proof modules

`SyncRunsProofs`, `SyncRunsRefinement`, `ManualSyncProofs`, `FleetProofs`,
`ListingProofs`, `RecordsProofs`, `RetrievalProofs`, `RequestsProofs`: the
theorems of section 6.

## 4. Runs

| cfg | module | what it shows |
|---|---|---|
| `SyncRuns.cfg` | MCSyncRuns | callers' lock: the inductive invariant, failures, stamps and their order, liveness and the refinement of Mirror |
| `SyncRunsDirect.cfg` | MCSyncRuns | both modes mixed, both listings filtered: overlap, completeness of what every run asks for, row order |
| `SyncRunsFiltered.cfg` | MCSyncRuns | violation: with a filtered favourites listing the watermark passes a changed assignment (`Complete`) |
| `ManualSync.cfg` | MCManualSync | one process: the rate limit, Retry-After as it is rounded, no insert conflict, every request answered |
| `ManualSyncProcesses.cfg` | MCManualSync | violation: two processes admit two requests in one interval (`OnePerInterval`) |
| `Fleet.cfg` | MCFleet | credentials in the table: slots, locks, shutdown, ticks end, tenants with a readable token are attempted |
| `FleetRestart.cfg` | MCFleet | violation: after a restart no token can be read and connected tenants are skipped in every tick (`ConnectedAttempted`) |
| `Listing.cfg` | MCListing | every item once, nothing skipped while the list grows, no page twice, the loop ends |
| `Records.cfg` | MCRecords | one row per record, links within the tenant, no peer data, replays change nothing, links are kept, tenants are as if alone |
| `Retrieval.cfg` | MCRetrieval | what is indexed for whom and how often in a process, whose evidence an answer uses, what it claims |
| `RetrievalRetry.cfg` | MCRetrieval | violation: a text whose storing failed is taken for stored by the retry (`FailedIsRetried`) |
| `Requests.cfg` | MCRequests | whose tenant and token a request gets, what a rotation leaves, who is connected is not refused while the process lives, every request is answered unless the loop is stalled, and the refinement of Directory |

Bounds, and why they are enough:

* SyncRuns: one tenant, two runs, one course and one assignment, and a clock
  that stops at 4 (3 with both modes). Runs of different tenants touch no common
  row and share at most a lock key, so two runs of one tenant are the
  interesting case; a third only waits for or fails against one of the two. A
  course and one of its assignments are needed for the dependence of the second
  listing on the first. The clock allows a first success, an edit during the
  next run, and one after it.
* ManualSync: two requests and one tenant; three clock units to a second, of
  which `Round = 1`, so that Retry-After is rounded up, kept and rounded down;
  `Interval = 6` and `MaxClock = 10` allow two admissions and what is refused in
  between. A request that
  is answered can be received again, so two suffice for every race.
* Fleet: three tenants for two slots, the least where a task has to queue; two
  keys, so that a process can find rows of its own key and of another. The
  violation needs only one key and a restart.
* Listing: pages of two, three passes (1000 in the code) and lists of up to
  seven items, which is one more than fits; three attempts per request as
  configured. Two changes during a listing shift the rest by a whole page, or
  there and back.
* Records: two tenants that share a course id, one id per table and a second
  assignment that a submission may name and nobody has, the item sets
  of `MCRecords` (each with own, foreign, unnamed and incomplete records), one
  course per run. `MaxListed` bounds the courses of a run.
* Retrieval: two tenants, two texts of which one is shared, a text that is
  replaced, added and put back, one restart. Two questions, because a question
  on the loop can be disturbed by the constructors of others only, and one that
  comes back again and again does all that many can.
* Requests: two users and two requests, which is every race for one row, one
  tenant and one credential; two tenants and two tokens, so that a token can
  replace another; two keys, so that the process can come back with another one.
  Restarts are unbounded.

Types are part of the invariant that `SyncRuns.cfg` checks and a theorem about
every module. The theorems drop all these bounds. Deadlock is checked everywhere: a new run,
request, tick or question can always begin, and a listing that has ended says so
by stuttering in its last state.

## 5. Fairness

* SyncRuns, `FairSpec`: weak fairness of `Progress(r)`, all steps of a run
  except its start and its crash. Every Canvas request has a timeout and a
  bounded number of attempts, the lock is tried and never waited for, and the
  event loop resumes every task. Nothing is assumed of Canvas, of callers or of
  success: `Converges` is conditional on runs that keep succeeding.
* ManualSync: strong fairness of `Serve(q)` and of `ScheduledEnd`. A request
  that is ready may be passed over while another one blocks the loop, again and
  again; asyncio's ready queue is first in, first out, so it is not passed over
  for ever. A holder of the lock ends because runs end.
* Fleet: the cron trigger fires (`WF` of `Fire`), a listing of tenants does not
  fail for ever (`SF` of `List`), a tick with no task left ends, a task is not
  passed over for ever by the first-in first-out semaphore (`SF` of `Run(t)`),
  and manual runs end. Shutdown may come at any time.
* Listing: weak fairness of `Step`: a request is answered or times out.
* Requests: strong fairness of `Step(q)`: threads and tasks are resumed when the
  loop is free, the probe of Canvas times out after eight seconds, and an INSERT
  that waits is woken when the other transaction ends. It is strong because a
  step may be enabled and disabled again and again by other requests that insert
  or have the loop. A step that the blocked loop would have to take is not
  enabled, so nothing is assumed of a stalled loop: `EveryRequestAnswered` says
  that a request is answered or the loop is stalled. Receipt, database errors and
  restarts are not fair.
* Records and Retrieval claim safety only and assume none.

## 6. Proofs

All theorems hold for every value of the constants, under the named assumptions
of each module and those in the last column.

`SyncInv` is the inductive invariant. `NoOverlap` needs only that a run between
taking and releasing the lock is the one its key names (`LockInv`).
`ReachedComplete` is not inductive: a commit publishes records fetched at different
times and moves the watermark to the start of the run. What saves it is
`StagedInv`, that a staged record is either still the current one or was
changed after the run began and after every watermark that is stored or that
some run has read (`NewerThanKnown`), and `FetchInv`, that a record the run is
done with and did not stage is already right. `KnownComplete` extends
completeness to the watermarks runs remember, because a run in mode "ownLock"
filters by a watermark that may be older than the stored one. `TimeInv` and
`PhaseInv` are bookkeeping. Each action is one lemma or one step; steps that
only move one run are reduced to `LocalPreserves`.

| SyncRuns | statement | assumes |
|---|---|---|
| `TypeCorrect` | `Spec => []TypeOK` | |
| `Invariant` | `Spec => []SyncInv` | |
| `RunsDoNotOverlap` | `Spec => []NoOverlap` | |
| `RowsNeverRegress` | `Spec => RowsOnlyAdvance` | |
| `WatermarkIsComplete` | `Spec => []ReachedComplete` | |
| `CallersInvariant` | `Spec => [](SyncInv /\ CallerInv)` | every caller takes the lock first |
| `FailuresKeepData`, `SuccessesAreStamped`, `RunsAreRecordedInOrder` | the action properties | every caller takes the lock first |
| `RunsImplementMirror` | `Spec => M!Spec` | every caller takes the lock first |
| `NoLockIsLeftBehind` | `Spec => []LocksAreHeld` | |
| `RunsOnlyAdvance` | `Spec => RunsAdvance` | |
| `SuccessCatchesUp` | `Spec => CatchesUp` | |

Nothing is assumed of the listings Canvas filters: with an unfiltered favourites
listing `Reached` is everything and `ReachedComplete` is `Complete`; with a
filtered one the theorems are about the courses. That callers take the lock
first cannot be dropped: section 7 has the counterexample.

The last three are the safety behind `RunsEnd` and `Converges`. `LocksAreHeld` is
the converse of `LockInv`: a lock belongs to a run that is at work under that
key, so a failed attempt to take one means that a run is under way. `RunsAdvance`
is the variant: a run goes through its stages, in an order that depends on its
mode, and while it fetches the records it may still have to fetch (`Pending`)
only decrease. `CatchesUp` needs the two halves of the argument for
`ReachedComplete` again: what a run staged is current unless Canvas changed after the run began
(`StagedInv`), and what it left out was current already (`FetchInv`).

`ManualSync`: `RateInv` adds to the types that no stamp is later than the clock
(`StampInv`) and that a request past the check still knows the current stamp
(`PassedInv`). The last needs that nobody else in the process is between check
and lock, which is why it is proved for one process only.

| ManualSync | statement | assumes |
|---|---|---|
| `TypeCorrect`, `TimesInvariant` | types; nothing remembered is later than the clock | |
| `RetryAfterIsHonest` | `HonestRetry` | |
| `RateInvariant`, `FirstStampsDoNotCollide`, `AtMostOnePerInterval` | `RateInv`, `NoInsertConflict`, `OnePerInterval` | one event loop |
| `LocksFollowRuns` | `LoopInv`, `LocksMatchRuns` | |
| `RunsExcludeEachOther` | `OneRunPerTenant` | |

`RetryAfterIsHonest` is for every `Second` and every `Round` below it, so for
every resolution of the clock.

`LocksFollowRuns` and `RunsExcludeEachOther` say what remains with several
processes: the rate limit may admit two requests of a tenant, but they never run at once, nor beside a scheduled run.

`Fleet`: `FleetInv` is the types, that tasks exist only in a tick (`TickInv`), and
the two properties; counting the slots taken uses the cardinality theorems.
Theorems: `FleetInvariant`, `TypeCorrect`, `SlotsAreBalanced`, `LocksMatch`,
`ManualRunsKeepTheirLock`, `NothingBeginsAfterShutdown`. From the same invariant:
`FourAtOnce` (at most four scheduled tenants at once; the pool is `Slots \in 1..4`),
`TicksLeaveNothing` (between ticks all slots are free and no lock is the
scheduler's), `QueuedWaitForHolders` (without a free slot, a queued task waits for
another task of its tick that has one) and the variant `TasksGoForward`.

`Listing`: `ListingInv` adds to `NoPageTwice` that with sound links the passes
and the page number agree (`InOrder`), that the items yielded are exactly the
pages before the current one as long as the list has not changed (`InSequence`),
and that an item of the original list was yielded or lies on the current page or
a later one as long as none was removed (`Covered`): an addition moves items only
towards pages that are still to come. Theorems: `Invariant`, `TypeCorrect`,
`NoPageReceivedTwice` (for links that lead anywhere), `ItemsYieldedOnce`,
`NoItemSkipped`, and the variant `ListingsRunOut`: the attempts left on this page
and on the pages to come go down with every answer or failure.

`Records`: `RecordsInv` says of the rows alone that they are typed, unique,
linked and private (`Sound`), and of a run that the user and the courses it
carries are stored. `UpsertSound` shows once that an upsert keeps `Sound` when
its links are stored; each step of a run is a few such upserts. Replays rest on
three facts about upserts: one settles its own change (`UpsertSettles`),
unsettles none in another table (`SettledStays`), and does nothing when its change
is settled (`SettledIsNothing`). Theorems: `TypeCorrect`, `RecordsHaveOneRow`,
`LinksStayWithinTenant`, `PeersStayOut`, `LinksAreKept` (an assignment is linked
to its course, a submission to an assignment unless it names another than it came
with, and links once made stay), `ReplaysChangeNothing`, and the refinement
`TenantsDoNotInterfere`: restricted to one tenant, the lookups of an upsert find
the same rows, so its steps are steps of `Records` with that tenant alone, and the
steps of others change nothing it can see. Of `RecordsInv` it needs only the
types: the filters by tenant alone keep tenants apart.

`Retrieval`: `ContentIsIndexed` is not inductive, since an upsert that finds
nothing new reports what it has not stored itself; `IndexInv` adds that what is
remembered is stored or has failed. `CountInv` says that the process has added
only what it remembers, `HadInv` follows texts from assignments to vectors to
evidence, and `AskInv` says that a question that took vectors finds the flag set
unless another constructor cleared it. They hold for any number of questions at
once. Theorems: `Invariant`, `TypeCorrect`, `ReportedIsIndexed`,
`EmbeddedOnce`, `EvidenceStaysOwn`, `ClaimsStayTrue`.

`Requests`: `RequestsInv` is the types, what a handler holds at each stage
(`ShapeInv`), that tenants are told apart including those not committed yet
(`TenantsInv`), the order of the histories (`HistoryInv`, `TokensInv`), and the
two properties for stored and for served tokens (`OwnInv`, `ServedInv`). The key
of `SupersededStaysOut` is that the token of a connect under way is not done, so
committing it can only replace a token by one that is newer than `stale`.
In the refinement of `Directory`
a connect takes effect when it is answered: in the tables that is the commit, and
a request that has inserted a tenant nobody else can see yet has nothing on file.

| Requests | statement | assumes |
|---|---|---|
| `TypesKept`, `TokensAreOwn`, `SupersededStayOut`, `TenantsAreOwn`, `IdsOfAnswersAgree` | `TypeOK`, `TokenIsOwn`, `SupersededStaysOut`, `OneTenantPerUser`, `IdsAgree` | |
| `RequestsImplementDirectory` | `ImplementsDirectory`, `Spec => D!Spec` | |
| `OnlyTheLoopDeadlocks` | `OnlyTheLoopStalls` | |
| `RequestsOnlyAdvance` | `RequestsAdvance` | |
| `ConnectedAreNotForbidden` | `ConnectedIsNotForbidden` | |

`ConnectedIsNotForbidden` is about a user whose connect the present process has
answered. Its proof needs that the rows of a tenant, the credential and the
cipher that is bound change together: whoever commits last has bound the key it
encrypted with, and within one process that key is `current`. After a restart
nothing is promised (section 7).

`OnlyTheLoopStalls` follows who goes on only after whom, through rows and through
the loop: whoever waits for a row waits for a transaction that waits for none, and
one connect at a time has the loop. So without a stalled loop there is no circle.
That the loop can be stalled is part of the statement, not excluded by it. It is
about more requests than the run has and is only proved, like `IdsAgree`.

Only model-checked: the liveness properties `RunsEnd`, `Converges`,
`EveryRequestAnswered` (of `ManualSync` and of `Requests`), `TicksEnd`,
`ReadableAttempted` and `ListingEnds`, because liveness under fairness and ENABLED
are out of the prover's reach. What is proved is the safety they rest on: the
variants (`RunsOnlyAdvance`, `TasksGoForward`, `ListingsRunOut`,
`RequestsOnlyAdvance`), by which whoever keeps moving ends; that those who wait
wait for somebody who can move (`NoLockIsLeftBehind`, `QueuedWaitForHolders`,
`OnlyTheLoopDeadlocks`); and the step that makes rows equal to Canvas
(`SuccessCatchesUp`). That the fair steps are enabled and taken is what TLC adds.
Every safety property of a passing run is also a theorem.

## 7. Findings

Shown by a run:

* Two processes can each admit a manual run of one tenant within one interval
  (`ManualSyncProcesses.cfg`), where `design.md` promises one per 60 seconds.
* If Canvas applies `updated_after` to the favourites listing, a changed
  assignment of an unchanged course is never fetched, and the watermark passes it
  (`SyncRunsFiltered.cfg`). `pipeline.py:449-454` sends it there and
  `exploration.md:296` says "Canvas supports it"; the specification asks for a
  watermark that does not "skip uncommitted changes".
* A tenant that has connected may never be scheduled again after a restart
  (`FleetRestart.cfg`). Its row stays in the table and is listed, but
  `get_decrypted_canvas_token` needs a cipher that only a connect of the same
  process has bound (`tenant_service.py:245-249`), and nothing in `app/` binds one
  at start-up; `canvas-read-sync/spec.md:46` says "each connected tenant". With
  the default store, which is process memory, it is worse: the scheduler lists
  the table, so tenants connected through the application are never listed at
  all. And there is one process in the model: in several, only the one that
  handled a connect can read tokens.
* `VectorStore.upsert` records a hash before it stores the document, so content
  whose `add_documents` raised is taken for known by the retry, which returns
  normally (`RetrievalRetry.cfg`; `openspec/specs/embedding/spec.md` asks that it
  remain eligible).

Seen while modelling, and not the subject of a run:

* `sync_tenant` without `lock_id` loads the `sync_state` row before it takes the
  lock and stamps the success on what it loaded. When a failure of another run
  is recorded in between, the UPDATE leaves out the columns that are equal to
  the loaded ones, and the success can stay marked as failed (`advance_watermark` in `watermark.py`). The callers in
  `app/` pass a `lock_id`; `CallersInvariant` and what follows from it assume so.
* `VectorStore` adds rows without ids and knows what is stored only by
  `_hashes`, which is process memory (`vector_store.py:14`, `:45`). After a
  restart every text is embedded again and a second row is added beside the
  first; `vectors[k]` can exceed 1 and grows with the restarts. `design.md:76-77`
  says "Vector refresh uses a content-hash key so unchanged chunks are not
  re-embedded", `vector-store/spec.md:17` that a vector is "upserted in PGVector
  by stable tenant-scoped source identity", and `canvas-read-sync/spec.md:44`
  "Replaying a completed input MUST NOT create duplicates". The property that
  holds, `EmbeddedOncePerProcess`, is about one life of the process.
* The health flag of the store is shared by all requests. When the constructor of
  another request (`rag_service.py:23`, in a worker thread) finds the provider
  down between the route and the search, `similarity_search` returns `[]` and the
  question is answered from nothing under route "semantic" or "hybrid", where
  `question-routing/spec.md:47` says routing "MUST disable vector and hybrid
  execution" and `retrieval/spec.md:44` that unsupported semantic retrieval must
  be identified. `ClaimsAreTrue` exempts exactly these answers (`misled`).
* With a session, two connects of a new user can stall the event loop: the second
  waits in its INSERT (`auth.py:92`, synchronous) for the row of the first, which
  awaits Canvas (`auth.py:96`) on the loop the second blocks. The same holds for
  a first `POST /query` of the user that has inserted the row in a worker thread
  and is to be answered. Nobody is served until the process is replaced or the
  database gives up. `EveryRequestAnswered` exempts this state (`LoopStalled`),
  and `OnlyTheLoopDeadlocks` shows that there is no other. The default store has
  no session and no such wait.
* `connect_canvas` builds its `TokenCipher` with key version 1 whatever the key,
  and nothing in `app/` binds further ciphers, so after a restart, and after
  `TENANT_TOKEN_KEY` is replaced, a user with a stored token is told 403 until
  somebody connects under the key of the row, although `token_crypto.py` describes
  rotation by version.
* Retry-After is short by less than a millisecond when what is left exceeds whole
  seconds by less than that (`canvas_service.py:174`), so a client that waits
  exactly as told can be refused once more.
* A record that becomes active again keeps its `deleted_at`: `upsert_by_canvas_id`
  and `soft_delete_if_inactive` (`upsert.py:207-246`) set it and nothing clears
  it, where `app/models/__init__.py:113` says "`NULL` = active".
* `_canvas_invalid_response`, the answers of `post_sync` and the rewriting of 403
  in `_SyncRoute` mint an id of their own, so their body and header differ; an
  unhandled exception is answered outside the middleware with an id no log line
  of the request has.
* With the directory in memory a user has another tenant id in every process and
  after every restart.
* An item that is removed from a list while it is read shifts the rest, and one
  that was there is skipped without an error.
* Nothing removes the vector of a text that was edited, and a value or record
  that Canvas withdraws stays in its row.
* `retrieve_hybrid` reads the metadata key `id`, which the documents of
  `prepare_assignment_chunks` do not carry.
* The scheduler object has no attribute `running`, so `/healthz` always reports
  it as stopped.

## 8. Not modelled

`PROJECT.json`, `components`, has each part and the reason. In short: SQL
templates and validation (stateless checks, planned), health, metrics,
configuration and migrations (no state of their own that the rest depends on),
log redaction, JWT and Fernet themselves (a token is sound or not, a cipher
reads what its key wrote), the legacy scripts (not imported by the application),
the in-process lock registry used with SQLite, column values other than links,
states and bodies, the wording and language of answers, and lengths of waits and
back-off.
