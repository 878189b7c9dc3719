# NorthForge: TLA+ models, checks and proofs

NorthForge turns a request in plain language into a reviewed workflow over contract
documents. A FastAPI process serves the API, an arq worker runs planning and ingestion
jobs, PostgreSQL holds the state, Redis carries the queue and the model cache, an
S3-compatible store holds document text, and language models are reached through a router
with retries, circuit breakers and fallbacks. This directory models the parts of
`src/backend/northforge` whose correctness depends on the order in which requests, jobs,
answers and timeouts happen, and the algorithms they rest on.

Run a check with `tlc -workers 2 -config MCRunLog.cfg MCRunLog`, and the proofs of a
component with `tlapm RunLog_proofs.tla`. `PROJECT.json` maps every definition to the lines
it models, and lists the runs, the mutants that show each property can fail, the findings,
the hazards and the theorems.

## 1. Inventory

Paths are under `src/backend/northforge`.

| Component | State | Operations | What is hard | What makes it correct |
|---|---|---|---|---|
| Circuit breaker (`providers/resilience.py`) | remembered failures, `_opened_at`, `_probe_in_flight`, one per model | `allow`, `record_success`, `record_failure`, passing of time | callers report late, in a state other than the one they were admitted in | closed breakers are below the threshold and unflagged; a failed probe re-opens |
| Limiter and retry policy (`providers/resilience.py`) | a semaphore per provider and per model; an attempt counter | enter and leave a slot, attempt, back off | two semaphores in order, cancellation while waiting for the second, back-off with both held | no slot lost or granted twice; bounded attempts; nobody waits for ever |
| Model router (`providers/router.py`) | per call: candidate, last error | `_execute` by role; `resolve_routes` at start | the breaker is asked before the wait; fallback decides on error classes | the outcome follows from the candidates' fates; routes only hold models that can serve them |
| Capabilities, factory, settings (`providers/capabilities.py`, `providers/factory.py`, `core/config.py`) | constant after start | load, `satisfies`, build | what production forbids, what has a key | a process that starts can serve its routes |
| Cache (`providers/cache.py`) | entries with a time to live | `generate` and its siblings | backend failures, entries shared by callers | only sound results of deterministic requests; a hit is as good as a miss |
| Structured output, adapters (`providers/structured.py`, `nvidia.py`, `mock.py`) | none; the mock's script | send, parse, repair once, map errors | errors of the repair call, batches, retries around all of it | what a caller gets is explained by the last exchange |
| Workflow versions (`db/repositories/workflows.py`) | version rows, `workflows.current_version_id` | create, create_version, update_definition, validate, approve, restore | read-then-write without locks, beside planner jobs | approved versions never change; only what validates is approved; the pointer moves by approval |
| Runs (`db/repositories/runs.py`) | run rows, trace events | create with an idempotency key, transition, append_event, list_events | check in memory, write later; numbers by `max + 1`; followers by cursor | events form a stream a follower can trust; terminal is final; times match the status |
| Workflow schema and validation (`schemas/`) | none | parse, `validate_workflow` | graph loops, repeated edges | cycles are found, ancestors exact, what validates can be executed |
| Planner (`planner/`) | graph state, a draft at the end | screen, ground, probe tools, propose, compile, repair, persist | arbitrary model output, a session shared with tools, redelivery | loops end; what is stored obeys the enforcer; what is reported is what is stored |
| Ingestion (`ingestion/`) | documents, chunks, policy rules, stored objects, `users.access_groups_json` | one job per data set; `--grant-user` | object written before the commit, two jobs at once, rules that follow re-chunking | object, hash, chunks and rules agree; grants are kept |
| Chunking (`retrieval/chunking.py`) | none | `chunk_markdown` | overlap, cap, headings | no sentence lost or cited under a wrong heading |
| Retrieval and document reads (`retrieval/`, `db/repositories/documents.py`, `api/routes/documents.py`, `tools/builtin/`) | none (read rows) | search, rule look-up, list, detail, chunk | access filters spelled out five times, limit before deduplication, statements in different snapshots | restricted documents change nothing; the newest copy shows; all ways of reading agree |
| Users and authentication (`db/repositories/users.py`, `auth/`) | users rows | verify a token, upsert | the upsert locks the row of every request's user | nothing granted or known is lost |
| Worker (`worker/main.py`) | job slots, heartbeat | run a job, cancel after `job_timeout`, redelivery after a death | a job dies anywhere | what is not committed never happened |
| API (`api/`) | a database session per request | routes | commit in the dependency's exit code | commit on return, roll back on error |
| Readiness, queue, storage, logging, frontend, migrations, synthetic data | little or none | | | see section 6 |

Interactions. API routes and worker jobs call the repositories in a session of their own;
they meet in PostgreSQL rows and, for one user, in the lock on the `users` row. Planner jobs
call the router, which calls an adapter through the cache; concurrent jobs meet in the
process-wide breakers, semaphores and cache. Ingestion chunks a document, writes the store and
then the database; searches and tools read what it committed. The planner's proposal is
compiled, validated by the schema layer and stored through the versions repository.

## 2. Modules

| Module | Models | Used by |
|---|---|---|
| `CircuitBreaker` | one breaker's record and the operators `allow`, `record_success`, `record_failure`, `_prune`, `state` | `ModelRouter` |
| `ModelRouter` | `_execute` by concurrent callers, with breakers, semaphores, retries, fallback and cancellation | `MCModelRouter`, `ModelRouter_proofs` |
| `ModelSetup` | settings, catalog, routes, providers and the planning endpoints' preconditions, as functions | `MCModelRouter`, `ModelRouter_proofs` |
| `ModelCall` | a call below the router: cache, adapters, parse and repair, retries | `MCModelCall`, `ModelCall_proofs` |
| `VersionLifecycle` | abstract: the lifecycle of versions as atomic operations, as the API documents it | `WorkflowVersions` |
| `WorkflowVersions` | the repository's read-then-write sessions, refining the lifecycle | `MCWorkflowVersions`, `WorkflowVersions_proofs` |
| `EventStream` | abstract: an append-only stream of which a client holds a beginning | `RunLog` |
| `RunLog` | run creation, run status, trace events, a follower, implementing the stream | `MCRunLog`, `RunLog_proofs` |
| `Ingestion` | `ingest_dataset` by concurrent jobs, over the object store and the database | `MCIngestion`, `Ingestion_proofs` |
| `WorkflowGraph` | the graph loops of parsing and validation, one iteration a step | `MCAlgorithms`, `WorkflowGraph_proofs` |
| `WorkflowRules` | what a definition must satisfy to parse and to validate, as operators | `ProposalCompiler` |
| `ProposalCompiler` | the enforcer `compile_proposal`, as operators | `Planner` |
| `Planner` | a plan_workflow job from the queue to its result | `MCPlanner`, `Planner_proofs` |
| `Chunking` | `chunk_markdown`, one sentence or heading a step | `MCAlgorithms`, `Retrieval_proofs` |
| `Retrieval` | what searches and listings answer for a content of the database | `DocumentAccess` |
| `DocumentAccess` | requests and planner tools that read, beside ingestions and grants | `MCDocumentAccess`, `Retrieval_proofs` |

`ModelRouter` and `ModelSetup` are composed in `MCModelRouter`: routes, limits and `Capable`
are computed from a settings record and a catalog, and the assumption `StartsUsable` checks, for
two hundred settings records, that a process that starts is `Usable`: it can serve its routes,
mocks nothing in production, and accepts plans exactly where the status endpoint reports the
provider as configured. `StartedIsUsable` proves it for all of them.

### CircuitBreaker and ModelRouter

A breaker is a record: the ages of the failures in the window, the time since it opened,
the probe flag. The code stores clock readings but only ever compares differences with the
window and with `open_seconds`; the model stores the differences, advanced by `Tick`, and
stops counting the time since opening at `OpenTicks`.

A caller is one job slot (`Callers`, arq's `max_jobs`). Its `pc` follows `_execute`:
`select` (the loop body), `await_provider` and `await_model` (`_Slot.__aenter__`),
`calling` (the answer is outstanding), `backoff` (`RetryPolicy.run` sleeps). `Succeed` and
`GiveUp` contain everything the code does without awaiting: release of both slots, the
report to the breaker, the trace, fallback or raise. `Abort` is cancellation (the worker's
`job_timeout`) or an exception that is no `ProviderError`: the slots go back and nothing else
happens. `verdicts`, `traced` and `probing` are history variables, read by no guard.

### ModelCall

One layer down, and separate because the router sees only categories of error. A request is
looked up if it is cacheable, sent exchange by exchange (the batches of an embedding, the
repair of a structured reply), and its value is stored. A reply text is what the parsers can tell of it:
`bare` JSON, JSON that is `wrapped` in prose or a fence, a `misfit`; any reply that may carry
tool calls (generated, structured, tool_call) may also carry `broken` ones, which is an error whatever
its text. A provider without credentials, and the adapter for an operation that the model's catalog
entry lacks, refuse before any exchange (`Refuse`). `ExchangeError` is the adapter's mapping of timeouts, HTTP codes and unreadable
bodies; a body whose key is there but whose items are `misshapen` raises an exception of another kind. The mock plays its
script of failures first. The cache backend may fail at any look-up or store, entries expire,
and a caller may be cancelled at any await.

### VersionLifecycle and WorkflowVersions

A session (`txn`) is idle, has loaded a version (a copy of its row), or has read the next
version number. Its writing step is the flush and the commit together. SQLAlchemy updates
only the columns whose value changed since loading; `Merge` does the same. `InsertVersion`
is possible only while the number is free (`UNIQUE (workflow_id, version_number)`);
`Rollback` is every other ending, including a crash. `Redeploy` changes the tool registry and
ends all sessions. A definition is a model value; constants say which ones warn and which
registry accepts them.

The repository takes no lock between reading and writing. What keeps two requests apart is
elsewhere: only the owner can reach a workflow, and `get_current_user` begins every request
with `INSERT ... ON CONFLICT DO UPDATE` of the caller's `users` row in the request's own
transaction, so PostgreSQL makes the owner's requests wait for each other until the commit
(`OwnerFree`). Planner jobs only read that row and run beside them; they only append. The mutant
`OwnerUnlocked` shows what the lock prevents: a PATCH that undoes a concurrent approval.

The status `archived` is declared by the schema but no code sets it, so it is left out.

### EventStream and RunLog

One workflow version and one idempotency key. `creator` follows `create`: look, then insert
under the unique index; while the version is not approved it is refused (`Refuse`) and may ask again. A session (`txn`) holds the run object it loaded, the columns it
changed and the events it appended; `transition` checks the object in memory, its flush
locks the row, `append_event` locks it with `SELECT ... FOR UPDATE` and numbers the event
from what it then sees. `Commit` publishes, `Rollback` discards; both unlock. A follower
polls `list_events` with the last number it has. `StreamOf` maps the table and the delivered
events to `EventStream`'s sequences: a commit is `Publish`, a poll is `Receive`, all else
stutters. `MaxEvents` bounds appends.

### Ingestion

One project. A job's record follows `ingest_dataset`: the rows loaded at the start
(`existing`), the document it is at (`next`), the headings so far (`heads`), what it has written
and deleted without committing, the rules it has read and the chunks it will cite. Per document
it passes over, skips (the hash is the loaded one), or puts the object (`Put`) and then
replaces the chunks (`Replace`); these are separate steps because the object is visible at
once and the rows at `Commit`. `Rollback` is every failure and every crash. A second job waits for a
row another has updated, and an INSERT of a row that another inserted meanwhile fails. The
content hash is the content itself; a content is known by the headings of its chunks.
`_heading_map_for` reads chunks without an order, so a heading that occurs twice may lead to
any of its chunks (`HeadingMapsFor`). `SoloJobIngests` therefore asks for the first chunk under a
heading of the documents a job wrote, and for one under it of those it skipped.

### WorkflowGraph, WorkflowRules, ProposalCompiler, Planner

`WorkflowGraph` runs the three loops over one definition: Kahn's count, the walk up to the
ancestors of one step, the walk down from the roots. The code takes nodes from lists whose
order hangs on hashing; the model takes any node. `WorkflowRules` states the two layers of rules by
type of step (outputs, allowed tools, references, approval points); where the code runs a
loop that `WorkflowGraph` proves right, it uses the result: the ancestors of a step are the
least closed set that holds its predecessors, which is what the walk up returns.

`ProposalCompiler` is the enforcer, rule by rule: registered tools only, common fields over
stray ones, a review inserted before `finish` if the proposal has none, approval points recomputed,
parse, validate. The ids the inserted review may take (`review`, then `review_2`, ...)
are the sequence `ReviewNames`, of which the first free one is taken. `Planner` wraps it in the job: the session may become `broken` by a failed
probe (the tools share it), after which the next query raises. Each statement may
raise: those of `Begin`, the model, the INSERT of the draft, whose version number may be taken, and the commit.
`Cancel` is the timeout at any await. A commit that raises or is cut off
may or may not have reached the database (`CommitsIfCutOff`). Of a complete job, `ReportsMatchDrafts` asks
that what is reported is what is stored, but for what deaths left; of a failed one a client cannot tell, and what
its commit left must be a finished plan worth storing. `WorkerDies` puts the job back into the queue with only
its commits left. `JobStatus` is what `GET /jobs/{id}` makes of the result.

### Chunking, Retrieval, DocumentAccess

`Chunking` reads a text as headings and sentences. Items carry the number of body tokens up to
their end, so that a chunk's count is a difference, as the code's slices are.

`Retrieval` gives each statement's answer for a database: the ranked rows (ties in any
order), three times the limit, deduplicated to the newest copy, cut, judged against the floor
of the stage, checked for conflicts. The rank is a table `Score`, as the full-text search is
PostgreSQL's. `DocumentAccess` puts these statements into requests and planner jobs, each statement in the
snapshot of its own moment, between ingestions and a grant. A request holds the users row from its
upsert to its end; an error rolls the upsert back. A session keeps the status of what it shows and not
the answer itself: whether answers are right is a matter of the content they are computed from, and the properties
quantify over every question on it. `Room` bounds what is under way at once by `MaxBusy`.

An ingestion is two steps here, the detail being `Ingestion`'s: it loads the rows of its data set
(`StartIngest`) and commits what it makes of them (`CommitIngest`). `Written` is `_ingest_document`: a document
whose text is that of the loaded row is skipped, whatever else is new about it; otherwise the
columns that differ from the loaded row are written into the row there is now. Two ingestions that
overlap can therefore leave the columns of one edition beside those of another; `Mixes` are the rows
whose columns, and chunks as a whole, are each those of some edition of the document, `Databases` the contents
made of them, and the properties of answers hold for all such contents. One name stands for the two keys of a document,
its `external_id` in searches and tools and its UUID in the routes, which are unique both.

## 3. Runs

| Run | Instance | Shows |
|---|---|---|
| `router` | 2 callers, 3 models, roles with a full route, an incapable fallback and disabled; 2 attempts, threshold 2, 1 slot per model | `TypeOK`, `SlotsConserved`, `BreakerConsistent`, `OutcomeExplained`; under fairness `EveryCallEnds` |
| `router_failed_probe` | the same, threshold 1 | violation: `FailedProbeReopens` |
| `model_call` | 2 callers, real, scripted or no provider; 4 requests, one not deterministic and one unsupported; 3 faults, 2 scripts, 2 attempts | `TypeOK`, `CacheSound`, `ResultExplained`; under fairness `EveryCallReturns` |
| `cached_reply` | 1 caller, 1 attempt | violation: `HitGivesValue` |
| `versions` | 2 requests of the owner, 2 planner jobs, 3 versions, 2 definitions, 2 registries | `TypeOK`, `ApprovedImmutable`, `ApprovedChecked`, refinement `KeepsLifecycle` |
| `run_log` | 2 creators, 1 status writer, 2 appenders, page of 1, 3 events | `TypeOK`, `AppendsNeverCollide`, `TimesMatchStatus`, refinement `ImplementsStream` |
| `two_writers` | 2 status writers | violation: `TerminalIsFinal` |
| `ingestion` | 2 jobs, 2 documents, 3 editions of a policy, 4 data sets, 1 rule | `TypeOK`, `ChunksMatchDocument`, `SoloJobIngests` |
| `ingestion_skip` | 1 job | violation: `SkippedIsStored` |
| `algorithms` | 4 steps, every list of up to 3 edges, diamonds and rings; every text of up to 6 items: headings, blank headings, sentences of 1, 2, 4 tokens, cap 3; a behaviour runs one of the two | `TypeOK`, `CycleVerdict`, `AncestorsExact`, `UnreachableIsIsolated`, `ChunksCover`, `ChunkSizes` |
| `planner` | plans of two and three steps under every wiring, and some thirty that are wrong in one way each; 6 repairs, 1 death | `TypeOK`, `DraftEnforced`, `CleanDraftRuns`, `InsertedReviewGuards`, `ReportsMatchDrafts`, `PlanEnds` |
| `document_access` | 2 users, 2 documents with shared clauses, 3 data sets, 1 request, 1 job, 2 ingestions, 1 grant, any two of them at once | `TypeOK`, `SearchBlind`, `NewestCopyShown`, `SurfacesAgree`, `GrantsKept`; under fairness `GrantLands` |

Every passing property has a mutant: a plausible bug in one mapped definition that TLC then
reports under the same configuration.

Bounds. Two callers interfere in every way two tasks can: one holds a model's only slot while the
other waits with a provider slot in hand, one reports late to a breaker the other has opened or is probing;
the proofs cover any number. Threshold 2 with a window of one tick has failures that
count together and failures that expire. Two requests and two planners give every race for a
version number; three versions let the pointer move forward and back. Two appenders and a
writer give every order of lock, number, append and commit; a page of one puts the cursor
between any two events. One status writer is what `TimesMatchStatus` needs; `two_writers` shows
what a second one does.
Two ingestion jobs meet on each row as reader, waiter and writer; the
editions of the policy move the section a rule cites, repeat a heading and drop the section.
Four steps have diamonds, chords and cycles with a tail; three edges leave isolated steps. Six
items hold two sections with an overlap in one, and sentences below, at and above the cap. In
`document_access` every hazard is between two actors, so any two are under way at once (`MaxBusy`); three data
sets change, restrict and date a document, one of them restricts another without changing its text, and
ingestions that overlap leave mixes of their columns. A limit of one makes the database fetch three of four
matches, so that a copy can fall off the end. There is one seed command at a time:
two at once would lose a grant, as both write the whole list. Symmetry is used
only where no liveness is checked. `planner` and `algorithms` end, so deadlock is
not checked there.

Fairness. A task that is ready runs (the event loop): weak fairness of the steps of the router's
selection, of `Work` in `ModelCall`, of `Advance` in `Planner` and of requests. An attempt is
answered, because every request has `model_request_timeout_seconds`, and a sleep returns: weak
fairness. `asyncio.Semaphore` serves waiters in order, and PostgreSQL grants a row lock to its
waiters in order: strong fairness of the two acquisitions in the router and of `GrantWrite`. New calls, cancellation,
deaths and the passing of time are not fair. No liveness property relies on a timeout.

## 4. What the violations say

* `FailedProbeReopens`. The docstring of `CircuitBreaker` promises that "a failed probe
  re-opens it immediately". The router reports only rate limits, outages and timeouts; a
  probe that fails with a credentials or request error reports nothing, its flag stays, and
  `allow()` answers no from then on. Cancelling a probe leaves the same state.
* `SkippedIsStored`. A job puts the new text of a document and then fails or dies. The row
  keeps the old hash, so the next job with the old data set skips the document and leaves the
  new text in the store, where the module's docstring says that what is skipped is what is
  stored. A job with the new data set repairs it.
* `HitGivesValue`. The cache's docstring promises that callers cannot tell whether a response
  came from cache. A structured reply in a code fence or in prose is parsed on a miss, because the parser
  strips both, and stored as it came; on a hit the stored text is validated directly and
  raises an exception that is no `ProviderError`, until the entry expires.
* `TerminalIsFinal`. `DATABASE_SPEC.md` says that completed, failed and cancelled are terminal.
  `transition` checks the status its session loaded, takes no lock and puts no condition into
  the UPDATE: of two sessions that loaded a running run, the second writes over the terminal status
  of the first. No route writes a status yet, but `API_SPEC.md` plans pause, resume and cancel beside the
  runner.

Smaller disagreements and oddities met on the way. A document whose text is unchanged is skipped before
anything else about it is compared, so a data set that only changes its group, date or metadata is
never applied. Ingestions that overlap mix the columns of two editions, so `EditionsWhole` holds
for one at a time. The warning for a heading that occurs twice says that only the first chunk with each heading is
resolvable; if the document is skipped, its headings are read back without an order
(`pipeline.py:101-108`), and a rule may be made to cite a later chunk, which `SoloJobIngests` allows.
`API_SPEC.md` says that a caller only ever sees documents and chunks of their own groups. `get_for_owner` filters the row,
and its chunks follow by a second statement (`documents.py:80`): if an ingestion restricts the document in
between, the chunks of the restricted edition are shown under the old row. The model takes the two
statements apart (`ReadRow`, `ReadChunks`), but no property claims more than the code gives. A planning job whose commit raises after it has taken effect is reported as failed,
with its draft stored. The docstring of `retrieval/chunking.py` says that no chunk
exceeds the cap; `ChunkSizes` states what holds: a chunk above it is one sentence, or an overlap
sentence and its successor. The planner inserts a review only into plans that have none, so a
plan with a review on a side branch keeps an unguarded `finish`, although ADR-028 wants "supervision before
finish" independent of the model; what holds is that a stored draft has a review (`DraftEnforced`) and
that an inserted one guards. In a plan with an isolated `finish` the inserted review gives it
an edge, and the error that would have asked for a repair is gone; `InsertedReviewGuards` therefore
speaks of errors that are added, not of those that go.

## 5. Proofs

Every invariant and every safety property of the passing runs is also a theorem. The theorems hold
for all constants that satisfy the modules' assumptions: any number of callers, models, requests,
planner jobs, appenders, steps, documents, texts, any limits, routes, scores and proposals. Where
a theorem needs more, it says so: `OneWriter` (one status writer), `OneSeed` (one seed command
at a time) and `OneIngester` (one ingestion at a time), for the reasons given in sections 3 and 4. The liveness properties are model-checked
only.

`ModelRouter_proofs`. `TypeCorrect`: `TypeOK` is inductive; it records that a caller beyond
`select` has a candidate and that a caller in back-off has attempts left. `BreakersSound`: `Sound`
is kept by each breaker operator (`BreakerStaysSound`) and a step changes a breaker only through
them. `SlotConservation`: every step moves one caller into a set of holders and takes one slot, or
the reverse; `CountChange` and `Balance` turn this into arithmetic on cardinalities, which is why
`Callers` is finite. `OutcomesExplained`: the inductive invariant `AllAccounted` relates, at every
point of the loop, the fates of the candidates so far to `lastError`, the outcome and the trace;
`OutcomeExplained` is what it says of a call that has ended. `StartedIsUsable` is about
`ModelSetup` and has no steps: no problem of any role means that every candidate satisfies the
role.

`ModelCall_proofs`. `CallInvariant` is `Shapes` (the fields of a call agree with where it is),
`CacheSound` and `CallsConsistent` (what a call remembers explains the result it is about to get).
`TypeCorrect`, `CacheStaysSound` and `ResultsExplained` follow. The assumption `CallAssumption`
says that requests with the same key agree on being deterministic, as the key is a digest of the
request, and bounds batches, kinds of fault and scripts to what the code distinguishes.

`WorkflowVersions_proofs`. `FreshAlways` is the inductive invariant: `OneEditing`, at most one of
the owner's requests is under way (the users row), and `SnapshotsFresh`, what a session has loaded
is still what is stored. Planner jobs only append, which disturbs no copy. With fresh copies
`Merge` writes exactly the new row (`MergeFresh`), and each step is an abstract operation or a
stutter (`StepRefines`); the refinement mapping is the identity on `versions`, `current` and
`valid`. `ImplementsLifecycle` and `ApprovedNeverChanges` follow, for any number of requests and
jobs. `ApprovedAreChecked` is proved on the abstract side: `VersionSteps` lists what one version
may become in a step of the lifecycle, and `WarningsOwn` says that a validated version carries the
warnings of its own definition.

`RunLog_proofs`. The inductive invariant is `TypeOK` with `LogInv`: the log is numbered `1..n`;
one session at most, the one that holds the lock, has pending events, numbered from `n + 1`; what
was delivered is the log up to the cursor. From it `EventsGapFree`, `AppendsCollisionFree` and
`FollowerComplete` follow, and with them `StreamImplemented`: the two sequences exist
(`StreamsOfLog`), a commit extends the one (`GrowthPublishes`) and a poll the other by at most a
page (`PollReceives`). `TimesSound` assumes `OneWriter` and uses `RowInv`: only
the writer changes columns, and its object is the row wherever it has not changed it.

`Ingestion_proofs`. `TypeCorrect` carries that a job which has put an object is at a document of
its data set, and has written only documents it has passed (`Sane`). `ChunksMatch` needs two more:
`OneWriter`, no two jobs have written one document (the row locks), and `DeletedAll`, what a job
has deleted are all the chunks the document has. `SoloIngestion` adds `SoloInv`, about a job that
no other has overlapped: no other is under way, so the rows are as it read them; each document it
has passed is stored or written as the data set has it; its heading maps find every section
(`FirstChunksFind`, which finds the first chunk, for a document it wrote, and `HeadingMapsFind`,
which finds some chunk, for the rows in any order); and it cites what it resolved.

`WorkflowGraph_proofs`. One invariant for the three loops. `KahnInv`: a counter is the number of
edges from steps not popped, repeated ones included, the queue holds the unpopped steps at zero,
and no member of a knot (a set whose members all have a predecessor in it) is ever popped; when
the queue is empty the unpopped steps are themselves a knot, so that the final count tells cycles
from none. `WalkUpInv`: what is marked or pending lies in every closed set, and the predecessors
of what is marked are marked or pending; so the result is the least closed set. `WalkDownInv` does
the same forwards; that an accepted definition has every step with an edge below a root follows by
taking what the walk missed as a knot. Cycles and closure are stated by sets, as induction over
paths is out of the prover's reach.

`Planner_proofs`. The machine's invariant `PlanInv` is `PlanShape` (fields agree with the place in
the graph), `Compilation` (what is compiled comes from a proposal of the model, with the problems
it has) and `Bookkeeping` (drafts, result and what the client was told agree through repair,
raising statements, cancellation and death). From it `TypeCorrect` and `ReportsAgree` follow for any model output.
`DraftsEnforced`, `CleanDraftsRun` and `InsertedReviewsGuard` rest on lemmas about the enforcer's
operators for plans of any size and wiring. For the inserted review: every edge into `finish` is
bent to it; a set is closed under predecessors in the new plan exactly if it is, without the
review, in the old one; so the ancestors of the model's own steps are kept, and with them what
their references may name. `PlannerAssumption` says that proposals have the shape of the output
schema and that one of `ReviewNames` is free, as the code's counter goes on until one is. The
proof attempt found that an earlier form of `InsertedReviewGuards` was false: where a step refers
to a step that does not exist by the name the review then takes, `reference_not_ancestor` can give
way to `reference_unknown_field`. The property allows an error in the place of one, for that
reason.

`Retrieval_proofs`, in two parts. Of `Chunking`, `ChunksCoverAlways` and `ChunkSizesAlways` speak
of finished chunks; the invariant adds the open one: it lies in one section, `total` counts its
tokens, at most two sentences if it exceeds the cap, it goes on from the last finished chunk
(`LinkInv`), and every sentence read is in a chunk or in the open one (`CoverInv`).

Of `DocumentAccess`, what a search answers is proved first, for every content in the sense of
`Databases` and without the machine: `AllBlind`, because `Matches`, `Facts` and the look-ups filter
before anything else happens; `AllCurrent`, because copies with one rank come newest first, the cut
after them keeps a beginning, and deduplication (`NewestFacts`, `NthPosition`, `DedupedFacts`) shows
the newest of a text; `AllAgreeing`, by comparing the five filters. The machine then only has to
keep a content, which `AccessInv` says, with the shapes of sessions, grants and ingestions; the step
that matters is `CommitIngest`, where `WrittenFacts` goes through the columns. `TypeCorrect`,
`SearchesBlind`, `NewestCopiesShown` and `SurfacesAlwaysAgree` follow, for any number of overlapping
ingestions. `EditionsStayWhole` assumes `OneIngester`: then the rows are as the ingestion loaded
them (`LoadedFresh`), and setting the columns that differ makes the new edition (`WrittenWhole`); it is the
one property that no run checks, as `document_access` has ingestions that overlap.
`GrantsAreKept` assumes `OneSeed`: then a grant writes back what is stored and one group more
(`GrantsFresh`). `AccessAssumption` says of the constants what the schema does: a document belongs
to one project, a rule to that of the document it cites, a limit is at least 1.

Only model-checked: the liveness properties `EveryCallEnds`, `EveryCallReturns`, `PlanEnds` and
`GrantLands`, as fairness and ENABLED are out of the prover's reach, and the four violations of
section 4. What a recursive definition would compute for every input could not be proved either;
the modules with theorems use recursive functions, least sets or the machine's own loop instead.

## 6. Not modelled

* Step runs (`create_step_run`, `finish_step_run`): single writes without a caller besides
  tests, as there is no runner yet. Once it exists it belongs to `RunLog`, with the second status writer.
* Readiness (`core/health.py`): one gather of four probes with a timeout each; it keeps no state and
  nothing follows from its answer. The worker's heartbeat and ping are the same kind.
* Prompt texts, error bodies, middleware, logging, the catalog and project listings, paging
  offsets: formatting, or one statement each. The `last_errors` table is read by the status
  page only.
* The smoke test of the provider, the fixture retriever, the reranker and the embedder: commands
  and test doubles, or wrappers that only forward to the router.
* `archived`, descriptive columns, `chunk_count` and the warnings of an ingestion report: read
  by no code that decides on them.
* Two seed commands at once: a tool of a single operator; section 3 says what would happen.
* The synthetic data generator, the frontend and the migrations: deterministic data, a UI, and DDL
  that the models module restates.

What could come next: the runner with its step runs, and with it the second status writer, when the
code has one; the seed command as a transaction that locks the row it reads, should the loss of a
grant described above be repaired.
