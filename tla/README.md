# Formal model of the document drafting service

This directory is the verification project for the service in `src/`: a FastAPI
process and one or more worker processes that share a Postgres database.  Documents
are uploaded, read by OCR, cut into blocks and chunks, embedded and made searchable;
drafts are generated from them; operators edit both, and the system learns from the
edits.  All coordination between the processes goes through tables, above all the job
table, and that is what is modelled: what the statements of concurrent handlers, HTTP
operations, sweeps, crashes and time can do to each other.

Everything here can be checked with `tlc -config X.cfg M` and `tlapm M.tla`.

## The system

| Component | State | Operations | Hard behaviour |
|---|---|---|---|
| Job queue (`jobs/queue.py`) | `jobs.jobs`, `jobs.job_history` | enqueue, claim_one, heartbeat, complete, fail, cancel, request_cancel_for_document / _draft, reclaim_stuck | competing claims; late outcomes; leases |
| Worker (`jobs/worker.py`) | tasks and semaphores of one process | poll, run a handler, heartbeat, crash, shutdown | tasks outlive their rows; jobs wait for a slot without a heartbeat |
| Reconciler (`jobs/reconciler.py`) | none | reclaim_stuck_jobs, find_partial_documents, reconcile_unembedded_edits | re-queues what looks dead |
| Ingestion (`ingest/service.py`, `ingest/layout.py`, `jobs/handlers/`) | `documents.status`, pages, spans, blocks, chunks | upload, retry, force, reextract_page, delete; ocr, layout, chunking, embedding | status claims between commits; operators' calls against live handlers; partial progress |
| Re-extraction sessions (`ingest/reextract_session.py`) | session rows, proposed spans | start, run, accept, reject | a long job beside the pipeline; accepting against it |
| Block edits (`ingest/block_edits.py`, `jobs/handlers/reembed_chunks.py`) | block and chunk texts, vectors, verdicts on citations | edit, re-embed | an edit under a slow call that has read the older text |
| Events (`ingest/events.py`, `api/sse.py`) | `document_events`, cursors of streams | emit, replay, stream, reconnect | order of commits, lost connections |
| Chunker (`ingest/chunker.py`) | none | cut blocks into chunks | off-by-one at limits, termination |
| Drafts (`draft/engine.py`, `draft/draft_repo.py`, `api/routes/drafts.py`) | drafts, sections, citations | create, generate, regenerate, edit, delete | deletion, edits and other regenerations under a language model's call |
| Few-shot store (`edits/few_shot_store.py`) | vectors of edits | index, sweep | retries beside live tasks |
| Rule extractor, templates (`edits/rule_extractor.py`, `draft/templates/registry.py`) | template versions, last run, caches | run, append_rules, sync | two processes, a lock released before the commit, a cache filled before it |
| LLM router (`llm/`) | budget ledger, cache, log | generate, prime | reservations of concurrent calls; fallback; restart |
| Retrieval (`retrieval/`) | none | three searches, rank fusion, reranking | – |
| OCR of a page (`ingest/ocr/`) | slots of the vision model per document | route a page, claim and return a slot | slots held over a paid call, by tasks that overlap or die |
| Providers, models, UI, evaluation | – | – | I/O and third-party models |

Interactions: HTTP operations write rows and enqueue jobs in one transaction; a worker
claims jobs one at a time, spawns a task for each, and the task waits for a semaphore of
its kind.  A handler commits in the middle (status claims, pages, batches), then enqueues
the next stage; the worker completes the job and commits both together.  The reconciler
takes running jobs whose heartbeat is older than 120 s back to pending, and enqueues the
missing stage of a document on which no job is open.  In memory there are only the
semaphores, the template cache and the budget ledger, per process.

What would make the components correct, in one line each (the code gives less in places; see Runs and the
supplementary configurations): a job is run by one task at a time
and finished once (queue); every job is finished in spite of crashes (worker,
reconciler); a document is worked on by one handler, reaches `ready` or `failed`, and is
`ready` only when all of its text can be searched, once (ingestion); a session's text
replaces the page's or nothing does, and a decision is final (sessions); no chunk stays
without a vector and no verdict outlives the text it is about (edits); every browser is
told every event, in order (events); no text is lost between blocks and chunks (chunker);
a draft ends in one state, with one set of sections and with citations of its own text
(drafts); rules are learnt once and not overwritten, and no edit is skipped (learning);
the ledger balances and the budget holds (router); no page is read by the vision model
without a slot, and no document has more slots than its cap (OCR).

## Modules

| Module | Models | Code |
|---|---|---|
| `JobTable` | rows of `jobs.jobs` and every statement of the queue, as operators on a row or on the table | `jobs/queue.py`, `db/models/job.py`, migration 0001 |
| `JobQueue` | the queue under services, workers, faults, time and the reconciler's first half | `jobs/queue.py`, `jobs/worker.py`, `jobs/reconciler.py` |
| `JobTableProofs` | lemmas about the statements of `JobTable` | |
| `JobQueueProofs` | theorems about `JobQueue` | |
| `IngestStateMachine` | abstract: what the README's list of states promises to readers | README.md:186-200 |
| `DocumentPipeline` | one document: HTTP operations, the four stage handlers, the queue they run from, the reconciler; implements `IngestStateMachine` | `ingest/service.py`, `ingest/layout.py`, `jobs/handlers/`, `jobs/worker.py`, `jobs/reconciler.py` |
| `ReextractSessions` | sessions, composed with the whole of `DocumentPipeline` | `ingest/reextract_session.py`, `jobs/handlers/page_reextract.py`, migration 0011 |
| `PipelineProofs` | theorems about `DocumentPipeline` and `ReextractSessions` | |
| `EventFeed` | abstract: one list of events, told to each subscriber in order | |
| `DocumentEvents` | the event log and its streams; implements `EventFeed` | `ingest/events.py`, `api/sse.py`, `api/routes/documents.py` |
| `BlockEdits` | edits of a transcript, re-embedding, verdicts; composed with `JobTable` and `DocumentEvents` | `ingest/block_edits.py`, `jobs/handlers/reembed_chunks.py`, `api/routes/drafts.py` |
| `BlockEditsProofs` | theorems about `BlockEdits`, its event streams among them | |
| `Chunker` | blocks cut into chunks | `ingest/chunker.py` |
| `ChunkerProofs` | theorems about `Chunker` | |
| `Drafts` | one draft, its generation job, regenerations, edits, deletion | `draft/`, `jobs/handlers/draft_generation.py`, `edits/service.py`, `api/routes/drafts.py` |
| `DraftsProofs` | theorems about `Drafts` | |
| `Learning` | few-shot indexing and the rule extractor on one template | `edits/few_shot_store.py`, `edits/rule_extractor.py`, `draft/templates/registry.py`, `jobs/scheduler.py` |
| `LearningProofs` | theorems about `Learning` | |
| `Router` | requests, budget, cache and log of one process | `llm/` |
| `OcrRouting` | the pages of a document in its OCR tasks, the slots of the vision model; composed with the whole of `Router` | `ingest/ocr/routing.py`, `ingest/ocr/vlm_ocr.py`, `ingest/service.py` |
| `OcrRoutingProofs` | theorems about `OcrRouting`: the budget of `Router`, the slots of the vision model | |
| `MC...` | instances for TLC | |

`JobTable` is composed into every machine that has jobs, so its statements are written
once.  The job queue is modelled alone with handlers reduced to their outcome (returns,
raises, is cancelled, its outcome cannot be written); the other machines refine handlers
commit by commit and drop what the queue alone settles (semaphores, history).

### JobTable and JobQueue

A row has kind, owner (the document, draft or edit in the payload), key, status, attempts,
worker, `cancel_requested`, and `fresh`: whether `heartbeat_at` is younger than
`JOB_STALE_TIMEOUT`.  `run_after` back-off is left out: a pending row may be claimed at
any time, and any claimable row may be (rows locked by another poller are skipped by
`SKIP LOCKED`, so no order is guaranteed).  The status `deleted` stands for a row that is
gone, `absent` for an id not used yet, so that late statements that name an id find
nothing.

A task is a coroutine of `_poll_loop`, first `waiting` for its semaphore, then `running`.
`Complete`, `Fail` and `CancelOut` are the three endings of `_handle_job`; they name the
row by id only, as the code does, so a task that has lost its job still writes.
`OutcomeLost` is the write that raises and is swallowed.  `Crash` is `os._exit` or a
kill; `Shutdown` cancels the tasks, which ends draft jobs as cancelled and loses the rest.
`LeaseExpires` is time passing for a row nobody heartbeats; `LeaseLapses` is time passing
for one whose task is alive, waiting for a slot or with heartbeats that fail.

`reclaimed` and `faults` are auxiliary: the first counts how often each job was taken
back, which is what the properties condition on; the second bounds faults for TLC.

### DocumentPipeline and IngestStateMachine

A handler is split where it commits.  What a stage loads (spans, blocks, chunk ids) it
loads in the step of its claim and keeps in `todo`; what it writes from it is a later
step, by when rows may have gone or come.  The OCR loop has two steps a page, the check
of the cancel flag and the page's commit.  An upload is one statement.  `retry_document` and
`reextract_page` check the status (`RetryChecks`, `ReextractChecks`) and then write, by the
document's id and whatever has become of it (`RetryWrites`, `ReextractWrites`), in one transaction that has locked
nothing in between; `overtaken` records that a worker or another request had moved the document on.
`delete_document` commits the flags, polls for up to 5 s, and then deletes or gives
up.  `retry_document`, `reextract_page` and the second half of a deletion delete the rows
of jobs whose tasks still run: those tasks become orphans, which find no row but go on
writing to the document.

A document is a file with pages, possibly without any, a text document, or a text document
of white space only (`form`): the span of the last is blank, layout makes no block of it
(layout.py:530, 627), and it becomes `ready` with nothing to find, as does a file without
pages (layout.py:141-144, `counted` is whether `page_count` is set and not 0).  A page without text
is one that OCR could not read or found nothing on; the engines keep no blank span, and figure blocks,
of which the chunker makes no chunk, come only from layout engines that the requirements do not
install.  Text is reduced to the page it comes from and to the number of copies.  A page has a
count of rows with and without text, since nothing in the schema makes the page number
unique.  Jobs are identified by their dedup key, because every job of the pipeline has
one; the keys are those of the code, so the model has their reuse.

`IngestStateMachine` has three variables, the stage, the set of pages whose text has been read,
and the set of pages retrieval finds.
`DocumentPipeline!FollowsStateMachine` is its specification under the mapping `Stage`, `Readable`,
`Searchable`: stages advance one at a time, text comes in the OCR stage only, a document is published only from the
embedding stage and with exactly the text that was read, which may be none, and nothing is searchable outside `ready`.

### ReextractSessions

A session has its row and its page results.  `Start` and `StartEnqueues` are the two
commits of `start_session`; a crash between them leaves a pending session without a job.
`SessionLoad` reads the session's status, `SessionClaim` sets `running` whatever it has become,
and `SessionLocate`, `SessionPage` and `SessionEnd` are the other commits of
`run_session`, run by a task of the pipeline's own job table.  `AcceptChecks` is
everything `accept_session` reads, `Accept` what it writes in its one transaction: the
spans of the accepted pages are replaced, blocks and chunks and the document's job rows
deleted, the status set to `ocr_done`, the layout job enqueued.  `RejectChecks` and
`RejectWrites` are the SELECT and the UPDATE of `reject_session`, the second by the session's id only.  Requests that accept at the same
time meet in the rows they delete: the second waits for the first and may not see the
spans that the first has inserted (`late`).  Every step of `DocumentPipeline` is a step
here, with the foreign keys' cascades.

### DocumentEvents, EventFeed and BlockEdits

`Emit` numbers an event in a transaction that holds the row lock of the document until
`Commit` or `Rollback`, so numbers become visible in their order; `Poll` is one replay,
`Yield` sends one row and moves the cursor, `Receive` is the browser taking it from the
wire.  `Drop` loses the connection with what is on the wire, and the browser connects
with the last id it has received.  `FollowsFeed` is `EventFeed!Spec` under the mapping
of the committed rows, sorted by number, to the feed.

In `BlockEdits` a text is the number of the last edit, a chunk's text that of its blocks
and a vector the text it was computed from.  An edit is one step since it holds the
document's row from its first statement; a re-embedding task reads its chunks
(`ReembedSelect`) and writes them one batch a step; a validator (`Revalidate`, `Retrieve`)
reads a chunk and `WriteVerdict` writes the verdict after whatever has happened since.

### Drafts

One draft with one section.  A generation goes through `MarkGenerating`, `Retrieve`, the
model's calls and `Finalize`, each a transaction; `GenerationFails`, `CancelSeen`,
`Shutdown`, `Crash` and a lease that is taken back end or repeat it.  `TemplateMissing` is the draft of an
unknown template.  A regeneration reads the chunks, calls the model, deletes the
citations it sees (`ReplaceBegins`) and writes the text and its own (`Replace`); two of
them may overlap.  A saved edit is compared with `ai_output`.  A deletion is four steps:
the request, the two statements of `request_cancel_for_draft`, and the DELETE.  `NewEra`
is the document being processed again, which takes chunks and their citations away.

### Learning

`SaveBegins` takes the timestamp of an edit and `SaveCommits` stores it with its index
job, in one transaction.  An index task reads the edit, embeds it and writes the vector
only where there is none.  A run of the extractor takes the advisory lock and its
timestamp (`Acquire`), queries the edits since the last run, or if there was none those of the last
`RULE_EXTRACTOR_FIRST_RUN_LOOKBACK_DAYS` (`Lookback`, which begins after any of the edits; `horizon` records where), asks the model for rules
(`Analyse`, any rule or none per group), appends them to the latest version its registry
knows (`AppendRules`, `InsertVersion`), writes the state and releases the lock
(`UpsertState`), and commits with the runs of the other templates of its tick (`Commit`);
`AbortRun` rolls all back but the cache.  `Restart` empties the cache and `SyncInsert` is
`sync_to_db`.

### Router

A request looks up the cache, if its caller uses it, then tries provider after provider: `Reserve` or
`Blocked`, the call, and `Respond` with the actual cost, or the estimate if the answer names none (`Amount`), then `PutAndLog`.  `SchemaRetry`
is the second attempt at one provider, `ProviderFails` its errors, `PutFails` an error
after the answer, `Cancelled` and `PutCancelled` a cancellation of the caller at the two awaits that suspend it
(the lock of `replace_reservation` is held across no await, so that none waits for it).
`billed` is what the providers charge, which the code does not see as a whole: an answer of the wrong shape
is charged before `SchemaViolation` is raised (openai.py:80-94), and a call that is given up may be.
`unlogged` are the bills of which the log has no cost, and `escaped` those the budget does not count: of the first of two
attempts on one reservation, and after a restart what no row tells of.  The ledger is the deque of the code: a cost replaces the
last event of the amount that was reserved, whosever it is (`Replaced`).  `LogWritten` is the background
write of the log, `Restart` reads the ledger from the log, `Tick` is time.

### OcrRouting

`OcrRouting` extends `Router`: the requests of the vision model are requests of the
router, beside those of other callers, in the same budget.  A task goes through the pages
of the document.  `InsertPage` opens the page's transaction; `RoutePage` is the way to the
scan that counts, with the type of the page, the confidence of one or two scans and the
sparseness of an image's text as choices; `ClaimVlmPage` takes a slot and commits, the
page's row with it; `AskVision`, `VisionAnswers` and `VisionFails` are the call;
`WritePage` commits text and status.  Each task has rows of its own, since nothing keeps two
rows of a page apart.  `RestartAll` is a crash: requests and tasks are lost, slots are not.
`Retry` deletes the pages of a document whose tasks are over and leaves `vlm_pages_used`.

### Chunker

The state is that of the loops of `chunk_blocks` and `_split_paragraph_with_overlap`.
`first .. next - 1` are the sentences in hand.  `TakeSentence`, `Cut`,
`EmitLongSentence` and `ParagraphEnds` are the branches of the splitter; `ShortParagraph`,
`ShortTable`, `LongTable`, `ShortList`, `LongList`, `Header` and `Skip` the branches of the pass.
A chunk is its block and the range of units it holds, with the section it was given.

## Runs

| Run | Instance | Shows |
|---|---|---|
| `queue` | 2 jobs of 2 kinds (one of a draft), 2 workers, 1 slot a kind, 1 key, 2 attempts, 1 fault; workers symmetric | attempts are bounded by `max_attempts` plus reclaims; tasks of one job overlap only after a reclaim; one ending in the history; finished jobs stay so |
| `queue_live` | 2 jobs of one kind and slot, 1 worker, 1 fault, fair | every job that is not flagged for cancellation is finished or deleted |
| `pipeline_crash` | 2 pages or a text document with or without text, 1 worker, one crash, aborted transaction, re-upload or deletion, fair | refinement of `IngestStateMachine`; an undisturbed document settles |
| `pipeline_disturbed` | 1 page or a text document with or without text, any one HTTP operation or fault | types; one handler in layout or chunking; every chunk of a ready document has its vector, whatever the tasks of the old run still do, unless the operation's check was overtaken |
| `sessions` | 2 pages or a text document with or without text, 1 session, 1 worker, one crash, abort or deletion, rejects, fair | accepting leaves a whole document with the text once and nothing of the old text; the document is processed again; a session is decided, and nothing but a reject that had looked before undoes an acceptance |
| `block_edits` | 2 blocks in 2 overlapping chunks, 1 citation, 2 jobs; budgets: 2 edits; 1 edit with 2 faults; a browser, 3 events and a lost connection; fair | no chunk stays without a vector; verdicts on older texts are stale; refinement of `EventFeed`; every event arrives |
| `drafts` | 1 job of 2 attempts, 2 regenerations, 1 edit form; budgets: faults and deletion; two edits with regenerations; all of them with a re-processed document; an unknown template; fair | one set of sections; the citations of the text that won; an edited draft stays edited; a draft settles; a deleted draft is left alone |
| `learning` | 2 edits, 2 rules, 2 processes; budgets: indexing with 2 faults and a deletion; three overlapping runs with a restart; three runs with an abort; the first run's lookback begins after any edit; fair | rules once; no edit skipped from the lookback on; every edit indexed, unless its job fails beyond its attempts; runs keep each other's rules |
| `router` | up to 3 requests on 3 tiers of 3 providers, budget 2, without OCR: costs from nothing to beyond the estimate; two hours and a restart; an inactive provider and an error of the cache; and 2 OCR tasks with the vision model's tier, cap 2: two pages and a restart with a retry; one task beside another caller; an image; fair | the ledger balances; what providers charge is within the budget, but for what escapes it; calls of the vision model have slots and slots a cap; every request and every task ends |
| `chunker` | every paragraph of up to 6 sentences of 1, 2, 3 or 6 tokens, every document of up to 3 of 12 blocks of all types; limit 5, overlap 2; fair | no text lost; chunks fit; sections; termination where every sentence fits beside an overlap |
| `pipeline_crash_stuck` | 1 page, one crash, fair; violated | a document that stays in a running status |
| `chunker_endless` | as `chunker`; violated | a paragraph on which the splitter goes round for ever |

Bounds.  Two jobs are the least with which a slot is contended and a dedup key is
reused; two workers the least with which a claim, an outcome and a reclaim of one job come
from different processes.  Two attempts make both branches of `fail` happen and a retry
overlap an operation.  One fault is enough for every hazard of the queue except repeated
reclaims, which the proofs cover for any number.  `MaxDisturbances` bounds operations and faults together: it is 1 in
the runs of the pipeline and the sessions, which makes room in their graphs for three kinds of documents and for the steps between a request's
check and its writes; `FollowsStateMachine` and `AcceptedStaysAccepted` are proved for any number of
crashes, aborts and deletions.  Two pages are the least for a partly
read document; they take part where text is compared with pages (`pipeline_crash`,
`sessions`).  `pipeline_disturbed` has one page because two make its graph too large for a
run, and so checks `ReadyIsEmbedded` and not `ReadyIsWhole`: that one would pass, and only
because no second page can be missing (see `MCPipelinePageLost` with one retry; one `force`,
re-extraction or lapsed lease does the same).  With two pages
`OneHandlerInStage` and `ReadyIsEmbedded` were searched for one retry and for one lapsed lease: exhaustively
with one attempt a job, and with two attempts, without a violation, as far as 8.5 and 7.7 million
states (before a retry's check and its writes were two steps of the model).  One HTTP operation can strike at every step of the run it interrupts.  Two blocks in overlapping chunks are the
least with which an edit touches one chunk of another's job; two regenerations, two
processes and two requests of the router the least that overlap (three requests reserve, settle and
fail beside each other).  Six sentences are two cuts with overlaps of each size; the
proofs cover the rest.  Where one instance would be too large, a
constant `Budgets` (or `Worlds`) holds several smaller ones, and a behaviour picks one in
its initial state; each constant is named in its module.  With more operations or more
faults at once some of the pipeline's properties do fail: two overlapping embedding tasks
and a re-upload can make a document `ready` before the new chunks are embedded, because
`embed_chunks` ends with `ready` whatever the status has become (service.py:1036-1049);
the bounds of the passing runs say how far the guarantee goes.  Deadlock is not checked
where work is done and the bounded users and faults are used up.

Some properties are conditional because the code does not give more.
`OneHandlerInStage` and `ReadyIsEmbedded` leave out what follows a request that has written although
its check was out of date (`MCPipelineOvertaken`); the first also leaves out operations on a text document: re-extracting its page
sets `ocr_done` twice, and the layout task of the first is at work when the second lets
another one in.  `SettlesUndisturbed` leaves out what follows a retry or a fault: a
document may then stay `ocr_done` because the reconciler's key is used up.
`AcceptedStaysAccepted` excepts the reject that had looked before the accept (`MCSessionsRejected`), `NothingSkipped` the edits from before the first
run's lookback and those whose transaction is open when a run begins, `EditIsIndexed` the edit whose own job has failed for good,
`SpendCapped` the bills that escape the budget (`MCRouterUnbooked`), `OutdatedIsStale` the verdict that an edit overtook, and `DraftSettles` drafts whose task dies.
`DeletedIsQuiet` excepts one job only: one that was flagged while it ran and then taken back, which no statement claims again.

Fairness.  Polling, the reconcile loop and time go on by themselves, so claims, sweeps
and the expiry of abandoned leases are weakly fair.  A handler's next step is weakly fair
per job: coroutines run to their next await, and external calls have timeouts.  Getting a
slot is strongly fair, because asyncio semaphores serve waiters in order while other
tasks take and release them.  Streams poll every second, and `EventSource` reconnects by
itself.  The event loop of a process goes on as long as some request of the router or some
OCR task can, because providers have a timeout and the engines return; it need not be fair to each,
as each has finitely many steps.  A DELETE request is weakly fair because its statements have a timeout.  The chunker is a loop, its step weakly fair.
Users, faults, late heartbeats and runs of the extractor are never assumed.

### Supplementary configurations

Configurations that are not runs of the project, each for one property that the
code violates (or, where said, for a smaller instance that passes).  One that differs from a file in a line or two is
named by the file and those lines.

| Configuration | Property | What the trace shows |
|---|---|---|
| `MCJobQueueFlagged` | `FlaggedPendingLeaves` | `claim_one` skips a pending job whose `cancel_requested` is set (queue.py:80), and no other statement looks at such a row: it stays pending for ever and counts towards `pending_count`. queue.py:169-170: "pending jobs see the flag at claim time" |
| `MCJobQueueCancelled` | `CancelledIsTerminal` | `fail` and `complete` name the row by id only (queue.py:120, 141): a task whose job was reclaimed and then cancelled by the newer task sets it back to pending. queue.py:246: "Mark a job as cancelled (terminal, non-retryable)." |
| `MCPipelineRetryDuplicates` | `NoDuplicateText` | `retry_document` deletes job rows without stopping their tasks, and `ocr_document` sets `ocr_pending` whatever the status has become (service.py:360): two OCR handlers own the document and both insert a page's spans. service.py:1227-1228 promises "a clean state instead of duplicating rows" |
| `MCPipelinePageLost` | `ReadyIsWhole` | `reextract_page` sets `ocr_done` before the page is read (service.py:1425): a layout task still alive from the failed run claims the document, and it becomes ready without the page |
| `MCPipelinePageLost` with `Operations <- MCOnlyRetry` | `ReadyIsWhole` | one retry and no fault: an OCR task of the old run reads beside the new one; layout loads the spans when one of them is done, then the other adds a page that the first could not read, and the document becomes ready without its text. service.py:1226-1228 |
| `MCPipelineReuploadStuck` | `DocumentSettles` | re-uploading failed content sets `uploaded` and enqueues `ocr:{id}`, whose row still exists; the reconciler helps once, under `reconcile:{id}:ocr`, and never again. README.md:200: "a periodic sweep keeps the pipeline self-healing" |
| `MCPipelineCrashStuck` with `Faults <- MCAbort` | `DocumentSettles` | a statement of a stage fails, and with it the transaction in which the `except` branch would write `failed` (layout.py:155-179): the status stays `layout_running`, as after a crash |
| `MCPipelineOvertaken` | `AllEmbedded` | a retry finds the document `failed` while its job has an attempt left; the attempt takes it on to chunking, the retry then deletes rows under it and starts the document again; the chunking task of the older run adds its chunks after the embedding of the new run has looked for some, and that embedding ends with `ready`. service.py:1259 is the check |
| `MCPipelineCrash` with `Pages <- MCNoPages`, `Formats <- MCPdf` | passes | a file without pages: it becomes `ready`, with nothing to find |
| `MCPipelineReuploadStuck` with `Operations <- MCReextract`, `MaxOperations = 1` | passes | one re-extraction of the page, with `NoDuplicateText` as an invariant as well |
| `MCSessionsOvertaken` | `ReadyIsWhole` | two sessions are read while the document is ready; `accept_session` looks at the session's status only (reextract_session.py:213), so the second is accepted while the text of the first is processed: it wipes blocks and jobs under the embedding task of the first, whose last step sets `ready`, and the document is ready without its text. reextract_session.py:9-11: accepting "drops blocks/chunks for the doc, and enqueues layout → chunking → embedding". `NoDuplicateText` and `ReadyHasNothingElse` fail there as well |
| `MCSessionsTwice` | `NoDuplicateText` | two requests accept one session, as after a double click: both pass the check of the status; the DELETE of the second waits for the first's rows and does not see the spans inserted meanwhile, so a page has its text twice. reextract_session.py:8-9: "overwrites `app.spans` for the accepted pages" |
| `MCSessionsRejected` | `AcceptedIsFinal` | `reject_session` reads the status and then updates by id (reextract_session.py:362-384): an accept that commits in between is overwritten, and a session whose text is in the document is shown as rejected. reextract_session.py:15-16: "just marks the session `rejected`; nothing in `app.spans` is touched" |
| `MCDraftsEdits` | `EditsAreOperators` | `replace_section` changes the final text and not `ai_output`; a form that is opened and saved unchanged after it records the model's own text as an operator's edit. README.md:269: "Each Edit row carries the AI value, the operator value" |
| `MCLearningFirstRun` with `INVARIANT EveryEditCounted` | `EveryEditCounted` | an edit whose transaction began before a run and committed after its query has an older timestamp than the run, and the next run skips it. rule_extractor.py:140-141 |
| `MCLearningFirstRun` | `NothingForgotten` | the first run asks for the edits of the last days only and sets `last_run_at` to now: older edits are read by no run. rule_extractor.py:135-138 |
| `MCLearningRulesAreDurable` | `RulesAreDurable` | the API process starts and `sync_to_db` inserts the template on disk as the latest version: what was learnt is gone. README.md:272: "durable rules" |
| `MCLearningRulesAreDissimilar` | `RulesAreDissimilar` | the similarity gate compares with the version a run has read and with the run's own rules; a run of the other process that has not committed is not among them, and `append_rules` drops identical rules only. README.md:272: "A cosine-similarity gate prevents near-duplicate rules" |
| `MCLearningSweepRetries` | `SweepRetries` | the sweep uses the dedup key of the first job, so an edit whose job has failed is never queued again. README.md:274: "a periodic sweep retries any `Edit` row still un-embedded after one minute" |
| `MCRouterInactive` | `FallsThrough` | `generate` raises if the first provider of the tier is inactive (router.py:87-90). deps.py:37-39: "so the router falls straight through to the next entry in the tier" |
| `MCRouterUnbooked` | `HourlySpendCapped` | an answer of the wrong shape is charged, the second attempt runs on the same reservation, and `replace_reservation` puts in its cost alone (router.py:192-233): the providers charge more than the budget. budget.py:14: "Sliding 1-hour USD budget. Protects against runaway hosted spend." |
| `MCOcrSlotWasted` | `RefusalWastesNoSlot` | the vision provider wraps the router's refusal into an `IngestError` (vlm_ocr.py:126-130), so that the clause that returns the slot is not reached. routing.py:172: "Global hourly cap hit — roll back the per-doc slot so it isn't wasted" |

## Proofs

`JobQueueProofs` proves, for any finite or infinite sets of jobs, workers, kinds and
keys, any budgets, slots and number of faults, the type invariant, `AttemptsWithinBudget`,
`OverlapNeedsReclaim`, `HistoryHasOneEnding` and `FinishedStaysFinished`.

None of them is inductive alone: whether a late `complete` can change a finished row
depends on which tasks are alive.  The inductive invariant is `TypeOK` with
`ClaimDiscipline`: a task is named by its job and the attempt it is (`TasksNamed`); as
long as a job has not been reclaimed, a live task is the row's latest claim and the row
is still running for that task's worker, or deleted (`TaskHoldsJob`); a pending row has
budget left (`PendingHasBudget`); an open job has no ending (`OpenHasNoEnding`).  The
proof has a lemma per statement on a row (`RowStatements`, in `JobTableProofs`), one for the steps that change
rows and no tasks (`RowStepIInv`), one for the three outcomes (`OutcomeIInv`), one for
each remaining action, and `NextIInv` puts them together.  The constants are assumed only
to have their types, budgets and slots to be positive.

`ChunkerProofs` proves `TypeOK`, `NothingLost`, `ChunksFit` and `SectionIsLatest` for
every document, of any number of blocks and sentences of any length, and every limit
with `OverlapTokens <= MaxTokens`.  `NothingLost` is inductive with the types.
`ChunksFit` needs `InHandFits`: the sentences in hand fit a chunk, which a cut preserves because
what it keeps is at most an overlap.  `SectionIsLatest` needs `SectionAtHand`: the path at hand
is right for the blocks passed so far.  Positions of sentences are given as cuts in tokens, so that
the tokens of a range are a difference and no sum over a sequence has to be proved about.

`DraftsProofs` proves `TypeOK`, `SectionsOnce`, `CurrentTextIsCited` and `EditedStaysEdited`
for any number of jobs, workers, regenerating requests, forms, saves, eras and faults.
Nothing in the queue keeps two generation tasks of one draft apart once its job was taken
back; the draft's status does.  The strengthening says how (`OneWorks`): at most one task
is past `mark_generating` and not at its end, and only while the draft is generating or
deleted.  So nobody is left to touch a complete draft, and its section has a row exactly
when it is complete (`RowIffComplete`).  `Core` is proved step by step with these; the
types of the rest (`RestTyped`) have a lemma each.

`OcrRoutingProofs` has two parts.  The first proves `LedgerBalanced` and `SpendCapped` of the
router, for any number of requests, tiers, providers, costs, hours, restarts and cancellations.  That the
budget counts each call once is not plain: `replace_reservation` takes the last event of
the amount, which may be the reservation of another request or a cost that is settled.
The invariant `LInv` gives each item that should count (a reservation, a cost, a kept
reservation) an event of its own, its slot (`Matched`), and says that no event after one
of a reservation is older than now.  So the event that is taken is as recent as the
caller's, and the two items exchange their slots (`ExchangedMatched`); `_prune` may drop
and keep events, and slots are renumbered (`Reindexed`).  Before a restart the matching is
complete and the events in order, which makes the sums equal; after one there is at least
an event for everything that the log tells of.  What providers charge is compared with that in a second invariant,
`BillInv`: of every bill that has not escaped, an item of the ledger of the same call costs at least as
much (`CoveredInv`), and the log has its cost or will have, unless the bill is one of `unlogged` (`LoggedInv`); so the bills are within the
budget as well.  A wrong answer that is asked for again is the one bill that the ledger has no item for.  `OnceInv` says that a call at work has not been charged,
`CapInv` that the costs of the items are within the budget.  The sums are
`SumFunctionOnSet` of the community modules; what is needed of them (`SumWithOne`,
`SumOfTwo`, `SumWithin`, `SumMatched`) is proved by induction over the subsets of a finite set.

The second part proves `SlotsCoverCalls` for any finite sets of pages and tasks, any
cap, and whatever the router's requests do: every text of the vision model and every call at
work has a slot of its own, over crashes, overlapping tasks and retries.  It is inductive
with the types and `ScanAtHand`: a task that may ask for a slot holds a scan, so that a
refused call never counts as a text of the model.  The sets are counted with the theorems
on finite sets, hence the assumption that pages and tasks are finitely many.

`BlockEditsProofs` proves `OutdatedIsStale` for any blocks, chunks, citations, jobs and
edits.  It has to follow the text a validator has read (`ReadingsCurrent`) as well as the
text a verdict was given for (`VerdictsCurrent`): each is that of the chunk or was
overtaken, and a validator's commit turns the first into the second.  It also proves
`TypeOK` and that the event streams implement the abstract feed, `FollowsFeed`, for any
writers, clients, page size, lost notifications and connections.  Its invariant, `EventsInvariant`,
says that the committed events of a document are numbered from 1
without a gap, because the numbers are given under the row lock; that the event in a
transaction has the next one; and that what a stream has told, what is on the wire and
what is at hand are consecutive parts of that log.  `BySeqNumbered` is the lemma that the ORDER BY
of such a set is the sequence of its numbers.  Each step of a stream is then a step of
`EventFeed` or a stutter (`StreamStepsFeed`).

`PipelineProofs` proves, for any sets of pages, workers and sessions, any attempts, and any
number of operations and faults:

- `TypeOK` of the pipeline, whatever operations are called and whatever fails.  Of note in it is
  that chunking always finds a number for its run, and that each key the reconciler or an
  operation enqueues is one of the document's.
- `OneHandlerInStage`, `ReadyIsWhole`, with it `ReadyIsEmbedded`, and the refinement `FollowsStateMachine`, in a world
  (`OneAtATime`) where workers die, statements fail, users upload again and delete, but no
  handler outlives its lease and nobody sends the document back.  Without the proviso the code
  breaks `ReadyIsWhole` and `FollowsStateMachine` (see `MCPipelinePageLost`, with a re-extraction or a retry), so this is
  how far they can be proved.  The queue does not keep handlers apart: a failed job stays beside a reconciler's,
  under another key.  What does is that each job is the only open one when it is enqueued, a
  handler enqueues the next stage in the transaction that completes its own job, and the
  reconciler looks for open jobs before it helps.  The invariant `OneInv` says so: at most one
  job is open and at most one task works, on that job; the status is one that the kind of the open job
  can meet (`Fits`), and the rows of pages, blocks and chunks hold what that status
  promises (`TextWhole`) and what the point of the handler relies on (`AtPoint`: for
  example, that the chunks without a vector are among those the embedding task has yet to do).
  After a deletion none of it holds and none is needed (`DocExists`).
  The refinement then needs only how the status can move in a step (`Moves`), that text comes in the OCR
  stage alone, and from `OneInv` that a document becomes ready with the text of its pages in chunks, each with its vector.
- `AcceptedStaysAccepted`, for sessions beside every operation of the pipeline, rejects that look and write in two steps, and all faults but
  a lapsed lease.  The last commit of `run_session` sets `ready` or `failed` whatever the status is by
  then: a run that outlived its session's decision would undo it.  The invariant
  `SessionInv` says why none does: the job of a session is run by one task, which holds its row or has
  lost it for good, because the key is the session's own and is enqueued once (`OneRun`);
  while that task reads, the session is running, rejected or gone and nobody accepts it;
  a request that accepts has found it ready, so its run is over and a later attempt only
  skips (`SessionFits`).
- `NoDuplicateText`, `ReadyHasNothingElse` and `ReadyIsWhole` of the sessions, for any number of
  crashes, failed statements, deletions and rejected sessions, on three conditions.
  `OneAcceptAtATime`: one accepting request at a time, no retry, re-upload or
  re-extraction, which read the pages again, and no lapsed lease, after which a run could undo an
  accept.  `AcceptedOnce`: of the document's sessions at most one has been accepted, as
  is always so with the one session of the run.  `AcceptedIsFinal`: no reject overwrites an accept, after which
  `AcceptedOnce` would no longer count it.  The first two are needed: `MCSessionsTwice` breaks
  the three properties with two requests at once, and `MCSessionsOvertaken` with two sessions.
  The invariant is `TextInv`.  Here, unlike in the pipeline alone, several jobs may be
  open for one stage, since the accept enqueues and the reconciler may help; what keeps the
  stages apart is the status alone, of which each claim takes the value that the stage before
  it wrote (`StatusHolds`, `OneWorks`).  What a stage has loaded is still what the
  rows hold when it writes (`Works`), because nobody reads the pages: no OCR job opens
  (`Shut("ocr")`).  Before the accept the document is ready and no stage is open.  From the accept on,
  chunks are the text of the pages, once (`ChunksMatch`), as soon as the status says that
  they are there.

`LearningProofs` proves `TypeOK`, `RulesOnce`, `NothingSkipped` and `RunsKeepRules` for
any edits, processes, jobs, rules and similarity, and any number of runs, rollbacks and
restarts.  The invariant `IInv` has the timestamps (`TimeInv`: all are of the past, and none
of an edit is that of a run), the advisory lock (`LockInv`: a run has it from taking it to
giving it back; of a run that has yet to commit and one that reads, the first is the
older), and what was read (`ReadInv`: an edit that is older than a run, from after the first run's
lookback, and was stored in time, was read by it or before).  `RulesOnce` needs that no list of rules has one twice,
wherever it is kept: in a run, in a row, in a cache (`OnceInv`).  `RunsKeepRules` needs
that at most one version is inserted and not committed (`VersionInv`) and that a cache
agrees with the table but for that version, and a row extends the version before it
(`CacheInv`).  The last holds only while no run was rolled back, because `append_rules`
fills the cache before the commit: that is the condition the property states.

The assumptions on constants are named in the modules and evaluated by TLC in every
run; nothing else is assumed.  For the sake of the proofs, sorted rows (`BySeq`), the rules
that are appended (`Deduped`) and the sums of the budget are defined by what they are
instead of by a loop over a sequence, and `EditTypesAssumption` and `FieldsAssumption` name
what the models had assumed of their constants.  The provers cannot instantiate the induction theorems of the library,
which take an operator; `SetInduction` is their form for a set, from `WFMin`.

Left to TLC: liveness under fairness (`JobsSettle`, `SettlesUndisturbed`,
`SessionSettles`, `UnembeddedIsEmbedded`, `WorkEnds` and the like) and the termination of
the chunker, which the prover cannot do.  Every safety property of a run is proved; where an
operation sends the document back, a lease lapses or a second session is accepted, those of the pipeline
hold within the bounds of `pipeline_disturbed` only (see Runs for how more disturbances break them).
No module has a RECURSIVE operator.

## What the code does and its texts do not say

The two violated runs and the supplementary configurations show their part; `PROJECT.json` quotes the lines.
Found while modelling besides:

- `reclaim_stuck` (queue.py:265) does not look at `max_attempts`: a job whose worker dies
  every time is started without bound, although reembed_chunks.py:65 speaks of a "bounded
  budget".  `AttemptsWithinBudget` is the bound that does hold.
- `_poll_loop` claims ahead of the semaphores, and the heartbeat loop starts inside `async
  with sem` (worker.py:86): a job that waits more than 120 s for a slot is taken back from
  a live worker.  `LeaseLapses` has this case.
- `app.pages` has no unique constraint on the page number, so `ON CONFLICT DO NOTHING`
  (service.py:675) never conflicts: pages that are read again, by a job's second attempt
  or after a re-upload, are there twice.
- A layout run that ends with `EMPTY_OCR_OUTPUT` still enqueues chunking, whose skipped
  and completed row keeps its dedup key.
- `UPDATE app.spans SET block_id` (layout.py:266) names spans by page number and box without
  a filter on the document, so it takes the spans of other documents as well (nothing reads
  the column); two of the layout engines read the file again and ignore the spans that OCR stored.
- worker.py:9-10 lets "already-running handlers finish", but the shutdown cancels them;
  the draft handler records that as cancelled by the user.
- The docstring of `retry_document` gives the dedup key a UUID suffix; the code enqueues
  the plain key, after deleting the row that held it.
- A re-upload between the commit of a deletion and the unlinking of the blob
  (service.py:1187-1190) loses its file; files are not modelled.
- `reject_session` overwrites an accept that commits after it has read the status (`MCSessionsRejected`), and `run_session` a reject that
  comes between its SELECT and its UPDATE to `running`: the session is read all the same and offered again.
- A document without text becomes `ready` and a search never finds it: a blank text document, whose span makes no block, and a file without pages.
- The first run of the rule extractor asks for the last days and then moves `last_run_at` past all
  older edits (`MCLearningFirstRun`).
- A few-shot job that has failed for good keeps its dedup key, so the sweep cannot queue the edit again (`MCLearningSweepRetries`).
- The route that starts a session returns the latest session of the document
  (documents.py:241-247), which may be another operator's.
- A chunk's vector may be that of an older text, when a re-embedding task has read it before the edit
  and writes after the newer task; a validator that is overtaken by an edit writes a
  verdict on the older text over `stale` (`OutdatedIsStale` excepts it as `overtaken`).
- `create_draft` takes any template id (drafts.py:190), and the engine looks it up before it
  marks the draft and outside the `try` (engine.py:83-84): the job fails and the draft
  stays `queued`.  A draft whose `finalize` fails (engine.py:239) or whose worker dies on its
  last attempt stays `generating`.
- The budget is per process, so worker and API may each spend it; `settings.LLM_HOURLY_BUDGET_USD
  or cfg.budget.hourly_usd` (llm/deps.py:124) turns a budget of 0 into the default.  An answer
  of the wrong shape is billed: the first of two attempts is neither counted nor logged (`MCRouterUnbooked`), the last is counted by the estimate and logged with
  cost 0, so a restart forgets it.  An error
  of `cache.put` is taken for one of the provider: the answer is dropped without a row and the next
  provider paid; a cancellation there loses the row as well.  A cost of 0 is counted as the estimate (router.py:192).  The answer of a fallback is cached under the first provider's key.  `prime`
  reads its rows in no order, so `_prune`, which stops at the first young event, may keep old
  ones.
- In `ocr/routing.py` the hourly refusal reaches neither `except BudgetExceededError` (126,
  171).  An extraction that fails keeps its slot, a description gives it back; a retry
  deletes the pages and leaves `vlm_pages_used`, so that a document that was read with the
  vision model may have no slot left for its second run.

## Not modelled

Files on disk, page images, the classification of pages, the engines, the geometry of layout, the
contents of text and vectors, the prompts and parsing of the draft passes, string
matching of citations, rank fusion (read-only, over real numbers), word diffs and edit
metrics, logging, schemas and reads of the API, the UI but for the edit form, the evaluation tools,
calls to models.  Drafts have one section and templates are one; other sections and
templates share only the transaction, which `AbortRun` has.  In the chunker, token
counts are additive (joining texts may differ by rounding), character offsets
are left out, and so are unknown block types, which the code treats as a paragraph of one chunk.

Time is only the expiry of leases, the hours of the budget and the order of timestamps; the reconciler's
periods (60 s, 10 min) are abstracted to its steps.  A worker's claim and the load of the
job are one step, as no other statement can tell them apart.  An upload is one
statement, an upsert whose condition the database checks as it writes.  No hour passes while a call of the router is at work
(`Tick`), so that a reservation is of the hour of its answer; what a call at work at a restart
will cost is not counted.  New jobs take their ids in order (`NextId`), as their UUIDs are unique.  A `failed` page and one that OCR
found blank are the same to the pipeline.

## What could come next

Rank fusion and citation renumbering as pure algorithms against reference definitions;
the liveness properties as proofs, when the prover can do them.
