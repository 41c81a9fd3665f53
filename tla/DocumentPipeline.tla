--------------------------- MODULE DocumentPipeline ---------------------------
(***************************************************************************)
(* The ingestion pipeline of one document: the HTTP operations of           *)
(* app/ingest/service.py, the job handlers ocr, layout, chunking and        *)
(* embedding, the queue they run from and the reconciler.                   *)
(*                                                                          *)
(* A handler is split where it commits: what it writes between two commits  *)
(* is one step, because nobody else sees it earlier.  What a stage reads, it *)
(* reads right after the commit of its claim, in the step of the claim, and  *)
(* writes the results later, when the rows may have changed.  A task is one  *)
(* run of a handler; pc says where it is:                                   *)
(*    start    claimed from the queue, nothing read yet                     *)
(*    pending  about to set ocr_pending                                     *)
(*    locate   about to look for the file and to claim ocr_running          *)
(*    count    has the claim, about to open the file and to set page_count  *)
(*    pages    in the OCR page loop, between pages (todo: the pages left)   *)
(*    page     reading the first of them, past _check_cancel                *)
(*    work     in the layout or chunking stage, past its claim (todo: the    *)
(*             spans or blocks it has loaded)                               *)
(*    batches  in the embedding loop (todo: the chunks selected)            *)
(*    finish   about to enqueue the next stage and to complete the job      *)
(*    retry    raised a retryable error, about to fail the job              *)
(*    giveup   raised an error that is not retryable                        *)
(*                                                                          *)
(* Text is reduced to the page it comes from and to the number of copies of  *)
(* it that pages, blocks and chunks hold.  A .txt, .md or .json upload has    *)
(* one page and no page loop; if it holds white space only, its span is blank *)
(* and layout makes no block of it.  The engines keep no blank span.          *)
(*                                                                          *)
(* Every job of the pipeline has a dedup key, at most one row per key exists, *)
(* and a row whose key is wiped by an HTTP operation can come back: so the   *)
(* key is the row's id here.  A task keeps the key it was started for; if    *)
(* its row was wiped in the meantime it is an orphan, and its id finds no    *)
(* row any more, not even a new one of the same key.  Claims take any        *)
(* claimable job: tasks start in no particular order once they are claimed.  *)
(***************************************************************************)
EXTENDS JobTable, Sequences, FiniteSets, FiniteSetsExt

CONSTANTS
    Doc,          \* the document
    Pages,        \* its page numbers
    Formats,      \* the kinds of file that may be uploaded (Forms)
    MaxPending,   \* open jobs above which an upload is refused
    Operations,   \* the HTTP operations users may call after the upload
    MaxOperations,\* bound on those calls
    Faults,       \* kinds of fault that may happen
    MaxFaults,    \* bound on faults
    MaxDisturbances \* bound on calls and faults together

ASSUME DocAssumption == Doc \in Owners
ASSUME PagesAssumption == Pages \subseteq Nat \ {0} /\ IsFiniteSet(Pages)

\* A file with pages, possibly none, a text document, and one without any text.
Forms == {"paged", "text", "blank"}
ASSUME FormatsAssumption == Formats \subseteq Forms /\ (Pages = {} => Formats \subseteq {"paged"})
ASSUME MaxPendingAssumption == MaxPending \in Nat \ {0}
ASSUME OperationsAssumption ==
    Operations \subseteq {"reupload", "retry", "force", "reextract", "delete"}
ASSUME FaultsAssumption == Faults \subseteq {"crash", "lapse", "abort"}
ASSUME BoundsAssumption ==
    MaxOperations \in Nat /\ MaxFaults \in Nat /\ MaxDisturbances \in Nat

VARIABLES
    status,     \* app.documents.status, "absent" before the upload
    pageRows,   \* app.pages: per page number, rows with spans and without
    blocks,     \* app.blocks: copies of each page's text
    chunks,     \* app.chunks, one element per chunk-stage run and page
    counted,    \* app.documents.page_count is set and not 0
    jobs,       \* jobs.jobs
    tasks,      \* the handlers that are running
    deleting,   \* a DELETE request has set the flags and is polling
    form,       \* what kind of file the upload is
    asking,     \* retry and re-extraction requests past their checks
    overtaken,  \* auxiliary: a request has written though its check was out of date
    operations, \* bound: HTTP operations so far
    faults      \* bound: faults so far

docVars == <<status, pageRows, blocks, chunks, counted>>
setting == <<form, asking, overtaken, operations, faults>>
vars == <<docVars, jobs, tasks, deleting, setting>>

DocStatuses ==
    {"absent", "uploaded", "ocr_pending", "ocr_running", "ocr_done", "layout_running",
     "layout_done", "chunking_running", "chunking_done", "embedding_running", "ready",
     "failed", "deleted"}

PipelineKinds == {"ocr", "layout", "chunking", "embedding"}

\* The dedup keys `{kind}:{doc}', `reconcile:{doc}:{kind}' and
\* `ocr:{doc}:p{page}:{uuid}', which names a page and is new on every call: the
\* call has just deleted the row of the one before.
StageKey(kind) == <<kind, "stage">>
ReconcileKey(kind) == <<kind, "reconcile">>
PageKey(p) == <<"ocr", "page", p>>

DedupKeys ==
    {StageKey(k) : k \in PipelineKinds} \cup {ReconcileKey(k) : k \in PipelineKinds}
    \cup {PageKey(p) : p \in Pages}

ASSUME KindsArePipeline == PipelineKinds \subseteq Kinds
ASSUME KeysAssumption == DedupKeys \subseteq Keys /\ JobIds = Keys

NoRows == [p \in Pages |-> [full |-> 0, empty |-> 0]]
NoBlocks == [p \in Pages |-> 0]

\* Chunks are named by the run of the chunking handler that inserted them.
ChunkIds == [run : Nat, page : Pages]
Chunk == [id : ChunkIds, copies : Nat, embedded : BOOLEAN]

Pcs == {"start", "pending", "locate", "count", "pages", "page", "work", "batches", "finish",
        "retry", "giveup"}

\* retry_document (page 0) and reextract_page, between the check of the status and
\* the writes: a re-extraction has found a row of its page, which a retry may wipe.
Request == [n : Nat, page : Pages \cup {0}, found : BOOLEAN]

\* What layout loads (spans) and chunking loads (blocks), per page.
Loaded == [page : Pages, copies : Nat]

TypeOK ==
    /\ status \in DocStatuses
    /\ pageRows \in [Pages -> [full : Nat, empty : Nat]]
    /\ blocks \in [Pages -> Nat]
    /\ \A c \in chunks : c \in Chunk
    /\ counted \in BOOLEAN
    /\ jobs \in Table
    /\ \A t \in tasks :
          /\ t.job \in JobIds /\ t.n \in Nat /\ t.orphan \in Nat
          /\ t.worker \in Workers /\ t.pc \in Pcs
          /\ \/ t.pc \in {"pages", "page"} /\ t.todo \subseteq Pages
             \/ t.pc = "work" /\ t.todo \subseteq Loaded
             \/ t.pc = "batches" /\ \A c \in t.todo : c \in ChunkIds
             \/ t.todo = {}
    /\ deleting \in BOOLEAN
    /\ form \in Formats
    /\ \A r \in asking : r \in Request
    /\ overtaken \in BOOLEAN
    /\ operations \in 0 .. MaxOperations
    /\ faults \in 0 .. MaxFaults

Init ==
    /\ status = "absent"
    /\ pageRows = NoRows
    /\ blocks = NoBlocks
    /\ chunks = {}
    /\ counted = FALSE
    /\ jobs = EmptyTable
    /\ tasks = {}
    /\ deleting = FALSE
    /\ form \in Formats
    /\ asking = {}
    /\ overtaken = FALSE
    /\ operations = 0
    /\ faults = 0

-----------------------------------------------------------------------------
(* Helpers *)

DocExists == status \notin {"absent", "deleted"}

IsText == form # "paged"

\* The pages with text to find.
Readable == {p \in Pages : form # "blank" /\ pageRows[p].full > 0}

KindOf(t) == t.job[1]

\* payload['page_num'] is set.
SinglePage(t) == Len(t.job) = 3

\* Mutant: the loop counts from 0.
PagesFromZero(t) == IF SinglePage(t) THEN {t.job[3]} ELSE {p - 1 : p \in Pages}

\* The pages a task reads.
PagesOf(t) == IF SinglePage(t) THEN {t.job[3]} ELSE Pages

\* The row a task's id finds.
HasRow(t) == t.orphan = 0
SetRow(t, row) == IF HasRow(t) THEN [jobs EXCEPT ![t.job] = row] ELSE jobs

Moved(t, pc, todo) == (tasks \ {t}) \cup {[t EXCEPT !.pc = pc, !.todo = todo]}
Goto(t, pc) == tasks' = Moved(t, pc, {})

\* queue.enqueue(kind, {'document_id': doc}, dedup_key=key), in a table T.
Insert(T, key) == IF Exists(T[key]) THEN T ELSE [T EXCEPT ![key] = NewRow(key[1], Doc, key)]

\* DELETE FROM jobs.jobs WHERE payload->>'document_id' = doc: the tasks of the
\* rows become orphans, numbered by the operation that wiped them.
OrphanTasks(n) ==
    tasks' = {[t EXCEPT !.orphan = IF HasRow(t) THEN n ELSE @] : t \in tasks}

SetStatus(s) == status' = s /\ UNCHANGED <<pageRows, blocks, chunks, counted>>

\* DocumentEventBus.emit raises when the document is gone, and _fail_document
\* with it: the handler can only raise.
Orphaned(t) == ~DocExists /\ UNCHANGED docVars /\ Goto(t, "retry")

Call(op) ==
    /\ op \in Operations
    /\ operations < MaxOperations /\ operations + faults < MaxDisturbances
    /\ operations' = operations + 1
    /\ UNCHANGED <<form, overtaken, faults>>

Fault(f) ==
    /\ f \in Faults
    /\ faults < MaxFaults /\ operations + faults < MaxDisturbances
    /\ faults' = faults + 1
    /\ UNCHANGED <<form, asking, overtaken, operations>>

-----------------------------------------------------------------------------
(* HTTP operations.  An upload writes with one statement; retry_document and  *)
(* reextract_page read the status first and write whatever it has become.    *)

BackpressureOk == Cardinality(OpenJobs(jobs)) < MaxPending

\* upload of new content
Upload ==
    /\ status = "absent" /\ BackpressureOk
    /\ SetStatus("uploaded")
    /\ jobs' = Insert(jobs, StageKey("ocr"))
    /\ UNCHANGED <<tasks, deleting, setting>>

\* upload of the same content while the document is failed (_atomic_upsert)
Reupload ==
    /\ Call("reupload")
    /\ status = "failed" /\ BackpressureOk
    /\ SetStatus("uploaded")
    /\ jobs' = Insert(jobs, StageKey("ocr"))
    /\ UNCHANGED <<tasks, deleting, asking>>

Asks(p) == asking' = asking \cup {[n |-> operations + 1, page |-> p, found |-> TRUE]}

\* retry_document: the check of the status, ...
RetryChecks ==
    /\ \/ Call("retry") /\ status = "failed"
       \/ Call("force") /\ status \in {"failed", "ready"}
    /\ Asks(0)
    /\ UNCHANGED <<docVars, jobs, tasks, deleting>>

\* A request writes whatever the status has become since it was read.
Overtakes == overtaken' = (overtaken \/ status \notin {"ready", "failed"})

\* ... and the writes, in the same transaction, which has locked nothing so far.
RetryWrites(r) ==
    /\ r.page = 0 /\ DocExists
    /\ status' = "uploaded" /\ counted' = FALSE
    /\ pageRows' = NoRows /\ blocks' = NoBlocks /\ chunks' = {}
    /\ jobs' = Insert(EmptyTable, StageKey("ocr"))
    /\ OrphanTasks(r.n)
    /\ asking' = {[q EXCEPT !.found = FALSE] : q \in asking \ {r}}
    /\ Overtakes
    /\ UNCHANGED <<deleting, form, operations, faults>>

\* SELECT ... fetchone has picked one of the rows of the page.
RowEmptied(r) ==
    (IF r.full > 0 THEN {[full |-> r.full - 1, empty |-> r.empty + 1]} ELSE {})
    \cup (IF r.empty > 0 THEN {r} ELSE {})

HasPage(p) == pageRows[p].full + pageRows[p].empty > 0

\* reextract_page: the checks, ...
ReextractChecks(p) ==
    /\ Call("reextract")
    /\ status \in {"ready", "failed"}
    /\ HasPage(p)
    /\ Asks(p)
    /\ UNCHANGED <<docVars, jobs, tasks, deleting>>

\* ... and the writes.
ReextractWrites(r) ==
    /\ r.page \in Pages /\ DocExists
    /\ \E row \in IF r.found THEN RowEmptied(pageRows[r.page]) ELSE {pageRows[r.page]} :
          pageRows' = [pageRows EXCEPT ![r.page] = row]
    /\ status' = "ocr_done"
    /\ blocks' = NoBlocks /\ chunks' = {}
    /\ jobs' = Insert(EmptyTable, PageKey(r.page))
    /\ OrphanTasks(r.n)
    /\ asking' = asking \ {r}
    /\ Overtakes
    /\ UNCHANGED <<counted, deleting, form, operations, faults>>

\* The request dies before its commit, or emit finds no document.
RequestDies(r) ==
    /\ asking' = asking \ {r}
    /\ UNCHANGED <<docVars, jobs, tasks, deleting, form, overtaken, operations, faults>>

\* delete_document, first commit: flag the open jobs.
RequestDelete ==
    /\ Call("delete")
    /\ DocExists
    /\ jobs' = CancelRequestedForDocument(jobs, Doc)
    /\ deleting' = TRUE
    /\ UNCHANGED <<docVars, tasks, asking>>

\* delete_document, second commit, after at most 5 s of polling: the rows of the
\* document and its jobs go, whether or not a handler still runs.
DeleteRows ==
    /\ deleting
    /\ deleting' = FALSE
    /\ status' = "deleted"
    /\ pageRows' = NoRows /\ blocks' = NoBlocks /\ chunks' = {}
    /\ counted' = FALSE
    /\ jobs' = EmptyTable
    /\ OrphanTasks(operations + 1)
    /\ UNCHANGED setting

\* ... or a lock held by a handler outlasts lock_timeout: ConflictError, and the
\* flags stay.
DeleteTimesOut ==
    /\ deleting /\ tasks # {}
    /\ deleting' = FALSE
    /\ UNCHANGED <<docVars, jobs, tasks, setting>>

HttpStep ==
    \/ Upload \/ Reupload \/ RetryChecks \/ RequestDelete \/ DeleteRows \/ DeleteTimesOut
    \/ \E p \in Pages : ReextractChecks(p)
    \/ \E r \in asking : RetryWrites(r) \/ ReextractWrites(r) \/ RequestDies(r)

-----------------------------------------------------------------------------
(* The queue *)

Claim(w, j) ==
    /\ Claimable(jobs[j])
    /\ jobs' = [jobs EXCEPT ![j] = ClaimedRow(@, w)]
    /\ tasks' = tasks \cup {[job |-> j, n |-> jobs[j].attempts + 1, orphan |-> 0,
                             worker |-> w, pc |-> "start", todo |-> {}]}
    /\ UNCHANGED <<docVars, deleting, setting>>

NextKind == [ocr |-> "layout", layout |-> "chunking", chunking |-> "embedding"]

Completed(t) == SetRow(t, CompletedRow(jobs[t.job]))

\* The handler enqueues the next stage and returns; _handle_job completes the
\* job and commits both.
Finish(t) ==
    /\ t.pc = "finish"
    /\ jobs' = IF KindOf(t) \in DOMAIN NextKind
               THEN Insert(Completed(t), StageKey(NextKind[KindOf(t)]))
               ELSE Completed(t)
    /\ tasks' = tasks \ {t}
    /\ UNCHANGED <<docVars, deleting, setting>>

\* The handler raised: queue.fail.
Raise(t) ==
    /\ t.pc \in {"retry", "giveup"}
    /\ jobs' = SetRow(t, FailedRow(jobs[t.job], t.pc = "retry"))
    /\ tasks' = tasks \ {t}
    /\ UNCHANGED <<docVars, deleting, setting>>

-----------------------------------------------------------------------------
(* The OCR handler: IngestService.ocr_document *)

\* Mutant: no skip.
OcrLoadAlways(t) ==
    /\ KindOf(t) = "ocr" /\ t.pc = "start"
    /\ \/ ~DocExists /\ Goto(t, "retry")
       \/ DocExists /\ Goto(t, IF SinglePage(t) THEN "locate" ELSE "pending")
    /\ UNCHANGED <<docVars, jobs, deleting, setting>>

\* SELECT the document; skip if OCR is done already.
OcrLoad(t) ==
    /\ KindOf(t) = "ocr" /\ t.pc = "start"
    /\ \/ ~DocExists /\ Goto(t, "retry")
       \/ DocExists /\ SinglePage(t) /\ Goto(t, "locate")
       \/ DocExists /\ ~SinglePage(t) /\ status \in {"ocr_done", "ready"} /\ Goto(t, "finish")
       \/ DocExists /\ ~SinglePage(t) /\ status \notin {"ocr_done", "ready"} /\ Goto(t, "pending")
    /\ UNCHANGED <<docVars, jobs, deleting, setting>>

\* Set ocr_pending, whatever the status is by now.
OcrPending(t) ==
    /\ t.pc = "pending"
    /\ \/ Orphaned(t)
       \/ DocExists /\ SetStatus("ocr_pending") /\ Goto(t, "locate")
    /\ UNCHANGED <<jobs, deleting, setting>>

\* _claim_ocr_running
OcrClaimable == {"uploaded", "ocr_pending", "failed"}

\* The file is there: claim the document.
OcrLocate(t) ==
    /\ t.pc = "locate"
    /\ \/ SinglePage(t) /\ UNCHANGED docVars /\ Goto(t, "count")
       \/ ~SinglePage(t) /\ status \in OcrClaimable /\ SetStatus("ocr_running") /\ Goto(t, "count")
       \/ ~SinglePage(t) /\ status \notin OcrClaimable /\ UNCHANGED docVars /\ Goto(t, "finish")
    /\ UNCHANGED <<jobs, deleting, setting>>

\* page_count is set, in a commit of its own, and the page loop entered.
OcrCount(t) ==
    /\ t.pc = "count"
    /\ counted' = (DocExists /\ Pages # {})
    /\ tasks' = Moved(t, "pages", PagesOf(t))
    /\ UNCHANGED <<status, pageRows, blocks, chunks, jobs, deleting, setting>>

\* _fail_document in its own commit, then the exception.
FailDocument(t, pc) ==
    /\ \/ Orphaned(t)
       \/ DocExists /\ SetStatus("failed") /\ Goto(t, pc)
    /\ UNCHANGED <<jobs, deleting, setting>>

\* FILE_NOT_FOUND before the claim; RASTERISE_ERROR, CORRUPT_PDF and
\* TEXT_DECODE_ERROR before the page count.  handle_ocr makes them final.
OcrInputFails(t) ==
    /\ t.pc \in {"locate", "count"}
    /\ FailDocument(t, "giveup")

\* OCR_LOOP_ERROR
OcrLoopFails(t) ==
    /\ t.pc \in {"pages", "page"} /\ ~IsText /\ t.todo # {}
    /\ FailDocument(t, "retry")

\* _check_cancel: the flag of the task's own row.
CancelRequested(t) == HasRow(t) /\ jobs[t.job].cancel_requested

\* CancelledIngest, from the check before a page or the one after rasterising it.
OcrCancelled(t) ==
    /\ t.pc \in {"pages", "page"} /\ ~IsText /\ t.todo # {}
    /\ CancelRequested(t)
    /\ jobs' = SetRow(t, CancelledRow(jobs[t.job]))
    /\ tasks' = tasks \ {t}
    /\ UNCHANGED <<docVars, deleting, setting>>

\* The next page, if the flag is not set (_check_cancel).
OcrNextPage(t) ==
    /\ t.pc = "pages" /\ ~IsText /\ t.todo # {}
    /\ ~CancelRequested(t)
    /\ tasks' = Moved(t, "page", t.todo)
    /\ UNCHANGED <<docVars, jobs, deleting, setting>>

\* What one page leaves in app.pages.  There is no unique constraint on
\* (document_id, page_number), so ON CONFLICT DO NOTHING always inserts: a row
\* with spans, a row without (no text, or ocr_failed), or none at all
\* (rasterising failed, or the statement itself did).
PageOutcomes(r) ==
    IF DocExists
    THEN {[r EXCEPT !.full = @ + 1], [r EXCEPT !.empty = @ + 1], r}
    ELSE {r}

\* _ocr_one_page, one commit per page.
OcrPage(t) ==
    /\ t.pc = "page"
    /\ LET p == Min(t.todo) IN
          /\ \E r \in PageOutcomes(pageRows[p]) : pageRows' = [pageRows EXCEPT ![p] = r]
          /\ tasks' = Moved(t, "pages", t.todo \ {p})
    /\ UNCHANGED <<status, blocks, chunks, counted, jobs, deleting, setting>>

\* After the last page: ocr_done, unless a single page was asked for.
OcrDone(t) ==
    /\ t.pc = "pages" /\ ~IsText /\ t.todo = {}
    /\ \/ SinglePage(t) /\ UNCHANGED docVars /\ Goto(t, "finish")
       \/ ~SinglePage(t) /\ Orphaned(t)
       \/ ~SinglePage(t) /\ DocExists /\ SetStatus("ocr_done") /\ Goto(t, "finish")
    /\ UNCHANGED <<jobs, deleting, setting>>

\* _extract_text_document: page, spans and ocr_done in one commit, in
\* single-page mode too.
OcrText(t) ==
    /\ t.pc = "pages" /\ IsText
    /\ \/ Orphaned(t)
       \/ /\ DocExists
          /\ status' = "ocr_done"
          /\ pageRows' = [pageRows EXCEPT ![Min(Pages)].full = @ + 1]
          /\ UNCHANGED <<blocks, chunks, counted>>
          /\ Goto(t, "finish")
    /\ UNCHANGED <<jobs, deleting, setting>>

OcrStep(t) ==
    \/ OcrLoad(t) \/ OcrPending(t) \/ OcrLocate(t) \/ OcrCount(t) \/ OcrInputFails(t)
    \/ OcrNextPage(t) \/ OcrCancelled(t) \/ OcrPage(t) \/ OcrLoopFails(t) \/ OcrDone(t)
    \/ OcrText(t)

-----------------------------------------------------------------------------
(* The layout, chunking and embedding handlers *)

\* The claim of a stage is an UPDATE with the statuses it may start from; a task
\* that loses it goes straight to finish.
StageClaims(t, from, running, pc, todo) ==
    /\ t.pc = "start"
    /\ \/ status \in from /\ SetStatus(running) /\ tasks' = Moved(t, pc, todo)
       \/ status \notin from /\ UNCHANGED docVars /\ Goto(t, "finish")
    /\ UNCHANGED <<jobs, deleting, setting>>

\* The except branch of a stage: fail the document, raise a retryable error.
StageFails(t) ==
    /\ t.pc \in {"work", "batches"}
    /\ FailDocument(t, "retry")

SpansLoaded ==
    {[page |-> p, copies |-> pageRows[p].full] : p \in {q \in Pages : pageRows[q].full > 0}}

\* Mutant: a layout that was interrupted may be taken up again.
LayoutClaimAgain(t) ==
    /\ KindOf(t) = "layout"
    /\ StageClaims(t, {"ocr_done", "layout_running"}, "layout_running", "work", SpansLoaded)

LayoutClaim(t) ==
    /\ KindOf(t) = "layout"
    /\ StageClaims(t, {"ocr_done"}, "layout_running", "work", SpansLoaded)

\* _transition_layout_done: the blocks of the spans loaded are added.  Blank ones are
\* dropped.
LayoutDone(loaded) ==
    /\ status' = "layout_done"
    /\ blocks' = IF form = "blank" THEN blocks
                 ELSE [p \in Pages |->
                          blocks[p] + SumSet({s.copies : s \in {l \in loaded : l.page = p}})]
    /\ UNCHANGED <<pageRows, chunks, counted>>

\* Mutant: a document without text is only logged.
LayoutWorkReturns(t) ==
    /\ KindOf(t) = "layout" /\ t.pc = "work" /\ DocExists
    /\ Goto(t, "finish")
    /\ \/ t.todo = {} /\ UNCHANGED docVars
       \/ t.todo # {} /\ LayoutDone(t.todo)
    /\ UNCHANGED <<jobs, deleting, setting>>

\* parse_layout: EMPTY_OCR_OUTPUT fails the document but not the job; otherwise
\* the blocks of the spans loaded are added and layout_done is set in one commit.
\* Without a page count the document goes on, though it has no span.
LayoutWork(t) ==
    /\ KindOf(t) = "layout" /\ t.pc = "work" /\ DocExists
    /\ Goto(t, "finish")
    /\ \/ t.todo = {} /\ counted /\ SetStatus("failed")
       \/ (t.todo # {} \/ ~counted) /\ LayoutDone(t.todo)
    /\ UNCHANGED <<jobs, deleting, setting>>

BlocksLoaded ==
    {[page |-> p, copies |-> blocks[p]] : p \in {q \in Pages : blocks[q] > 0}}

ChunkingClaim(t) ==
    /\ KindOf(t) = "chunking"
    /\ StageClaims(t, {"layout_done"}, "chunking_running", "work", BlocksLoaded)

UsedRuns ==
    {c.id.run : c \in chunks}
    \cup {id.run : id \in UNION {t.todo : t \in {u \in tasks : u.pc = "batches"}}}

NewChunks(loaded) ==
    LET run == Min((1 .. Cardinality(UsedRuns) + 1) \ UsedRuns) IN
    {[id |-> [run |-> run, page |-> l.page], copies |-> l.copies, embedded |-> FALSE]
        : l \in loaded}

\* chunk_document: the chunks of the blocks loaded and chunking_done in one commit.
ChunkingWork(t) ==
    /\ KindOf(t) = "chunking" /\ t.pc = "work" /\ DocExists
    /\ status' = "chunking_done"
    /\ chunks' = chunks \cup NewChunks(t.todo)
    /\ UNCHANGED <<pageRows, blocks, counted>>
    /\ Goto(t, "finish")
    /\ UNCHANGED <<jobs, deleting, setting>>

Unembedded == {c.id : c \in {d \in chunks : ~d.embedded}}

\* Mutant: the claim also takes a document whose chunking is not done.
EmbeddingClaimEarly(t) ==
    /\ KindOf(t) = "embedding"
    /\ StageClaims(t, {"layout_done", "chunking_running", "chunking_done",
                       "embedding_running"},
                   "embedding_running", "batches", Unembedded)

\* _claim_embedding_running also takes a document that is embedding_running; the
\* chunks without a vector are selected right after the claim.
EmbeddingClaim(t) ==
    /\ KindOf(t) = "embedding"
    /\ StageClaims(t, {"chunking_done", "embedding_running"}, "embedding_running",
                   "batches", Unembedded)

\* One batch: UPDATE ... WHERE id, which finds nothing if the chunk is gone.
EmbeddingBatch(t, id) ==
    /\ t.pc = "batches" /\ id \in t.todo
    /\ chunks' = {IF c.id = id THEN [c EXCEPT !.embedded = TRUE] ELSE c : c \in chunks}
    /\ tasks' = Moved(t, "batches", t.todo \ {id})
    /\ UNCHANGED <<status, pageRows, blocks, counted, jobs, deleting, setting>>

\* After the last batch: ready, whatever the status is by now.
EmbeddingDone(t) ==
    /\ t.pc = "batches" /\ t.todo = {} /\ DocExists
    /\ SetStatus("ready")
    /\ Goto(t, "finish")
    /\ UNCHANGED <<jobs, deleting, setting>>

StageStep(t) ==
    \/ StageFails(t)
    \/ LayoutClaim(t) \/ LayoutWork(t) \/ ChunkingClaim(t) \/ ChunkingWork(t)
    \/ EmbeddingClaim(t) \/ EmbeddingDone(t)
    \/ \E id \in t.todo : EmbeddingBatch(t, id)

HandlerStep(t) == OcrStep(t) \/ StageStep(t) \/ Finish(t) \/ Raise(t)

-----------------------------------------------------------------------------
(* Faults and time *)

\* A worker process dies; what its tasks had committed stays.
Crash(w) ==
    /\ \E t \in tasks : t.worker = w
    /\ Fault("crash")
    /\ tasks' = {t \in tasks : t.worker # w}
    /\ UNCHANGED <<docVars, jobs, deleting>>

\* A statement fails and takes the transaction with it, so that the except
\* branch cannot write `failed' either: the document keeps its running status.
StageAborts(t) ==
    /\ t.pc \in {"page", "work", "batches"}
    /\ Fault("abort")
    /\ Goto(t, "retry")
    /\ UNCHANGED <<docVars, jobs, deleting>>

Holders(j) == {t \in tasks : t.job = j /\ HasRow(t) /\ t.worker = jobs[j].worker}

Late(j) ==
    /\ jobs[j].status = "running" /\ jobs[j].fresh
    /\ jobs' = [jobs EXCEPT ![j].fresh = FALSE]
    /\ UNCHANGED <<docVars, tasks, deleting>>

\* JOB_STALE_TIMEOUT passes: nobody is left to heartbeat the row, ...
LeaseExpires(j) == Holders(j) = {} /\ Late(j) /\ UNCHANGED setting

\* ... or somebody is, but the heartbeats do not get through in time.
LeaseLapses(j) == Holders(j) # {} /\ Late(j) /\ Fault("lapse")

Heartbeat(t) ==
    /\ jobs' = SetRow(t, HeartbeatRow(jobs[t.job], t.worker))
    /\ UNCHANGED <<docVars, tasks, deleting, setting>>

\* Reconciler._NEXT_STAGE
NextStage ==
    [uploaded |-> "ocr", ocr_pending |-> "ocr", ocr_running |-> "ocr",
     ocr_done |-> "layout", layout_running |-> "layout",
     layout_done |-> "chunking", chunking_running |-> "chunking",
     chunking_done |-> "embedding", embedding_running |-> "embedding"]

AfterReclaim == [j \in JobIds |-> ReclaimedRow(jobs[j])]

\* find_partial_documents: the status asks for a stage and no job is open.
Partial(T) ==
    /\ status \in DOMAIN NextStage
    /\ OpenJobs(T) = {}

\* One round of _reconcile_loop: reclaim_stuck_jobs, then find_partial_documents.
Reconcile ==
    /\ jobs' = IF Partial(AfterReclaim)
               THEN Insert(AfterReclaim, ReconcileKey(NextStage[status]))
               ELSE AfterReclaim
    /\ jobs' # jobs
    /\ UNCHANGED <<docVars, tasks, deleting, setting>>

-----------------------------------------------------------------------------
WorkerStep ==
    \/ \E w \in Workers : \E j \in JobIds : Claim(w, j)
    \/ \E t \in tasks : HandlerStep(t) \/ Heartbeat(t) \/ StageAborts(t)
    \/ \E w \in Workers : Crash(w)

TimeStep == Reconcile \/ \E j \in JobIds : LeaseExpires(j) \/ LeaseLapses(j)

Next == HttpStep \/ WorkerStep \/ TimeStep

Spec == Init /\ [][Next]_vars

\* Workers poll, handlers go on, a DELETE request ends, time passes and the
\* reconciler runs.  Nothing is assumed of users or of faults.
Fairness ==
    /\ \A j \in JobIds :
          /\ WF_vars(\E w \in Workers : Claim(w, j))
          /\ WF_vars(\E t \in tasks : t.job = j /\ HandlerStep(t))
          /\ WF_vars(LeaseExpires(j))
    /\ WF_vars(DeleteRows \/ DeleteTimesOut)
    /\ WF_vars(Reconcile)

FairSpec == Spec /\ Fairness

-----------------------------------------------------------------------------
(* Properties *)

\* A task that has claimed the document and works on its rows.
AtWork(t) == t.pc \in {"pages", "page", "work", "batches"}

\* The claims on the document's status let one handler at a time write blocks or
\* chunks, even if its job is taken back or deleted and runs again beside it.  Not so
\* if the page of a text document is re-extracted: reading it sets ocr_done for itself,
\* when the layout that reextract_page allowed may be at work; nor if a request writes
\* after a worker has moved the document on from the status that the request had read.
OneHandlerInStage ==
    ~overtaken /\ (~IsText \/ operations = 0) =>
        \A t, u \in tasks : t.pc = "work" /\ u.pc = "work" => t = u

\* A document that is ready can be searched in full: every chunk has its vector.
AllEmbedded == status = "ready" => \A c \in chunks : c.embedded

\* So it is unless a request wrote with a check that was out of date
\* (MCPipelineOvertaken).
ReadyIsEmbedded == ~overtaken => AllEmbedded

\* A ready document on which nobody works has the text of every page that OCR
\* read in its chunks.
ReadyIsComplete ==
    status = "ready" /\ ~(\E t \in tasks : AtWork(t)) =>
        \A p \in Readable : \E c \in chunks : c.id.page = p

\* A ready document holds the text of a page once.
NoDuplicateText ==
    status = "ready" =>
        \A p \in Pages :
            /\ \A c \in chunks : c.id.page = p => c.copies = 1
            /\ Cardinality({c \in chunks : c.id.page = p}) <= 1

\* Retrieval finds all the text of a ready document.  A task of an old run that is still
\* alive can break it where there are two pages: layout loads the spans before the task
\* has added those of the second (MCPipelinePageLost, with one retry).
ReadyIsWhole == ReadyIsEmbedded /\ ReadyIsComplete

\* The pipeline implements the state machine of the README: what retrieval finds
\* are the embedded chunks of a ready document, and they are the text of every page
\* that was read.
Stage ==
    CASE status \in {"ocr_pending", "ocr_running"} -> "ocr"
      [] status \in {"ocr_done", "layout_running"} -> "layout"
      [] status \in {"layout_done", "chunking_running"} -> "chunking"
      [] status \in {"chunking_done", "embedding_running"} -> "embedding"
      [] OTHER -> status

Searchable ==
    IF status = "ready" THEN {c.id.page : c \in {d \in chunks : d.embedded}} ELSE {}

Machine == INSTANCE IngestStateMachine
    WITH stage <- Stage, readable <- Readable, searchable <- Searchable

FollowsStateMachine == Machine!Spec

Processing == DocExists /\ status \notin {"ready", "failed"}
DeleteAsked == deleting \/ \E j \in JobIds : jobs[j].cancel_requested

\* An uploaded document becomes ready or failed, unless its deletion was asked for:
\* what the README promises.
DocumentSettles == Processing ~> (~Processing \/ DeleteAsked)

\* So it does if no handler dies or is cut short and no other operation is called.
Undisturbed == operations = 0 /\ faults = 0
SettlesUndisturbed ==
    (Processing /\ Undisturbed) ~> (~Processing \/ DeleteAsked \/ ~Undisturbed)

=============================================================================
