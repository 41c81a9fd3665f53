------------------------------ MODULE OcrRouting ------------------------------
(***************************************************************************)
(* How the pages of one document get their text: _ocr_one_page                *)
(* (app/ingest/service.py), the routing of a page to an engine                *)
(* (app/ingest/ocr/routing.py) and the calls of the vision model               *)
(* (app/ingest/ocr/vlm_ocr.py), which are requests of the router of the same     *)
(* process.                                                                  *)
(*                                                                          *)
(* A task is one run of the document's OCR job: an attempt after a crash, or a   *)
(* second one that was claimed when the lease of the first lapsed.  Each inserts a *)
(* row of its own for a page, in an open transaction, and commits it with its text  *)
(* or, if a slot of the vision model is asked for, already with the slot.  The     *)
(* database fails only with the process.  Calls are reduced to their outcome, and   *)
(* what the engines read to the engine's name.                                 *)
(***************************************************************************)
EXTENDS Router

CONSTANTS
    Pages,       \* 1 .. page_count
    Tasks,       \* runs of the document's OCR job, numbered
    Cap,         \* max_vlm_pages_per_doc
    VisionTier,
    VisionPrompt

ASSUME PagesAssumption == /\ IsFiniteSet(Pages) /\ Pages = 1 .. Cardinality(Pages) /\ Pages # {}
                          /\ IsFiniteSet(Tasks) /\ Tasks \subseteq Nat /\ Cap \in Nat
                          /\ VisionTier \in Tiers /\ VisionPrompt \in Prompts
ASSUME WorldsAssumption ==
    \A w \in Worlds : w.tasks \in Nat /\ w.image \in BOOLEAN

VARIABLES
    used,    \* app.documents.vlm_pages_used
    page,    \* app.pages and app.spans, as committed: per page and the task that
             \* inserted the row, its status and the engine of its text
    tasks

ocrVars == <<used, page, tasks>>
routerVars == vars
allVars == <<routerVars, ocrVars>>

\* Blurry scans, handwriting and degraded scans go one way: preprocessed before the scan.
PageTypes == {"native", "clean_scan", "poor_scan"}

PageStatuses == {"absent", "ocr_running", "ocr_done", "ocr_failed", "vlm_budget_exceeded"}

NoTask == [pc |-> "idle", page |-> 1, mode |-> "none", source |-> "none", request |-> 0]

\* Past the INSERT of the page's row.
ReadingPcs == {"opened", "scanned", "claimed", "asked", "write"}
OverPcs == {"done", "lost"}

\* An image is one page.
PagesOfDocument == IF world.image THEN {1} ELSE Pages

Modes == {"none", "describe", "extract"}
LocalSources == {"pdfplumber", "paddleocr"}
VlmSources == {"vlm", "vlm_description"}

Task == [pc : {"idle", "page"} \cup ReadingPcs \cup OverPcs,
         page : Pages,
         mode : Modes,
         source : {"none", "vlm_budget_exceeded"} \cup LocalSources \cup VlmSources,
         request : Nat]

Row == [status : PageStatuses, text : {"none"} \cup LocalSources \cup VlmSources]

OcrTypeOK ==
    /\ used \in 0 .. Cap
    /\ page \in [Pages -> [Tasks -> Row]]
    /\ tasks \in [Tasks -> Task]

NoRow == [status |-> "absent", text |-> "none"]
NoPages == [p \in Pages |-> [t \in Tasks |-> NoRow]]

OcrInit ==
    /\ Init
    /\ used = 0
    /\ page = NoPages
    /\ tasks = [t \in Tasks |-> NoTask]

-----------------------------------------------------------------------------
(* _ocr_one_page, and the loop around it *)

Page(t) == tasks[t].page
At(t, pc) == tasks[t].pc = pc

NextPage(t) ==
    tasks' = [tasks EXCEPT ![t] =
        IF Page(t) + 1 \in PagesOfDocument
        THEN [NoTask EXCEPT !.pc = "page", !.page = Page(t) + 1]
        ELSE [NoTask EXCEPT !.pc = "done"]]

StartTask(t) ==
    /\ At(t, "idle") /\ t <= world.tasks
    /\ \A u \in Tasks : u < t => ~At(u, "idle")
    /\ tasks' = [tasks EXCEPT ![t].pc = "page"]
    /\ UNCHANGED <<routerVars, used, page>>

\* A page that cannot be rasterised is left as it is.
Unrasterised(t) ==
    /\ At(t, "page") /\ ~world.image
    /\ NextPage(t)
    /\ UNCHANGED <<routerVars, used, page>>

\* INSERT ... ON CONFLICT DO NOTHING: without a unique key on the page's number nothing
\* conflicts.
InsertPage(t) ==
    /\ At(t, "page")
    /\ tasks' = [tasks EXCEPT ![t].pc = "opened"]
    /\ UNCHANGED <<routerVars, used, page>>

\* What the task has written of its page is committed.
RowCommitted(t, status, text) ==
    page' = [page EXCEPT ![Page(t)][t] = [status |-> status, text |-> text]]

PageFails(t) ==
    /\ At(t, "opened")
    /\ RowCommitted(t, "ocr_failed", "none")
    /\ NextPage(t)
    /\ UNCHANGED <<routerVars, used>>

\* Spans and status, one commit.  The text of a page without a slot is the scan's.
WritePage(t) ==
    /\ At(t, "write")
    /\ IF tasks[t].source = "vlm_budget_exceeded"
       THEN RowCommitted(t, "vlm_budget_exceeded", "paddleocr")
       ELSE RowCommitted(t, "ocr_done", tasks[t].source)
    /\ NextPage(t)
    /\ UNCHANGED <<routerVars, used>>

-----------------------------------------------------------------------------
(* route_and_extract *)

\* The scan that counts: a clean page is scanned again if the first scan is doubtful.
Confident(type, first, second) == first \/ (type = "clean_scan" /\ second)

\* Which call of the vision model the page needs.
Mode(type, sparse, confident) ==
    CASE type # "native" /\ sparse -> "describe"
      [] type # "native" /\ ~sparse /\ ~confident -> "extract"
      [] OTHER -> "none"

RoutePage(t) ==
    /\ At(t, "opened")
    /\ \E type \in PageTypes, first, second, sparse \in BOOLEAN :
          LET mode == Mode(type, sparse, Confident(type, first, second)) IN
          /\ type = "native" => ~world.image /\ first
          /\ second => type = "clean_scan" /\ ~first
          /\ sparse => world.image
          /\ tasks' = [tasks EXCEPT
                 ![t].pc = IF mode = "none" THEN "write" ELSE "scanned",
                 ![t].mode = mode,
                 ![t].source = IF type = "native" THEN "pdfplumber" ELSE "paddleocr"]
    /\ UNCHANGED <<routerVars, used, page>>

\* Mutant: the cap is not part of the UPDATE.
ClaimVlmPageUnchecked(t) ==
    /\ At(t, "scanned")
    /\ used' = used + 1
    /\ tasks' = [tasks EXCEPT ![t].pc = "claimed"]
    /\ RowCommitted(t, "ocr_running", "none")
    /\ UNCHANGED routerVars

\* _try_claim_vlm_page: one UPDATE, and a commit whether or not there was a slot.
ClaimVlmPage(t) ==
    /\ At(t, "scanned")
    /\ \/ /\ used < Cap /\ used' = used + 1
          /\ tasks' = [tasks EXCEPT ![t].pc = "claimed"]
       \/ /\ used >= Cap /\ UNCHANGED used
          /\ tasks' = [tasks EXCEPT ![t].pc = "write",
                                    ![t].source = "vlm_budget_exceeded"]
    /\ RowCommitted(t, "ocr_running", "none")
    /\ UNCHANGED routerVars

\* VlmProvider.extract_page, describe_page: a request without the cache.
AskVision(t) ==
    /\ At(t, "claimed")
    /\ \E r \in Requests :
          /\ IsFree(r, {q \in Requests : q > world.requests})
          /\ Asked(r, VisionTier, VisionPrompt)
          /\ tasks' = [tasks EXCEPT ![t].pc = "asked", ![t].request = r]
    /\ UNCHANGED <<used, page>>

RequestPc(t) == requests[tasks[t].request].pc

\* What the model read, line by line, or its description of a picture.
VlmSource(mode) == IF mode = "describe" THEN "vlm_description" ELSE "vlm"

VisionAnswers(t) ==
    /\ At(t, "asked") /\ RequestPc(t) = "answered"
    /\ tasks' = [tasks EXCEPT ![t].pc = "write", ![t].source = VlmSource(tasks[t].mode)]
    /\ UNCHANGED <<routerVars, used, page>>

\* _unclaim_vlm_page: one UPDATE, and a commit.
UnclaimVlmPage == used' = IF used = 0 THEN 0 ELSE used - 1

\* VlmProvider makes an IngestError of every error of the router, also of its refusal:
\* the clauses for BudgetExceededError are not reached; nor can every answer be parsed.
\* The scan is the text; a description gives its slot back, an extraction does not.
VisionFails(t) ==
    /\ At(t, "asked") /\ RequestPc(t) \in {"answered", "blocked", "failed"}
    /\ IF tasks[t].mode = "describe" THEN UnclaimVlmPage ELSE UNCHANGED used
    /\ tasks' = [tasks EXCEPT ![t].pc = "write"]
    /\ UNCHANGED <<routerVars, page>>

-----------------------------------------------------------------------------
(* The process *)

Lose(t) == [NoTask EXCEPT !.pc = "lost"]

\* A cancelled call ends the task; its transaction is rolled back.
TaskCancelled(t) ==
    /\ At(t, "asked") /\ RequestPc(t) = "cancelled"
    /\ tasks' = [tasks EXCEPT ![t] = Lose(t)]
    /\ UNCHANGED <<routerVars, used, page>>

\* The process dies and starts again.
RestartAll ==
    /\ Restart
    /\ tasks' = [t \in Tasks |-> IF tasks[t].pc \in {"idle"} \cup OverPcs THEN tasks[t] ELSE Lose(t)]
    /\ UNCHANGED <<used, page>>

\* retry_document deletes the pages of a failed document, and leaves its slots.
Retry ==
    /\ \A t \in Tasks : tasks[t].pc \in {"idle"} \cup OverPcs
    /\ \E t \in Tasks : At(t, "lost")
    /\ page' = NoPages
    /\ UNCHANGED <<routerVars, used, tasks>>

-----------------------------------------------------------------------------
TaskStep(t) ==
    \/ Unrasterised(t) \/ InsertPage(t) \/ PageFails(t) \/ WritePage(t)
    \/ RoutePage(t) \/ ClaimVlmPage(t) \/ AskVision(t) \/ VisionAnswers(t) \/ VisionFails(t)
    \/ TaskCancelled(t)

\* What the event loop does by itself.
LoopStep ==
    \/ \E t \in Tasks : TaskStep(t)
    \/ \E r \in Requests : RequestStep(r) /\ UNCHANGED ocrVars

OcrNext ==
    \/ LoopStep
    \/ \E t \in Tasks : StartTask(t)
    \/ \E r \in Requests : Ask(r) /\ UNCHANGED ocrVars
    \/ (LogWritten \/ Tick) /\ UNCHANGED ocrVars
    \/ RestartAll
    \/ Retry

OcrSpec == OcrInit /\ [][OcrNext]_allVars

\* As in Router; the engines are local and return.
FairOcrSpec == OcrSpec /\ WF_allVars(LoopStep)

-----------------------------------------------------------------------------
(* Properties *)

\* The rows whose text is the model's, and the tasks with a call at work or an answer
\* that is not yet written.
VlmTexts == {x \in Pages \X Tasks : page[x[1]][x[2]].text \in VlmSources}

VlmCalls == {t \in Tasks : \/ tasks[t].pc \in {"claimed", "asked"}
                           \/ tasks[t].pc = "write" /\ tasks[t].source \in VlmSources}

\* The vision model's cap holds over all tasks, crashes and retries of a document: every
\* text of the model and every call at work has a slot of its own (slots are claimed
\* before the call and given back by others at any time), and no more than Cap are given.
SlotsCoverCalls ==
    Cardinality(VlmTexts) + Cardinality(VlmCalls) <= used /\ used <= Cap

\* Requests and tasks come to their ends, whatever the providers and the engines do: a
\* task that asks the vision model waits for its request to go through its tier.
WorkEnds == RequestEnds /\ <>[](\A t \in Tasks : tasks[t].pc \in {"idle"} \cup OverPcs)

\* "Global hourly cap hit - roll back the per-doc slot so it isn't wasted": when all
\* requests were refused, no slot is taken.
RefusalWastesNoSlot ==
    (/\ \A t \in Tasks : tasks[t].pc \in {"idle", "done"}
     /\ \A r \in Requests : requests[r].tier = VisionTier => requests[r].pc \in {"idle", "blocked"})
        => used = 0

=============================================================================
