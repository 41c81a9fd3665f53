--------------------------------- MODULE Drafts ---------------------------------
(***************************************************************************)
(* One draft: its generation by a draft_generation job (app/draft/engine.py, *)
(* app/jobs/handlers/draft_generation.py), the regeneration of its section,   *)
(* the edits of operators (app/edits/service.py) and its deletion             *)
(* (app/api/routes/drafts.py), with the rows they write                       *)
(* (app/draft/draft_repo.py).  Drafts have one section here; its text is      *)
(* named by a number, new for every text that a model or an operator writes.  *)
(*                                                                          *)
(* What a language model writes depends on chunks that were retrieved before, *)
(* and is written to the database after; the document may have been processed *)
(* again in between, which replaces its chunks (era).  A citation has the text *)
(* it was made for and the era of its chunk; chunks take their citations along. *)
(*                                                                          *)
(* pc of a generation task: start, retrieve, write (language model), finish   *)
(* (finalized, the job is open), giveup and cancelled (raised).  A request     *)
(* that regenerates the section is at write or replace, where its DELETE has   *)
(* seen some of the citations.                                               *)
(***************************************************************************)
EXTENDS JobTable, FiniteSets, FiniteSetsExt

CONSTANTS
    Draft,
    Requests,   \* ids of regenerating requests
    Forms,      \* browser tabs with the edit form of the draft
    NoForm,     \* a tab that does not show the draft
    Budgets     \* bounds: saves, eras (times the document is processed again),
                \* faults, whether regenerations and a deletion happen, and whether
                \* the draft's template exists

ASSUME DraftAssumption == Owners = {Draft} /\ Kinds = {"draft_generation"}
ASSUME DraftBudgetsAssumption ==
    \A b \in Budgets : /\ b.saves \in Nat /\ b.eras \in Nat /\ b.faults \in Nat
                       /\ b.regenerate \in BOOLEAN /\ b.delete \in BOOLEAN
                       /\ b.template \in BOOLEAN

VARIABLES
    draft,     \* app.drafts: status, the section's text in ai_output and final_output
    sections,  \* app.sections: the number of rows, and the text
    citations, \* app.citations
    edits,     \* app.edits of the section
    era,       \* the chunks of the document
    cited,     \* auxiliary: the era in which the section's text was written
    written,   \* the last text that was written
    jobs, tasks,
    requests,  \* the regenerating requests
    forms,     \* per tab, the text it shows
    deleting,  \* how far the DELETE request is
    saves, faults, budget

rowVars == <<draft, sections, citations, edits, era, cited, written>>
userVars == <<requests, forms, deleting>>
boundVars == <<saves, faults, budget>>
vars == <<rowVars, jobs, tasks, userVars, boundVars>>

DraftStatuses == {"absent", "queued", "generating", "ready", "failed", "edited", "deleted"}

Citation == [text : Nat, era : Nat]

Edit == [ai : Nat, user : Nat, byOperator : BOOLEAN]

TaskPcs == {"start", "retrieve", "write", "finish", "giveup", "cancelled"}

\* A run of the generation handler: its n-th claim, and the era of its chunks.
Task == [job : JobIds, n : Nat, worker : Workers, pc : TaskPcs, era : Nat]

Request == [pc : {"idle", "write", "replace", "done"}, era : Nat, seen : SUBSET Citation]

Idle == [pc |-> "idle", era |-> 0, seen |-> {}]

TypeOK ==
    /\ draft \in [status : DraftStatuses, ai : Nat, final : Nat]
    /\ sections \in [rows : Nat, text : Nat]
    /\ citations \subseteq Citation
    /\ edits \subseteq Edit
    /\ era \in 0 .. budget.eras /\ cited \in Nat /\ written \in Nat
    /\ jobs \in Table
    /\ tasks \subseteq Task
    /\ \A t \in tasks : t.era <= era
    /\ requests \in [Requests -> Request]
    /\ \A r \in Requests : requests[r].era <= era
    /\ forms \in [Forms -> Nat \cup {NoForm}]
    /\ deleting \in {"no", "asked", "cancelled", "flagged", "done"}
    /\ budget \in Budgets /\ saves \in 0 .. budget.saves /\ faults \in 0 .. budget.faults

Init ==
    /\ draft = [status |-> "absent", ai |-> 0, final |-> 0]
    /\ sections = [rows |-> 0, text |-> 0]
    /\ citations = {} /\ edits = {}
    /\ era = 0 /\ cited = 0 /\ written = 0
    /\ jobs = EmptyTable /\ tasks = {}
    /\ requests = [r \in Requests |-> Idle]
    /\ forms = [f \in Forms |-> NoForm]
    /\ deleting = "no"
    /\ saves = 0 /\ faults = 0
    /\ budget \in Budgets

DraftExists == draft.status \notin {"absent", "deleted"}
Complete == draft.status \in {"ready", "edited"}

Fault == faults < budget.faults /\ faults' = faults + 1 /\ UNCHANGED <<saves, budget>>

-----------------------------------------------------------------------------
(* create_draft; the job has no dedup key *)

Create ==
    /\ draft.status = "absent"
    /\ draft' = [draft EXCEPT !.status = "queued"]
    /\ Enqueued(jobs, "draft_generation", Draft, NoKey, jobs')
    /\ UNCHANGED <<sections, citations, edits, era, cited, written, tasks, userVars, boundVars>>

-----------------------------------------------------------------------------
(* The generation *)

Claim(w, j) ==
    /\ Claimable(jobs[j])
    /\ jobs' = [jobs EXCEPT ![j] = ClaimedRow(@, w)]
    /\ tasks' = tasks \cup {[job |-> j, n |-> jobs[j].attempts + 1, worker |-> w,
                             pc |-> "start", era |-> 0]}
    /\ UNCHANGED <<rowVars, userVars, boundVars>>

Goto(t, pc) == tasks' = (tasks \ {t}) \cup {[t EXCEPT !.pc = pc]}

\* get_latest finds no template (create_draft takes any name): mark_generating is
\* not reached, and the draft stays queued.
TemplateMissing(t) ==
    /\ t.pc = "start" /\ ~budget.template
    /\ Goto(t, "giveup")
    /\ UNCHANGED <<rowVars, jobs, userVars, boundVars>>

\* Mutant: any draft is taken.
MarkGeneratingAny(t) ==
    /\ t.pc = "start" /\ budget.template
    /\ \/ ~DraftExists /\ Goto(t, "cancelled") /\ UNCHANGED draft
       \/ DraftExists /\ draft' = [draft EXCEPT !.status = "generating"] /\ Goto(t, "retrieve")
    /\ UNCHANGED <<sections, citations, edits, era, cited, written, jobs, userVars, boundVars>>

\* mark_generating: queued only; CancelledIngest if the draft is gone, else
\* ConflictError, which the handler makes an error that is not retried.
MarkGenerating(t) ==
    /\ t.pc = "start" /\ budget.template
    /\ \/ /\ draft.status = "queued"
          /\ draft' = [draft EXCEPT !.status = "generating"]
          /\ Goto(t, "retrieve")
       \/ ~DraftExists /\ Goto(t, "cancelled") /\ UNCHANGED draft
       \/ DraftExists /\ draft.status # "queued" /\ Goto(t, "giveup") /\ UNCHANGED draft
    /\ UNCHANGED <<sections, citations, edits, era, cited, written, jobs, userVars, boundVars>>

Retrieve(t) ==
    /\ t.pc = "retrieve"
    /\ tasks' = (tasks \ {t}) \cup {[t EXCEPT !.pc = "write", !.era = era]}
    /\ UNCHANGED <<rowVars, jobs, userVars, boundVars>>

\* Mutant: the draft is not marked.
GenerationFailsSilently(t) ==
    /\ t.pc \in {"retrieve", "write"}
    /\ Goto(t, "giveup")
    /\ UNCHANGED <<rowVars, jobs, userVars, boundVars>>

\* The except branch of generate: DraftRepo.fail, whatever the status is by now.
GenerationFails(t) ==
    /\ t.pc \in {"retrieve", "write"}
    /\ draft' = IF DraftExists THEN [draft EXCEPT !.status = "failed"] ELSE draft
    /\ Goto(t, "giveup")
    /\ UNCHANGED <<sections, citations, edits, era, cited, written, jobs, userVars, boundVars>>

\* Mutant: the draft is given the status of its job.
CancelSeenMarks(t) ==
    /\ t.pc \in {"start", "retrieve", "write"} /\ jobs[t.job].cancel_requested
    /\ draft' = IF DraftExists THEN [draft EXCEPT !.status = "cancelled"] ELSE draft
    /\ Goto(t, "cancelled")
    /\ UNCHANGED <<sections, citations, edits, era, cited, written, jobs, userVars, boundVars>>

\* _cancel_watcher sees the flag of the job.
CancelSeen(t) ==
    /\ t.pc \in {"start", "retrieve", "write"} /\ jobs[t.job].cancel_requested
    /\ Goto(t, "cancelled")
    /\ UNCHANGED <<rowVars, jobs, userVars, boundVars>>

\* finalize: section, citations, ai_output and ready in one transaction, ...
Finalize(t) ==
    /\ t.pc = "write" /\ DraftExists /\ t.era = era
    /\ written' = written + 1 /\ cited' = era
    /\ sections' = [rows |-> sections.rows + 1, text |-> written']
    /\ citations' = citations \cup {[text |-> written', era |-> era]}
    /\ draft' = [draft EXCEPT !.status = "ready", !.ai = written']
    /\ Goto(t, "finish")
    /\ UNCHANGED <<edits, era, jobs, userVars, boundVars>>

\* ... or, outside the try block, a foreign key that finds no draft or chunk.
FinalizeFails(t) ==
    /\ t.pc = "write" /\ (~DraftExists \/ t.era # era)
    /\ Goto(t, "giveup")
    /\ UNCHANGED <<rowVars, jobs, userVars, boundVars>>

OutcomeRow(t) ==
    CASE t.pc = "finish" -> CompletedRow(jobs[t.job])
      [] t.pc = "giveup" -> FailedRow(jobs[t.job], FALSE)
      [] t.pc = "cancelled" -> CancelledRow(jobs[t.job])

\* _handle_job, after the handler has returned or raised.
Outcome(t) ==
    /\ t.pc \in {"finish", "giveup", "cancelled"}
    /\ jobs' = [jobs EXCEPT ![t.job] = OutcomeRow(t)]
    /\ tasks' = tasks \ {t}
    /\ UNCHANGED <<rowVars, userVars, boundVars>>

TaskStep(t) ==
    \/ TemplateMissing(t) \/ MarkGenerating(t) \/ Retrieve(t) \/ GenerationFails(t) \/ CancelSeen(t)
    \/ Finalize(t) \/ FinalizeFails(t) \/ Outcome(t)

Crash(w) ==
    /\ \E t \in tasks : t.worker = w
    /\ Fault
    /\ tasks' = {t \in tasks : t.worker # w}
    /\ UNCHANGED <<rowVars, jobs, userVars>>

\* A shutdown cancels the generation, which the handler takes for a deletion.
Shutdown(t) ==
    /\ t.pc \in {"start", "retrieve", "write"}
    /\ Fault
    /\ jobs' = [jobs EXCEPT ![t.job] = CancelledRow(@)]
    /\ tasks' = tasks \ {t}
    /\ UNCHANGED <<rowVars, userVars>>

Holders(j) == {t \in tasks : t.job = j /\ t.worker = jobs[j].worker}

\* JOB_STALE_TIMEOUT passes and the sweep takes the job back; a job that is still
\* held, only if its heartbeats fail.
Reclaim(j) ==
    /\ jobs[j].status = "running"
    /\ IF Holders(j) = {} THEN UNCHANGED boundVars ELSE Fault
    /\ jobs' = [jobs EXCEPT ![j] = ReclaimedRow([@ EXCEPT !.fresh = FALSE])]
    /\ UNCHANGED <<rowVars, tasks, userVars>>

\* The document is processed again: its chunks are replaced.
NewEra ==
    /\ era < budget.eras
    /\ era' = era + 1
    /\ citations' = {}
    /\ UNCHANGED <<draft, sections, edits, cited, written, jobs, tasks, userVars, boundVars>>

-----------------------------------------------------------------------------
(* regenerate_section *)

SetRequest(r, pc, e, seen) ==
    requests' = [requests EXCEPT ![r] = [pc |-> pc, era |-> e, seen |-> seen]]

RegenerateStarts(r) ==
    /\ budget.regenerate /\ requests[r].pc = "idle"
    /\ Complete /\ sections.rows = 1
    /\ SetRequest(r, "write", era, {})
    /\ UNCHANGED <<rowVars, jobs, tasks, forms, deleting, boundVars>>

\* replace_section: SELECT the section, DELETE its citations.
ReplaceBegins(r) ==
    /\ requests[r].pc = "write" /\ DraftExists
    /\ SetRequest(r, "replace", requests[r].era, citations)
    /\ UNCHANGED <<rowVars, jobs, tasks, forms, deleting, boundVars>>

\* Mutant: the citations are deleted after the new ones are inserted.
ReplaceDeletesLast(r) ==
    /\ requests[r].pc = "replace" /\ DraftExists /\ requests[r].era = era
    /\ written' = written + 1 /\ cited' = era
    /\ sections' = [sections EXCEPT !.text = written']
    /\ citations' = {}
    /\ SetRequest(r, "done", era, {})
    /\ UNCHANGED <<draft, edits, era, jobs, tasks, forms, deleting, boundVars>>

\* UPDATE of the text, which waits for other requests that have updated it, INSERT
\* of the citations, groundedness scores, commit.
Replace(r) ==
    /\ requests[r].pc = "replace" /\ DraftExists /\ requests[r].era = era
    /\ written' = written + 1 /\ cited' = era
    /\ sections' = [sections EXCEPT !.text = written']
    /\ citations' = (citations \ requests[r].seen) \cup {[text |-> written', era |-> era]}
    /\ SetRequest(r, "done", era, {})
    /\ UNCHANGED <<draft, edits, era, jobs, tasks, forms, deleting, boundVars>>

\* The section or a chunk is gone, the model fails or REGENERATE_TIMEOUT passes.
RegenerateFails(r) ==
    /\ requests[r].pc \in {"write", "replace"}
    /\ SetRequest(r, "done", era, {})
    /\ UNCHANGED <<rowVars, jobs, tasks, forms, deleting, boundVars>>

-----------------------------------------------------------------------------
(* save_edit, from the form of the browser, which shows the section's text *)

OpenForm(f) ==
    /\ Complete /\ forms[f] = NoForm /\ saves < budget.saves
    /\ forms' = [forms EXCEPT ![f] = sections.text]
    /\ UNCHANGED <<rowVars, jobs, tasks, requests, deleting, boundVars>>

\* The operator saves the form, with another text or, having changed only other
\* parts of the draft, with the text shown.  An Edit row is written if it is
\* not the text of ai_output.
Save(f) ==
    /\ forms[f] # NoForm /\ Complete /\ saves < budget.saves
    /\ saves' = saves + 1 /\ UNCHANGED <<faults, budget>>
    /\ forms' = [forms EXCEPT ![f] = NoForm]
    /\ \E changed \in BOOLEAN :
          LET user == IF changed THEN written + 1 ELSE forms[f] IN
          /\ written' = IF changed THEN written + 1 ELSE written
          /\ edits' = IF user = draft.ai THEN edits
                      ELSE edits \cup {[ai |-> draft.ai, user |-> user, byOperator |-> changed]}
          /\ draft' = [draft EXCEPT !.status = "edited", !.final = user]
    /\ UNCHANGED <<sections, citations, era, cited, jobs, tasks, requests, deleting>>

-----------------------------------------------------------------------------
(* delete_draft: request_cancel_for_draft is two statements, and its commit is   *)
(* followed by that of the DELETE                                             *)

AskDelete ==
    /\ budget.delete /\ deleting = "no" /\ DraftExists
    /\ deleting' = "asked"
    /\ UNCHANGED <<rowVars, jobs, tasks, requests, forms, boundVars>>

\* Mutant: pending jobs are flagged, as request_cancel_for_document does.
DeleteFlagsPending ==
    /\ deleting = "asked"
    /\ jobs' = [j \in JobIds |-> IF jobs[j].status = "pending" THEN FlaggedRow(jobs[j]) ELSE jobs[j]]
    /\ deleting' = "cancelled"
    /\ UNCHANGED <<rowVars, tasks, requests, forms, boundVars>>

DeleteCancels ==
    /\ deleting = "asked"
    /\ jobs' = [j \in JobIds |-> IF jobs[j].status = "pending" THEN CancelledRow(jobs[j]) ELSE jobs[j]]
    /\ deleting' = "cancelled"
    /\ UNCHANGED <<rowVars, tasks, requests, forms, boundVars>>

DeleteFlags ==
    /\ deleting = "cancelled"
    /\ jobs' = [j \in JobIds |-> IF jobs[j].status = "running" THEN FlaggedRow(jobs[j]) ELSE jobs[j]]
    /\ deleting' = "flagged"
    /\ UNCHANGED <<rowVars, tasks, requests, forms, boundVars>>

DeleteDraft ==
    /\ deleting = "flagged"
    /\ draft' = [status |-> "deleted", ai |-> 0, final |-> 0]
    /\ sections' = [rows |-> 0, text |-> 0]
    /\ citations' = {} /\ edits' = {}
    /\ deleting' = "done"
    /\ UNCHANGED <<era, cited, written, jobs, tasks, requests, forms, boundVars>>

-----------------------------------------------------------------------------
DeleteStep == DeleteCancels \/ DeleteFlags \/ DeleteDraft

RegenerateStep(r) == ReplaceBegins(r) \/ Replace(r) \/ RegenerateFails(r)

Next ==
    \/ Create \/ NewEra \/ AskDelete \/ DeleteStep
    \/ \E w \in Workers : Crash(w) \/ \E j \in JobIds : Claim(w, j)
    \/ \E t \in tasks : TaskStep(t) \/ Shutdown(t)
    \/ \E j \in JobIds : Reclaim(j)
    \/ \E r \in Requests : RegenerateStarts(r) \/ RegenerateStep(r)
    \/ \E f \in Forms : OpenForm(f) \/ Save(f)

Spec == Init /\ [][Next]_vars

\* Workers poll, generations go on, a DELETE request ends.
Fairness ==
    /\ \A j \in JobIds :
          /\ WF_vars(\E w \in Workers : Claim(w, j))
          /\ WF_vars(\E t \in tasks : t.job = j /\ TaskStep(t))
          /\ WF_vars(Holders(j) = {} /\ Reclaim(j))
    /\ WF_vars(DeleteStep)

FairSpec == Spec /\ Fairness

-----------------------------------------------------------------------------
(* Properties *)

\* A draft is generated once: its section has one row, although a job may be taken
\* back from a task that goes on.
SectionsOnce == sections.rows <= 1 /\ (Complete => sections.rows = 1)

\* However regenerations overlap, the citations of the text that won are there,
\* unless their chunks are gone.
CurrentTextIsCited ==
    Complete /\ cited = era => [text |-> sections.text, era |-> era] \in citations

\* What an operator has edited is not taken back: no late task sets the draft to
\* ready or failed again.
EditedStaysEdited ==
    [][draft.status = "edited" => draft'.status \in {"edited", "deleted"}]_vars

\* Without faults, and while its document is left alone, a draft of a template that
\* exists becomes ready or failed.
DraftSettles ==
    (draft.status \in {"queued", "generating"} /\ faults = 0 /\ era = 0 /\ budget.template)
        ~> (draft.status \notin {"queued", "generating"} \/ faults > 0 \/ era > 0)

\* After a deletion no task works for the draft and no job of it is open any more,
\* whichever statement of the deletion it escaped, but for one that ran when it was
\* flagged and was then taken back, which nobody claims again.
Quiet ==
    /\ tasks = {}
    /\ \A j \in JobIds : IsOpen(jobs[j]) =>
          jobs[j].status = "pending" /\ jobs[j].cancel_requested /\ jobs[j].attempts > 0

DeletedIsQuiet == <>[](draft.status = "deleted" => Quiet)

\* "Each Edit row carries the AI value, the operator value": an edit is a change by
\* an operator.
EditsAreOperators == \A e \in edits : e.byOperator

=============================================================================
